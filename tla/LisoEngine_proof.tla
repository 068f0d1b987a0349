--------------------------- MODULE LisoEngine_proof ---------------------------
(***************************************************************************)
(* The counter of the select loop and the sets it gives to select, for any *)
(* limit of descriptors and any number of clients: proofs of the           *)
(* invariants of LisoEngine.                                               *)
(*                                                                         *)
(* A step of the loop is one of the kinds below, field by field, so that   *)
(* each part of the inductive invariant has one case for each kind.  The   *)
(* counter is exact because it is the number of a set, Counted: the open   *)
(* descriptors but the pipes that no connection has any more.              *)
(***************************************************************************)
EXTENDS LisoEngine, FiniteSetTheorems, Induction_proof, TLAPS

Object == [kind : {"free", "std", "listener"}] \cup [kind : {"conn"}, of : Clients]
            \cup [kind : {"stdin", "stdout"}, of : Fds]
EngineState == [rfds : SUBSET Fds, wfds : SUBSET Fds, temp_rfds : SUBSET Fds,
                temp_wfds : SUBSET Fds, nfds : Int, fdmax : Fds]
Slot == [request : {"NULL", "live", "freed"}, context : BOOLEAN, status : {0, 200, 404},
         uri : {"static", "cgi"}, close : BOOLEAN, left : 0..MaxSends,
         stdin_pipe : FdOrNone, stdout_pipe : FdOrNone]
Peer == [state : {"away", "queued", "in"}, port : Listeners, hello : {"ok", "bad", "silent"},
         input : Requests \cup {NoRequest}, waiting : BOOLEAN, end : {"open", "fin", "reset"}]
Program == [state : {"none", "running", "exited"}, out : 0..MaxChunks]

Types ==
  /\ peer \in [Clients -> Peer]
  /\ backlog \in [Listeners -> Seq(Clients)]
  /\ child \in [Fds -> Program]
  /\ kernel \in [Fds -> Object]
  /\ engine \in EngineState
  /\ connections \in [Fds -> Slot]
  /\ server \in {"up", "exited", "crashed", "undefined"}

-----------------------------------------------------------------------------
(* Descriptors. *)

LEMMA FdFacts ==
  /\ Fds \subseteq Nat /\ Sock \in Fds /\ SslSock \in Fds /\ MaxConnections \in Nat
  /\ IsFiniteSet(Fds) /\ Cardinality(Fds) = MaxConnections
  /\ -1 \notin Fds /\ Listeners \subseteq Fds
<1>1. MaxConnections \in Nat /\ MaxConnections > 7
  BY EngineAssumption
<1>2. IsFiniteSet(0..(MaxConnections - 1)) /\ Cardinality(0..(MaxConnections - 1)) = MaxConnections
  BY <1>1, FS_Interval
<1> QED
  BY <1>1, <1>2 DEF Fds, Sock, SslSock, Listeners

\* The kinds of object.
LEMMA Kinds ==
  ASSUME NEW o \in Object
  PROVE  /\ o.kind \in {"free", "std", "listener", "conn", "stdin", "stdout"}
         /\ o.kind = "conn" => o.of \in Clients /\ o = Conn(o.of)
         /\ o.kind \in {"stdin", "stdout"} => o.of \in Fds
<1>1. CASE o \in [kind : {"free", "std", "listener"}]
  BY <1>1
<1>2. CASE o \in [kind : {"conn"}, of : Clients]
  BY <1>2 DEF Conn
<1>3. CASE o \in [kind : {"stdin", "stdout"}, of : Fds]
  BY <1>3
<1> QED
  BY <1>1, <1>2, <1>3 DEF Object

LEMMA Objects ==
  /\ Free \in Object /\ Free.kind = "free"
  /\ \A c \in Clients : Conn(c) \in Object /\ Conn(c).kind = "conn" /\ Conn(c).of = c
  /\ \A f \in Fds : \A k \in {"stdin", "stdout"} :
       /\ [kind |-> k, of |-> f] \in Object
       /\ [kind |-> k, of |-> f].kind = k /\ [kind |-> k, of |-> f].of = f
  BY DEF Object, Free, Conn

LEMMA FreeFacts ==
  /\ FreeFds \subseteq Fds /\ FreeFds \subseteq Nat
  /\ \A f \in Fds : f \in FreeFds <=> kernel[f].kind = "free"
  BY FdFacts DEF FreeFds, OpenFds

LEMMA ReleasedFacts ==
  ASSUME kernel \in [Fds -> Object], NEW fs
  PROVE  /\ Released(fs) \in [Fds -> Object]
         /\ \A f \in Fds : Released(fs)[f] = IF f \in fs THEN Free ELSE kernel[f]
<1>1. Free \in Object
  BY Objects
<1> QED
  BY <1>1 DEF Released

\* The lowest free descriptor.
LEMMA LowestOne ==
  ASSUME FreeFds # {} PROVE Lowest(1)[1] \in FreeFds
<1>1. PICK m \in FreeFds : \A f \in FreeFds : m <= f
  BY FreeFacts, LeastNat
<1> DEFINE s == [n \in 1..1 |-> m]
           Ok(t) == /\ \A a, b \in 1..1 : a < b => t[a] < t[b]
                    /\ \A f \in FreeFds : f < t[1] => \E a \in 1..1 : t[a] = f
<1>2. s \in [1..1 -> FreeFds]
  OBVIOUS
<1>3. Ok(s)
  BY <1>1, FreeFacts
<1>4. Lowest(1) \in [1..1 -> FreeFds]
  <2>1. Lowest(1) = CHOOSE t \in [1..1 -> FreeFds] : Ok(t)
    BY DEF Lowest
  <2> HIDE DEF Ok, s
  <2> QED
    BY <1>2, <1>3, <2>1
<1> QED
  BY <1>4

LEMMA Another ==
  ASSUME NEW S, S \subseteq Fds, NEW n \in Nat, Cardinality(S) >= n + 1
  PROVE  \E m \in S : /\ \A f \in S : m <= f
                      /\ Cardinality(S \ {m}) >= n
<1>1. IsFiniteSet(S) /\ Cardinality(S) \in Nat
  BY FdFacts, FS_Subset, FS_CardinalityType
<1>2. S # {}
  BY <1>1, FS_EmptySet
<1>3. PICK m \in S : \A f \in S : m <= f
  <2>1. S \subseteq Nat
    BY FdFacts
  <2> QED
    BY <1>2, <2>1, LeastNat
<1>4. Cardinality(S \ {m}) = Cardinality(S) - 1
  BY <1>1, FS_RemoveElement
<1>5. Cardinality(S \ {m}) >= n
  BY <1>1, <1>4
<1> QED
  BY <1>3, <1>5

\* The four lowest, of which pipe takes two each.
LEMMA LowestFour ==
  ASSUME Cardinality(FreeFds) >= 4
  PROVE  /\ Lowest(4)[1] \in FreeFds /\ Lowest(4)[2] \in FreeFds /\ Lowest(4)[3] \in FreeFds
         /\ Lowest(4)[1] < Lowest(4)[2] /\ Lowest(4)[2] < Lowest(4)[3]
<1> DEFINE F == FreeFds
           S1(x) == F \ {x}
           S2(x, y) == S1(x) \ {y}
           S3(x, y, z) == S2(x, y) \ {z}
<1>0. F \subseteq Fds /\ Cardinality(F) >= 3 + 1
  BY FreeFacts
<1>1. PICK a \in F : (\A f \in F : a <= f) /\ Cardinality(S1(a)) >= 3
  <2> HIDE DEF F
  <2> QED
    BY <1>0, Another
<1> HIDE DEF S1
<1>2. PICK b \in S1(a) : (\A f \in S1(a) : b <= f) /\ Cardinality(S2(a, b)) >= 2
  <2>1. S1(a) \subseteq Fds /\ Cardinality(S1(a)) >= 2 + 1
    BY <1>0, <1>1 DEF S1
  <2> QED
    BY <2>1, Another
<1> HIDE DEF S2
<1>3. PICK c \in S2(a, b) : (\A f \in S2(a, b) : c <= f) /\ Cardinality(S3(a, b, c)) >= 1
  <2>1. S2(a, b) \subseteq Fds /\ Cardinality(S2(a, b)) >= 1 + 1
    BY <1>0, <1>2 DEF S1, S2
  <2> QED
    BY <2>1, Another
<1> HIDE DEF S3
<1>4. PICK d \in S3(a, b, c) : \A f \in S3(a, b, c) : d <= f
  <2>1. S3(a, b, c) \subseteq Fds /\ Cardinality(S3(a, b, c)) >= 0 + 1
    BY <1>0, <1>3 DEF S1, S2, S3
  <2> QED
    BY <2>1, Another
<1> USE DEF S1, S2, S3
<1>5. F \subseteq Nat
  BY FreeFacts
<1>6. a < b /\ b < c /\ c < d
  BY <1>1, <1>2, <1>3, <1>4, <1>5
<1>7. \A f \in F : f < d => f \in {a, b, c}
  BY <1>4, <1>5
<1> DEFINE s == [n \in 1..4 |-> IF n = 1 THEN a ELSE IF n = 2 THEN b ELSE IF n = 3 THEN c ELSE d]
           Ok(t) == /\ \A x, y \in 1..4 : x < y => t[x] < t[y]
                    /\ \A f \in FreeFds : f < t[4] => \E x \in 1..4 : t[x] = f
<1>8. s \in [1..4 -> FreeFds] /\ s[1] = a /\ s[2] = b /\ s[3] = c /\ s[4] = d
  BY <1>2, <1>3, <1>4
<1>9. \A n \in 1..4 : n = 1 \/ n = 2 \/ n = 3 \/ n = 4
  OBVIOUS
<1> HIDE DEF s
<1>10. Ok(s)
  <2>1. \A x, y \in 1..4 : x < y => s[x] < s[y]
    <3>1. a < c /\ a < d /\ b < d
      BY <1>5, <1>6
    <3> QED
      BY <1>6, <1>8, <1>9, <3>1
  <2>2. \A f \in FreeFds : f < s[4] => \E x \in 1..4 : s[x] = f
    BY <1>7, <1>8
  <2> QED
    BY <2>1, <2>2
<1>11. Lowest(4) \in [1..4 -> FreeFds] /\ Ok(Lowest(4))
  <2>1. Lowest(4) = CHOOSE t \in [1..4 -> FreeFds] : Ok(t)
    BY DEF Lowest
  <2> HIDE DEF Ok
  <2> QED
    BY <1>8, <1>10, <2>1
<1> QED
  BY <1>11

LEMMA MinIs ==
  ASSUME NEW S, S \subseteq Nat, S # {}
  PROVE  Min(S) \in S /\ \A y \in S : Min(S) <= y
<1>1. \E x \in S : \A y \in S : x <= y
  BY LeastNat
<1> QED
  BY <1>1 DEF Min

-----------------------------------------------------------------------------
(* Types. *)

\* What the loop's operators do to the engine, field by field.
Fields(e, d, R, W, n, m) ==
  /\ d \in EngineState
  /\ d.rfds = R /\ d.wfds = W /\ d.nfds = n /\ d.fdmax = m
  /\ d.temp_rfds = e.temp_rfds /\ d.temp_wfds = e.temp_wfds

Without(e, R, W, n) == [e EXCEPT !.rfds = @ \ R, !.wfds = @ \ W, !.nfds = @ - n]

LEMMA WithoutFields ==
  ASSUME NEW e \in EngineState, NEW R, NEW W, NEW n \in Int
  PROVE  Fields(e, Without(e, R, W, n), e.rfds \ R, e.wfds \ W, e.nfds - n, e.fdmax)
<1> DEFINE e1 == [e EXCEPT !.rfds = @ \ R]
           e2 == [e1 EXCEPT !.wfds = @ \ W]
           e3 == [e2 EXCEPT !.nfds = @ - n]
<1>1. Fields(e, e1, e.rfds \ R, e.wfds, e.nfds, e.fdmax)
  BY DEF EngineState, Fields
<1>2. Without(e, R, W, n) = e3
  BY DEF Without
<1> HIDE DEF e1
<1>3. Fields(e, e2, e.rfds \ R, e.wfds \ W, e.nfds, e.fdmax)
  BY <1>1 DEF EngineState, Fields
<1> HIDE DEF e2
<1>4. Fields(e, e3, e.rfds \ R, e.wfds \ W, e.nfds - n, e.fdmax)
  BY <1>3 DEF EngineState, Fields
<1> QED
  BY <1>2, <1>4

LEMMA CloseFields ==
  ASSUME NEW e \in EngineState, NEW s, NEW i
  PROVE  IF s.uri = "cgi"
           THEN Fields(e, CloseAndCleanup(e, s, i), e.rfds \ {i, s.stdin_pipe},
                       e.wfds \ {i, s.stdout_pipe}, e.nfds - 3, e.fdmax)
           ELSE Fields(e, CloseAndCleanup(e, s, i), e.rfds \ {i}, e.wfds \ {i},
                       e.nfds - 1, e.fdmax)
<1>1. CASE s.uri = "cgi"
  <2> DEFINE R == {i, s.stdin_pipe}
             W == {i, s.stdout_pipe}
  <2>1. CloseAndCleanup(e, s, i) = Without(e, R, W, 3)
    BY <1>1 DEF CloseAndCleanup, Without
  <2>2. Fields(e, Without(e, R, W, 3), e.rfds \ R, e.wfds \ W, e.nfds - 3, e.fdmax)
    <3> HIDE DEF R, W
    <3>1. 3 \in Int
      OBVIOUS
    <3> QED
      BY <3>1, WithoutFields, Zenon
  <2> QED
    BY <1>1, <2>1, <2>2
<1>2. CASE s.uri # "cgi"
  <2> DEFINE R == {i}
  <2>1. CloseAndCleanup(e, s, i) = Without(e, R, R, 1)
    BY <1>2 DEF CloseAndCleanup, Without
  <2>2. Fields(e, Without(e, R, R, 1), e.rfds \ R, e.wfds \ R, e.nfds - 1, e.fdmax)
    <3> HIDE DEF R
    <3>1. 1 \in Int
      OBVIOUS
    <3> QED
      BY <3>1, WithoutFields, Zenon
  <2> QED
    BY <1>2, <2>1, <2>2
<1> QED
  BY <1>1, <1>2

LEMMA FinishFields ==
  ASSUME NEW e \in EngineState, NEW s, NEW i
  PROVE  Fields(e, FinishCgi(e, s, i), e.rfds \ {s.stdin_pipe}, e.wfds \ {s.stdout_pipe, i},
                e.nfds - 2, e.fdmax)
<1> DEFINE R == {s.stdin_pipe}
           W == {s.stdout_pipe, i}
<1>1. FinishCgi(e, s, i) = Without(e, R, W, 2)
  BY DEF FinishCgi, Without
<1>2. Fields(e, Without(e, R, W, 2), e.rfds \ R, e.wfds \ W, e.nfds - 2, e.fdmax)
  <2> HIDE DEF R, W
  <2>1. 2 \in Int
    OBVIOUS
  <2> QED
    BY <2>1, WithoutFields, Zenon
<1> QED
  BY <1>1, <1>2

LEMMA AcceptFields ==
  ASSUME NEW e \in EngineState, NEW f \in Fds
  PROVE  Fields(e, AcceptFds(e, f), e.rfds \cup {f}, e.wfds, e.nfds + 1, Max2(e.fdmax, f))
<1> DEFINE e1 == [e EXCEPT !.rfds = @ \cup {f}]
           e2 == [e1 EXCEPT !.nfds = @ + 1]
           e3 == [e2 EXCEPT !.fdmax = Max2(@, f)]
<1>1. Fields(e, e1, e.rfds \cup {f}, e.wfds, e.nfds, e.fdmax)
  BY DEF EngineState, Fields
<1>2. AcceptFds(e, f) = e3
  BY DEF AcceptFds
<1> HIDE DEF e1
<1>3. Fields(e, e2, e.rfds \cup {f}, e.wfds, e.nfds + 1, e.fdmax)
  BY <1>1 DEF EngineState, Fields
<1> HIDE DEF e2
<1>4. Fields(e, e3, e.rfds \cup {f}, e.wfds, e.nfds + 1, Max2(e.fdmax, f))
  BY <1>3 DEF EngineState, Fields, Max2
<1> QED
  BY <1>2, <1>4

OpenPipes(e, i, p, q) ==
  [ReadDone(e, i) EXCEPT !.rfds = @ \cup {p}, !.wfds = @ \cup {q, i},
                         !.nfds = @ + 2, !.fdmax = Max2(@, q)]

LEMMA OpenFields ==
  ASSUME NEW e \in EngineState, NEW i \in Fds, NEW p \in Fds, NEW q \in Fds
  PROVE  Fields(ReadDone(e, i), OpenPipes(e, i, p, q), e.rfds \cup {p}, e.wfds \cup {q, i},
                e.nfds + 2, Max2(e.fdmax, q))
<1> DEFINE d  == ReadDone(e, i)
           e1 == [d EXCEPT !.rfds = @ \cup {p}]
           e2 == [e1 EXCEPT !.wfds = @ \cup {q, i}]
           e3 == [e2 EXCEPT !.nfds = @ + 2]
           e4 == [e3 EXCEPT !.fdmax = Max2(@, q)]
<1>0. Fields(d, d, e.rfds, e.wfds, e.nfds, e.fdmax)
  BY DEF EngineState, Fields, ReadDone
<1>2. OpenPipes(e, i, p, q) = e4
  BY DEF OpenPipes
<1> HIDE DEF d
<1>1. Fields(d, e1, e.rfds \cup {p}, e.wfds, e.nfds, e.fdmax)
  BY <1>0 DEF EngineState, Fields
<1> HIDE DEF e1
<1>3. Fields(d, e2, e.rfds \cup {p}, e.wfds \cup {q, i}, e.nfds, e.fdmax)
  BY <1>1 DEF EngineState, Fields
<1> HIDE DEF e2
<1>4. Fields(d, e3, e.rfds \cup {p}, e.wfds \cup {q, i}, e.nfds + 2, e.fdmax)
  BY <1>3 DEF EngineState, Fields
<1> HIDE DEF e3
<1>5. Fields(d, e4, e.rfds \cup {p}, e.wfds \cup {q, i}, e.nfds + 2, Max2(e.fdmax, q))
  BY <1>4 DEF EngineState, Fields, Max2
<1> QED
  BY <1>2, <1>5 DEF d

\* The descriptors that the pass has still to come to.
Passed(e, d, R, W) ==
  /\ d \in EngineState
  /\ d.rfds = e.rfds /\ d.wfds = e.wfds /\ d.nfds = e.nfds /\ d.fdmax = e.fdmax
  /\ d.temp_rfds = R /\ d.temp_wfds = W

LEMMA DoneFields ==
  ASSUME NEW e \in EngineState, NEW i
  PROVE  /\ Passed(e, ReadDone(e, i), e.temp_rfds \ {i}, e.temp_wfds)
         /\ Passed(e, AllDone(e, i), e.temp_rfds \ {i}, e.temp_wfds \ {i})
<1>1. Passed(e, ReadDone(e, i), e.temp_rfds \ {i}, e.temp_wfds)
  BY DEF ReadDone, EngineState, Passed
<1>2. Passed(e, AllDone(e, i), e.temp_rfds \ {i}, e.temp_wfds \ {i})
  BY DEF AllDone, EngineState, Passed
<1> QED
  BY <1>1, <1>2

LEMMA WatchFields ==
  ASSUME NEW e \in EngineState, NEW S \in SUBSET Fds
  PROVE  Fields(e, [e EXCEPT !.wfds = @ \cup S], e.rfds, e.wfds \cup S, e.nfds, e.fdmax)
  BY DEF EngineState, Fields

LEMMA UnwatchFields ==
  ASSUME NEW e \in EngineState, NEW i
  PROVE  Fields(e, [e EXCEPT !.wfds = @ \ {i}], e.rfds, e.wfds \ {i}, e.nfds, e.fdmax)
  BY DEF EngineState, Fields

LEMMA SlotTypes ==
  /\ \A b \in BOOLEAN : InitConnection(b) \in Slot
  /\ Cleaned \in Slot /\ NeverUsed \in Slot
  /\ \A s \in Slot : GetReady(s) \in Slot
  /\ \A s \in Slot : \A r \in Requests : Parsed(s, r) \in Slot
  /\ \A s \in Slot : \A n \in 0..MaxSends : [s EXCEPT !.left = n] \in Slot
  /\ \A s \in Slot : \A p, q \in Fds : [s EXCEPT !.stdin_pipe = p, !.stdout_pipe = q] \in Slot
<1>0. MaxSends \in Nat /\ 0 \in 0..MaxSends /\ -1 \in FdOrNone /\ Fds \subseteq FdOrNone
  BY EngineAssumption DEF FdOrNone
<1>1. \A b \in BOOLEAN : InitConnection(b) \in Slot
  BY <1>0 DEF InitConnection, Slot
<1>2. Cleaned \in Slot
  <2>1. InitConnection(FALSE) \in Slot
    BY <1>1
  <2> QED
    BY <2>1, ZenonT(60) DEF Cleaned, Slot
<1>3. NeverUsed \in Slot
  BY <1>2 DEF NeverUsed, Slot
<1>4. \A s \in Slot : GetReady(s) \in Slot
  BY <1>1 DEF GetReady, Slot
<1>5. \A s \in Slot : \A r \in Requests : Parsed(s, r) \in Slot
  <2> SUFFICES ASSUME NEW s \in Slot, NEW r \in Requests PROVE Parsed(s, r) \in Slot
    OBVIOUS
  <2>1. r \in Request /\ r.uri \in {"static", "cgi"} /\ r.close \in BOOLEAN
    BY EngineAssumption DEF Request
  <2> DEFINE st == IF r.ok THEN 200 ELSE 404
             s1 == [s EXCEPT !.uri = r.uri]
             s2 == [s1 EXCEPT !.status = st]
             s3 == [s2 EXCEPT !.close = r.close]
  <2>2. Parsed(s, r) = s3
    BY DEF Parsed
  <2>3. st \in {0, 200, 404}
    OBVIOUS
  <2> HIDE DEF st
  <2>4. s1 \in Slot
    BY <2>1 DEF Slot
  <2> HIDE DEF s1
  <2>5. s2 \in Slot
    BY <2>3, <2>4 DEF Slot
  <2> HIDE DEF s2
  <2>6. s3 \in Slot
    BY <2>1, <2>5 DEF Slot
  <2> QED
    BY <2>2, <2>6
<1>6. \A s \in Slot : \A n \in 0..MaxSends : [s EXCEPT !.left = n] \in Slot
  BY DEF Slot
<1>7. \A s \in Slot : \A p, q \in Fds : [s EXCEPT !.stdin_pipe = p, !.stdout_pipe = q] \in Slot
  BY <1>0, ZenonT(60) DEF Slot
<1> QED
  BY <1>1, <1>2, <1>3, <1>4, <1>5, <1>6, <1>7

LEMMA InitTypes == Init => Types
<1> SUFFICES ASSUME Init PROVE Types
  OBVIOUS
<1>1. peer \in [Clients -> Peer]
  BY DEF Init, Away, Peer, NoRequest, Listeners
<1>2. backlog \in [Listeners -> Seq(Clients)]
  <2>1. <<>> \in Seq(Clients)
    OBVIOUS
  <2> QED
    BY <2>1 DEF Init
<1>3. child \in [Fds -> Program]
  BY EngineAssumption DEF Init, NoChild, Program
<1>4. kernel \in [Fds -> Object]
  <2>1. [kind |-> "std"] \in Object /\ [kind |-> "listener"] \in Object /\ Free \in Object
    BY DEF Object, Free
  <2> QED
    BY <2>1 DEF Init
<1>5. engine \in EngineState
  BY FdFacts DEF Init, EngineState
<1>6. connections \in [Fds -> Slot]
  BY SlotTypes DEF Init
<1> QED
  BY <1>1, <1>2, <1>3, <1>4, <1>5, <1>6 DEF Init, Types

LEMMA PeerTypes ==
  /\ Away \in Peer
  /\ \A p \in Peer :
       /\ \A l \in Listeners, h \in Hellos :
            [p EXCEPT !.state = "queued", !.port = l, !.hello = h] \in Peer
       /\ \A r \in Requests : [p EXCEPT !.input = r, !.waiting = TRUE] \in Peer
       /\ \A how \in Departures : [p EXCEPT !.end = how] \in Peer
       /\ [p EXCEPT !.state = "in"] \in Peer /\ [p EXCEPT !.input = NoRequest] \in Peer
       /\ [p EXCEPT !.waiting = FALSE] \in Peer
  BY EngineAssumption DEF Away, Peer, Listeners

LEMMA ProgramTypes ==
  /\ NoChild \in Program
  /\ \A k \in Program : /\ [k EXCEPT !.state = "running"] \in Program
                        /\ [k EXCEPT !.state = "exited"] \in Program
                        /\ [k EXCEPT !.out = 0] \in Program
                        /\ k.out < MaxChunks => [k EXCEPT !.out = @ + 1] \in Program
  BY EngineAssumption DEF NoChild, Program

LEMMA ClientTypes ==
  ASSUME Types, NEW i \in Fds, kernel[i].kind = "conn" PROVE Client(i) \in Clients
  BY Kinds DEF Types, Client

LEMMA EndsTypes ==
  ASSUME Types, NEW i \in Fds, kernel[i].kind = "conn", NEW e \in EngineState, NEW fs, Ends(i, e, fs)
  PROVE  Types'
<1>1. Client(i) \in Clients
  BY ClientTypes
<1>2. engine' \in EngineState
  BY DoneFields DEF Ends, Passed
<1>3. kernel' \in [Fds -> Object]
  BY ReleasedFacts DEF Ends, Types
<1>4. connections' \in [Fds -> Slot]
  BY SlotTypes DEF Ends, Types
<1>5. peer' \in [Clients -> Peer]
  BY <1>1, PeerTypes DEF Ends, Types
<1>6. child' \in [Fds -> Program]
  BY ProgramTypes DEF Ends, Types
<1> QED
  BY <1>2, <1>3, <1>4, <1>5, <1>6 DEF Ends, Types

LEMMA EnvironmentTypes == Types /\ Environment => Types'
<1> SUFFICES ASSUME Types, Environment PROVE Types'
  OBVIOUS
<1>1. ASSUME NEW c \in Clients, NEW l \in Ports, NEW h \in Hellos, Connect(c, l, h) PROVE Types'
  <2>1. peer' \in [Clients -> Peer]
    <3>1. l \in Listeners
      BY EngineAssumption
    <3> QED
      BY <1>1, <3>1, PeerTypes DEF Connect, Types
  <2>2. backlog' \in [Listeners -> Seq(Clients)]
    BY <1>1, EngineAssumption DEF Connect, Types
  <2> QED
    BY <1>1, <2>1, <2>2 DEF Connect, Types
<1>2. ASSUME NEW c \in Clients, NEW r \in Requests, Ask(c, r) PROVE Types'
  <2>1. peer' \in [Clients -> Peer]
    BY <1>2, PeerTypes DEF Ask, Types
  <2> QED
    BY <1>2, <2>1 DEF Ask, Types
<1>3. ASSUME NEW c \in Clients, NEW how \in Departures, Leave(c, how) PROVE Types'
  <2>1. peer' \in [Clients -> Peer]
    BY <1>3, PeerTypes DEF Leave, Types
  <2> QED
    BY <1>3, <2>1 DEF Leave, Types
<1>4. ASSUME NEW f \in Fds, ChildWrites(f) \/ ChildExits(f) PROVE Types'
  <2>0. child[f] \in Program /\ child \in [Fds -> Program]
    BY DEF Types
  <2>1. CASE ChildWrites(f)
    <3>1. [child[f] EXCEPT !.out = @ + 1] \in Program
      BY <2>0, <2>1, ProgramTypes DEF ChildWrites
    <3>2. child' = [child EXCEPT ![f] = [child[f] EXCEPT !.out = @ + 1]]
      BY <2>1 DEF ChildWrites
    <3>3. child' \in [Fds -> Program]
      BY <2>0, <3>1, <3>2
    <3> QED
      BY <2>1, <3>3 DEF ChildWrites, Types
  <2>2. CASE ChildExits(f)
    <3>1. child' \in [Fds -> Program]
      BY <2>0, <2>2, ProgramTypes DEF ChildExits
    <3> QED
      BY <2>2, <3>1 DEF ChildExits, Types
  <2> QED
    BY <1>4, <2>1, <2>2
<1> QED
  BY <1>1, <1>2, <1>3, <1>4 DEF Environment

LEMMA SelectTypes == Types /\ (Select \/ SelectFails) => Types'
<1> SUFFICES ASSUME Types, Select \/ SelectFails PROVE Types'
  OBVIOUS
<1>1. CASE Select
  <2>1. engine' \in EngineState
    BY <1>1 DEF Select, Types, EngineState
  <2> QED
    BY <1>1, <2>1 DEF Select, Types
<1>2. CASE SelectFails
  BY <1>2 DEF SelectFails, Types
<1> QED
  BY <1>1, <1>2

LEMMA AcceptTypes ==
  ASSUME Types, NEW i \in Fds, Accept(i) \/ AcceptFails(i) \/ AcceptAtLimit(i)
  PROVE  Types'
<1>0. engine \in EngineState
  BY DEF Types
<1>1. CASE Accept(i)
  <2> DEFINE c == Head(backlog[i])
             f == Lowest(1)[1]
  <2>1. c \in Clients /\ Tail(backlog[i]) \in Seq(Clients)
    BY <1>1 DEF Accept, Types
  <2>2. f \in Fds
    BY <1>1, LowestOne, FreeFacts DEF Accept
  <2> HIDE DEF c, f
  <2>3. engine' \in EngineState
    <3>1. engine' = ReadDone(AcceptFds(engine, f), i) \/ engine' = AllDone(engine, i)
      BY <1>1 DEF Accept, c, f
    <3>2. AcceptFds(engine, f) \in EngineState
      BY <1>0, <2>2, AcceptFields DEF Fields
    <3> QED
      BY <1>0, <3>1, <3>2, DoneFields DEF Passed
  <2>4. kernel' \in [Fds -> Object]
    <3>1. kernel' = [kernel EXCEPT ![f] = Conn(c)] \/ kernel' = kernel
      BY <1>1 DEF Accept, c, f
    <3> QED
      BY <2>1, <2>2, <3>1, Objects DEF Types
  <2>5. peer' \in [Clients -> Peer]
    <3>1. \/ peer' = [peer EXCEPT ![c].state = "in"]
          \/ peer' = [peer EXCEPT ![c] = Away]
      BY <1>1 DEF Accept, c
    <3> QED
      BY <2>1, <3>1, PeerTypes, ZenonT(60) DEF Types
  <2>6. connections' \in [Fds -> Slot]
    <3>1. connections' = [connections EXCEPT ![f] = InitConnection(i = SslSock)]
      BY <1>1 DEF Accept, f
    <3> QED
      BY <2>2, <3>1, SlotTypes DEF Types
  <2>7. child' \in [Fds -> Program]
    <3>1. child' = [child EXCEPT ![f] = NoChild]
      BY <1>1 DEF Accept, f
    <3> QED
      BY <2>2, <3>1, ProgramTypes DEF Types
  <2>8. backlog' \in [Listeners -> Seq(Clients)]
    <3>1. i \in Listeners /\ backlog' = [backlog EXCEPT ![i] = Tail(backlog[i])]
      BY <1>1 DEF Accept
    <3> QED
      BY <2>1, <3>1 DEF Types
  <2> QED
    BY <1>1, <2>3, <2>4, <2>5, <2>6, <2>7, <2>8 DEF Accept, Types
<1>2. CASE AcceptFails(i)
  <2>1. kernel' \in [Fds -> Object]
    BY <1>2, ReleasedFacts DEF AcceptFails, Types
  <2>2. engine' \in EngineState
    BY <1>0, <1>2, DoneFields DEF AcceptFails, Passed
  <2> QED
    BY <1>2, <2>1, <2>2 DEF AcceptFails, Types
<1>3. CASE AcceptAtLimit(i)
  <2>1. kernel' \in [Fds -> Object]
    BY <1>3, ReleasedFacts DEF AcceptAtLimit, Types
  <2>2. engine' \in EngineState
    BY <1>0, <1>3, DoneFields DEF AcceptAtLimit, Passed
  <2> QED
    BY <1>3, <2>1, <2>2 DEF AcceptAtLimit, Types
<1> QED
  BY <1>1, <1>2, <1>3

LEMMA InputTypes ==
  ASSUME Types, NEW i \in Fds, kernel[i].kind = "conn",
         peer[Client(i)].input.uri \in {"static", "cgi"}
  PROVE  peer[Client(i)].input \in Requests
<1>1. peer[Client(i)].input \in Requests \cup {NoRequest}
  BY ClientTypes DEF Types, Peer
<1>2. NoRequest.uri = ""
  BY DEF NoRequest
<1> QED
  BY <1>1, <1>2

\* A step that takes a client's input.
LEMMA TakenTypes ==
  ASSUME Types, NEW i \in Fds, kernel[i].kind = "conn",
         peer' = [peer EXCEPT ![Client(i)].input = NoRequest]
  PROVE  peer' \in [Clients -> Peer]
  BY ClientTypes, PeerTypes DEF Types

LEMMA RecvTypes ==
  ASSUME Types, NEW i \in Fds,
         RecvStatic(i) \/ RecvCgi(i) \/ RecvEnd(i) \/ RecvIgnored(i) \/ RecvStale(i)
  PROVE  Types'
<1>0. engine \in EngineState /\ connections[i] \in Slot
  BY DEF Types
<1>1. CASE RecvStatic(i)
  <2> DEFINE r == peer[Client(i)].input
  <2>0. kernel[i].kind = "conn" /\ r \in Requests
    BY <1>1, InputTypes DEF RecvStatic, IsConn
  <2>1. connections' \in [Fds -> Slot]
    <3>1. PICK n \in 1..MaxSends : connections' = [connections EXCEPT ![i] =
                                     [Parsed(connections[i], r) EXCEPT !.left = n]]
      BY <1>1 DEF RecvStatic
    <3>2. n \in 0..MaxSends
      BY EngineAssumption
    <3> HIDE DEF r
    <3>3. Parsed(connections[i], r) \in Slot
      BY <1>0, <2>0, SlotTypes
    <3>4. [Parsed(connections[i], r) EXCEPT !.left = n] \in Slot
      BY <3>2, <3>3, SlotTypes
    <3> QED
      BY <3>1, <3>4 DEF Types
  <2>2. engine' \in EngineState
    <3>1. ReadDone(engine, i) \in EngineState /\ {i} \in SUBSET Fds
      BY <1>0, DoneFields DEF Passed
    <3>2. engine' = [ReadDone(engine, i) EXCEPT !.wfds = @ \cup {i}]
      BY <1>1 DEF RecvStatic
    <3> QED
      BY <3>1, <3>2, WatchFields DEF Fields
  <2>3. peer' \in [Clients -> Peer]
    BY <1>1, <2>0, TakenTypes DEF RecvStatic
  <2> QED
    BY <1>1, <2>1, <2>2, <2>3 DEF RecvStatic, Types
<1>2. CASE RecvCgi(i)
  <2> DEFINE r == peer[Client(i)].input
             p == Lowest(4)[2]
             q == Lowest(4)[3]
  <2>0. kernel[i].kind = "conn" /\ r \in Requests
    BY <1>2, InputTypes DEF RecvCgi, IsConn
  <2>1. peer' \in [Clients -> Peer]
    BY <1>2, <2>0, TakenTypes DEF RecvCgi
  <2>2. CASE Cardinality(FreeFds) < 4
    BY <1>2, <2>1, <2>2 DEF RecvCgi, Types
  <2>3. CASE ~(Cardinality(FreeFds) < 4)
    <3>1. p \in Fds /\ q \in Fds
      <4>1. IsFiniteSet(FreeFds)
        BY FreeFacts, FdFacts, FS_Subset
      <4>2. Cardinality(FreeFds) \in Nat
        BY <4>1, FS_CardinalityType
      <4>3. Cardinality(FreeFds) >= 4
        BY <2>3, <4>2
      <4> QED
        BY <4>3, LowestFour, FreeFacts
    <3>2. engine' = OpenPipes(engine, i, p, q)
      BY <1>2, <2>3 DEF RecvCgi, OpenPipes
    <3>3. /\ kernel' = [kernel EXCEPT ![p] = [kind |-> "stdin", of |-> i],
                                      ![q] = [kind |-> "stdout", of |-> i]]
          /\ connections' = [connections EXCEPT ![i] = [Parsed(connections[i], r) EXCEPT
                               !.stdin_pipe = p, !.stdout_pipe = q]]
          /\ child' = [child EXCEPT ![i].state = "running"]
          /\ server' = server
      BY <1>2, <2>3 DEF RecvCgi
    <3> HIDE DEF p, q, r
    <3>4. engine' \in EngineState
      BY <1>0, <3>1, <3>2, OpenFields DEF Fields
    <3>5. kernel' \in [Fds -> Object]
      BY <3>1, <3>3, Objects DEF Types
    <3>6. connections' \in [Fds -> Slot]
      <4>1. Parsed(connections[i], r) \in Slot
        BY <1>0, <2>0, SlotTypes
      <4>2. [Parsed(connections[i], r) EXCEPT !.stdin_pipe = p, !.stdout_pipe = q] \in Slot
        BY <3>1, <4>1, SlotTypes
      <4> QED
        BY <3>3, <4>2 DEF Types
    <3>7. child' \in [Fds -> Program]
      BY <3>3, ProgramTypes DEF Types
    <3>8. backlog' = backlog
      BY <1>2 DEF RecvCgi
    <3> QED
      BY <2>1, <3>3, <3>4, <3>5, <3>6, <3>7, <3>8 DEF Types
  <2> QED
    BY <2>2, <2>3
<1>3. CASE RecvEnd(i)
  <2>1. CloseAndCleanup(engine, connections[i], i) \in EngineState
    BY <1>0, CloseFields DEF Fields
  <2> QED
    BY <1>3, <2>1, EndsTypes DEF RecvEnd, IsConn
<1>4. CASE RecvIgnored(i)
  <2>1. peer' \in [Clients -> Peer]
    BY <1>4, TakenTypes DEF RecvIgnored, IsConn
  <2>2. engine' \in EngineState
    BY <1>0, <1>4, DoneFields DEF RecvIgnored, Passed
  <2> QED
    BY <1>4, <2>1, <2>2 DEF RecvIgnored, Types
<1>5. CASE RecvStale(i)
  <2>1. engine' \in EngineState
    <3>1. \/ engine' = engine
          \/ \E watch \in {{}, {i}} :
               engine' = [ReadDone(engine, i) EXCEPT !.wfds = @ \cup watch]
      BY <1>5 DEF RecvStale
    <3>2. ASSUME NEW watch \in {{}, {i}},
                 engine' = [ReadDone(engine, i) EXCEPT !.wfds = @ \cup watch]
          PROVE  engine' \in EngineState
      <4>1. ReadDone(engine, i) \in EngineState
        BY <1>0, DoneFields DEF Passed
      <4>2. watch \in SUBSET Fds
        OBVIOUS
      <4> QED
        BY <3>2, <4>1, <4>2, WatchFields DEF Fields
    <3> QED
      BY <1>0, <3>1, <3>2
  <2>2. server' \in {"up", "exited", "crashed", "undefined"}
    BY <1>5 DEF RecvStale, Types
  <2> QED
    BY <1>5, <2>1, <2>2 DEF RecvStale, Types
<1> QED
  BY <1>1, <1>2, <1>3, <1>4, <1>5

\* A step that ends a response.
LEMMA AnsweredTypes ==
  ASSUME Types, NEW i \in Fds, kernel[i].kind = "conn", peer' = Answered(Client(i))
  PROVE  peer' \in [Clients -> Peer]
  BY ClientTypes, PeerTypes DEF Types, Answered

LEMMA SendTypes ==
  ASSUME Types, NEW i \in Fds, HandleSend(i)
  PROVE  Types'
<1>0. engine \in EngineState /\ connections[i] \in Slot
  BY DEF Types
<1>1. CASE SendStatic(i)
  <2>0. kernel[i].kind = "conn"
    BY <1>1 DEF SendStatic, IsConn
  <2>1. CASE connections[i].left > 1
    <3>1. connections' \in [Fds -> Slot]
      <4>1. connections[i].left - 1 \in 0..MaxSends
        BY <1>0, <2>1, EngineAssumption DEF Slot
      <4>2. connections' = [connections EXCEPT ![i] =
                              [connections[i] EXCEPT !.left = connections[i].left - 1]]
        BY <1>1, <2>1 DEF SendStatic
      <4> QED
        BY <1>0, <4>1, <4>2, SlotTypes DEF Types
    <3>2. engine' \in EngineState
      BY <1>0, <1>1, <2>1, DoneFields DEF SendStatic, Passed
    <3> QED
      BY <1>1, <2>1, <3>1, <3>2 DEF SendStatic, Types
  <2>2. CASE ~(connections[i].left > 1) /\ connections[i].close
    <3>1. CloseAndCleanup(engine, connections[i], i) \in EngineState
      BY <1>0, CloseFields DEF Fields
    <3> QED
      BY <1>1, <2>0, <2>2, <3>1, EndsTypes DEF SendStatic
  <2>3. CASE ~(connections[i].left > 1) /\ ~connections[i].close
    <3>1. connections' \in [Fds -> Slot]
      BY <1>0, <1>1, <2>3, SlotTypes DEF SendStatic, Types
    <3>2. engine' \in EngineState
      <4>1. AllDone(engine, i) \in EngineState
        BY <1>0, DoneFields DEF Passed
      <4> QED
        BY <1>1, <2>3, <4>1, UnwatchFields DEF SendStatic, Fields
    <3>3. peer' \in [Clients -> Peer]
      BY <1>1, <2>0, <2>3, AnsweredTypes DEF SendStatic
    <3> QED
      BY <1>1, <2>3, <3>1, <3>2, <3>3 DEF SendStatic, Types
  <2> QED
    BY <2>1, <2>2, <2>3
<1>2. CASE SendStaticFails(i)
  <2> DEFINE e == [engine EXCEPT !.rfds = @ \ {i}, !.wfds = @ \ {i}, !.nfds = @ - 1]
  <2>1. e = Without(engine, {i}, {i}, 1)
    BY DEF Without
  <2>2. e \in EngineState
    BY <1>0, <2>1, WithoutFields DEF Fields
  <2> QED
    BY <1>2, <2>2, EndsTypes DEF SendStaticFails, IsConn
<1>3. CASE CgiSend(i)
  <2>1. engine' \in EngineState
    BY <1>0, <1>3, DoneFields DEF CgiSend, Passed
  <2>2. child' \in [Fds -> Program]
    BY <1>3, ProgramTypes DEF CgiSend, Types
  <2> QED
    BY <1>3, <2>1, <2>2 DEF CgiSend, Types
<1>4. CASE CgiFinish(i)
  <2>1. AllDone(engine, i) \in EngineState
    BY <1>0, DoneFields DEF Passed
  <2>2. engine' \in EngineState
    BY <1>4, <2>1, FinishFields DEF CgiFinish, Fields
  <2>3. kernel' \in [Fds -> Object]
    BY <1>4, ReleasedFacts DEF CgiFinish, Types
  <2>4. connections' \in [Fds -> Slot]
    BY <1>0, <1>4, SlotTypes DEF CgiFinish, Types
  <2>5. child' \in [Fds -> Program]
    BY <1>4, ProgramTypes DEF CgiFinish, Types
  <2>6. peer' \in [Clients -> Peer]
    BY <1>4, AnsweredTypes DEF CgiFinish, CgiReady, IsConn
  <2> QED
    BY <1>4, <2>2, <2>3, <2>4, <2>5, <2>6 DEF CgiFinish, Types
<1>5. CASE CgiSendFails(i)
  <2> DEFINE e == [engine EXCEPT !.rfds = @ \ {i}, !.wfds = @ \ {i}, !.nfds = @ - 3]
  <2>1. e = Without(engine, {i}, {i}, 3)
    BY DEF Without
  <2>2. e \in EngineState
    BY <1>0, <2>1, WithoutFields DEF Fields
  <2> QED
    BY <1>5, <2>2, EndsTypes DEF CgiSendFails, CgiReady, IsConn
<1>6. CASE SendStale(i)
  BY <1>6 DEF SendStale, Types
<1> QED
  BY <1>1, <1>2, <1>3, <1>4, <1>5, <1>6 DEF HandleSend

LEMMA StepTypes == Types /\ [Next]_vars => Types'
<1> SUFFICES ASSUME Types, [Next]_vars PROVE Types'
  OBVIOUS
<1>1. ASSUME NEW i \in Fds, HandleRecv(i) PROVE Types'
  BY <1>1, AcceptTypes, RecvTypes DEF HandleRecv
<1>2. ASSUME NEW i \in Fds, HandleSend(i) PROVE Types'
  BY <1>2, SendTypes
<1>3. CASE UNCHANGED vars
  BY <1>3 DEF vars, Types
<1> QED
  BY <1>1, <1>2, <1>3, EnvironmentTypes, SelectTypes DEF Next, Server

LEMMA TypesHold == Spec => []Types
<1> QED
  BY InitTypes, StepTypes, PTL DEF Spec

\* Every descriptor, slot, program and client of the loop is of its type.
THEOREM TypeCorrect == Spec => []TypeOK
<1>1. Types => TypeOK
  <2> SUFFICES ASSUME Types PROVE TypeOK
    OBVIOUS
  <2>1. \A f \in Fds : kernel[f] \in Object
    BY DEF Types
  <2> QED
    BY <2>1 DEF Types, TypeOK, Peer, Program, EngineState, Slot, Object
<1> QED
  BY <1>1, TypesHold, PTL

-----------------------------------------------------------------------------
(* The inductive invariant. *)

Temps == engine.temp_rfds \cup engine.temp_wfds

\* The standard streams and the log stay open.
Standard == \A f \in Fds : f < Sock => kernel[f].kind = "std"

NoPipes(s) == s.stdin_pipe = -1 /\ s.stdout_pipe = -1

HasPipes(s, f) ==
  /\ s.stdin_pipe \in Fds /\ s.stdout_pipe \in Fds
  /\ kernel[s.stdin_pipe] = [kind |-> "stdin", of |-> f]
  /\ kernel[s.stdout_pipe] = [kind |-> "stdout", of |-> f]

\* The slot of a connection is in use, and has pipes of its own exactly while the
\* CGI program serves it.
SlotOf(f) ==
  /\ kernel[f].kind = "conn" => connections[f].request = "live"
  /\ IF kernel[f].kind = "conn" /\ connections[f].uri = "cgi"
       THEN connections[f].status # 0 /\ HasPipes(connections[f], f)
       ELSE NoPipes(connections[f])

Slots == \A f \in Fds : SlotOf(f)

\* What nfds counts.
Counted == OpenFds \ Orphans

Counts == Listening => /\ engine.nfds = Cardinality(Counted)
                       /\ engine.nfds <= MaxConnections - 1

\* After a failed accept sock is closed and the pass is beyond it.
Deaf ==
  ~Listening =>
    /\ kernel[Sock].kind = "free" /\ Sock \notin Temps
    /\ SslSock \in engine.temp_rfds =>
         /\ engine.nfds <= MaxConnections - 1
         /\ \/ kernel[SslSock].kind = "free"
            \/ kernel[SslSock].kind = "listener" /\ engine.nfds = MaxConnections - 1

\* Sock is always watched, so that select fails once it is closed.
SockWatched == /\ Sock \in engine.rfds /\ Sock <= engine.fdmax
               /\ kernel[Sock].kind \in {"listener", "free"}

IInv == Types /\ Standard /\ Slots /\ Counts /\ Deaf /\ SockWatched

-----------------------------------------------------------------------------
(* The kinds of step. *)

Shrinks == /\ engine'.temp_rfds \subseteq engine.temp_rfds
           /\ engine'.temp_wfds \subseteq engine.temp_wfds

Turn(i) == i \in Temps /\ \A g \in Temps : i <= g

\* Nothing opened, closed or counted; select only while sock is open.
Quiet ==
  /\ kernel' = kernel /\ connections' = connections
  /\ engine'.rfds = engine.rfds /\ engine'.nfds = engine.nfds /\ engine'.fdmax = engine.fdmax
  /\ Shrinks \/ kernel[Sock].kind # "free"

\* A request read, part of a response written, or a refused TLS client.
Edits(i, s) ==
  /\ NoPipes(connections[i])
  /\ s.request = "live" /\ s.uri = "static" /\ NoPipes(s)
  /\ kernel' = kernel /\ connections' = [connections EXCEPT ![i] = s]
  /\ engine'.rfds = engine.rfds /\ engine'.nfds = engine.nfds /\ engine'.fdmax = engine.fdmax
  /\ Shrinks

\* A client is accepted.
Takes(f, c, s) ==
  /\ Listening /\ engine.nfds < MaxConnections - 1
  /\ kernel[f].kind = "free"
  /\ s.request = "live" /\ s.uri = "static" /\ NoPipes(s)
  /\ kernel' = [kernel EXCEPT ![f] = Conn(c)]
  /\ connections' = [connections EXCEPT ![f] = s]
  /\ engine'.rfds = engine.rfds \cup {f} /\ engine'.nfds = engine.nfds + 1
  /\ engine'.fdmax >= engine.fdmax
  /\ Shrinks

\* An accept fails.
Deafens(L) ==
  /\ kernel' = Released(L) /\ connections' = connections
  /\ \A l \in L : kernel[l].kind \in {"listener", "free"}
  /\ engine'.rfds = engine.rfds /\ engine'.nfds = engine.nfds /\ engine'.fdmax = engine.fdmax
  /\ engine.nfds <= MaxConnections - 1 /\ (SslSock \notin L => engine.nfds = MaxConnections - 1)
  /\ Sock \notin Temps'
  /\ Shrinks

\* The CGI program is started.
Opens(i, p, q, s) ==
  /\ Turn(i) /\ kernel[i].kind = "conn" /\ connections[i].status = 0
  /\ kernel[p].kind = "free" /\ kernel[q].kind = "free"
  /\ p # q /\ p # Sock /\ q # Sock /\ Cardinality(FreeFds) >= 4
  /\ s.request = "live" /\ s.uri = "cgi" /\ s.status # 0 /\ s.stdin_pipe = p /\ s.stdout_pipe = q
  /\ kernel' = [kernel EXCEPT ![p] = [kind |-> "stdin", of |-> i],
                              ![q] = [kind |-> "stdout", of |-> i]]
  /\ connections' = [connections EXCEPT ![i] = s]
  /\ engine'.rfds = engine.rfds \cup {p} /\ engine'.nfds = engine.nfds + 2
  /\ engine'.fdmax >= engine.fdmax
  /\ Shrinks

PipesOf(i) == IF connections[i].uri = "cgi" THEN Pipes(connections[i]) ELSE {}

\* A connection or a CGI request ends: the descriptors of D are counted off, and
\* those of R closed.
Drops(i, D, R, s) ==
  /\ Turn(i) /\ kernel[i].kind = "conn"
  /\ PipesOf(i) \subseteq D /\ D \subseteq {i} \cup PipesOf(i) /\ R \subseteq D
  /\ i \in D => i \in R
  /\ s.uri = "static" /\ NoPipes(s) /\ (i \notin R => s.request = "live")
  /\ kernel' = Released(R)
  /\ connections' = [connections EXCEPT ![i] = s]
  /\ engine'.nfds = engine.nfds - Cardinality(D) /\ engine'.fdmax = engine.fdmax
  /\ engine'.rfds \subseteq engine.rfds /\ engine.rfds \ engine'.rfds \subseteq D
  /\ Shrinks
  /\ \A f \in R : \/ f \notin Watched' \/ Misplaced(f)
                  \/ \E c \in Clients : peer[c].end = "reset" /\ peer'[c] = Away

StepKind ==
  \/ Quiet
  \/ \E i \in Fds, s \in Slot : Edits(i, s)
  \/ \E f \in Fds, c \in Clients, s \in Slot : Takes(f, c, s)
  \/ \E L \in {Listeners, {Sock}} : Deafens(L)
  \/ \E i, p, q \in Fds, s \in Slot : Opens(i, p, q, s)
  \/ \E i \in Fds, D, R \in SUBSET Fds, s \in Slot : Drops(i, D, R, s)

LEMMA TurnIs ==
  ASSUME Types, NEW i \in Fds, Reading(i) \/ Writing(i)
  PROVE  Turn(i) /\ (Reading(i) => i \in engine.temp_rfds)
<1>1. Temps \subseteq Nat /\ Temps # {}
  BY FdFacts DEF Types, EngineState, Temps, Reading, Writing, InPass
<1>2. i = Min(Temps)
  BY DEF Reading, Writing, Current, Temps
<1> QED
  BY <1>1, <1>2, MinIs DEF Turn, Reading

\* The slots before a request.
LEMMA BlankSlots ==
  /\ \A b \in BOOLEAN : /\ InitConnection(b).request = "live"
                         /\ InitConnection(b).uri = "static" /\ NoPipes(InitConnection(b))
  /\ Cleaned.uri = "static" /\ NoPipes(Cleaned)
  BY DEF InitConnection, Cleaned, NoPipes

\* A slot of a connection that has no program has no pipes, and otherwise its own.
LEMMA SlotCases ==
  ASSUME Types, Slots, NEW i \in Fds, kernel[i].kind = "conn"
  PROVE  /\ connections[i] \in Slot /\ connections[i].request = "live"
         /\ connections[i].uri = "static" => NoPipes(connections[i]) /\ PipesOf(i) = {}
         /\ connections[i].uri = "cgi" =>
              /\ connections[i].status # 0 /\ HasPipes(connections[i], i)
              /\ PipesOf(i) = {connections[i].stdin_pipe, connections[i].stdout_pipe}
         /\ connections[i].uri \in {"static", "cgi"}
         /\ PipesOf(i) \subseteq Fds
  BY DEF Types, Slots, SlotOf, PipesOf, Pipes, HasPipes, Slot

LEMMA PipeCounts ==
  ASSUME Types, Slots, NEW i \in Fds, kernel[i].kind = "conn"
  PROVE  IF connections[i].uri = "cgi"
           THEN Cardinality(PipesOf(i)) = 2 /\ Cardinality({i} \cup PipesOf(i)) = 3
           ELSE Cardinality({i} \cup PipesOf(i)) = 1
<1>1. CASE connections[i].uri = "cgi"
  <2> DEFINE p == connections[i].stdin_pipe
             q == connections[i].stdout_pipe
  <2>1. PipesOf(i) = {p, q} /\ i # p /\ i # q /\ p # q
    <3>1. PipesOf(i) = {p, q} /\ HasPipes(connections[i], i)
      BY <1>1, SlotCases
    <3>2. kernel[p].kind = "stdin" /\ kernel[q].kind = "stdout"
      BY <3>1 DEF HasPipes
    <3> QED
      BY <3>1, <3>2
  <2> HIDE DEF p, q
  <2>2. Cardinality({p}) = 1 /\ IsFiniteSet({p})
    BY FS_Singleton
  <2> DEFINE both == {p} \cup {q}
  <2>3. Cardinality(both) = 2 /\ IsFiniteSet(both)
    <3>1. q \notin {p}
      BY <2>1
    <3> QED
      BY <3>1, <2>2, FS_AddElement
  <2>4. Cardinality(both \cup {i}) = 3
    <3>1. i \notin both
      BY <2>1
    <3> HIDE DEF both
    <3>2. Cardinality(both \cup {i}) = Cardinality(both) + 1
      BY <3>1, <2>3, FS_AddElement
    <3> QED
      BY <3>2, <2>3
  <2>5. {p} \cup {q} = PipesOf(i) /\ ({p} \cup {q}) \cup {i} = {i} \cup PipesOf(i)
    BY <2>1
  <2> QED
    BY <1>1, <2>3, <2>4, <2>5
<1>2. CASE connections[i].uri # "cgi"
  <2>1. {i} \cup PipesOf(i) = {i}
    BY <1>2 DEF PipesOf
  <2> QED
    BY <1>2, <2>1, FS_Singleton
<1> QED
  BY <1>1, <1>2

LEMMA EnvironmentKind == Environment => Quiet
<1> SUFFICES ASSUME Environment PROVE Quiet
  OBVIOUS
<1>1. UNCHANGED <<kernel, engine, connections>>
  BY DEF Environment, Connect, Ask, Leave, ChildWrites, ChildExits
<1> QED
  BY <1>1 DEF Quiet, Shrinks

LEMMA SelectKind ==
  ASSUME IInv, Select \/ SelectFails
  PROVE  Quiet
<1>1. CASE Select
  <2>1. Sock \in OpenFds
    <3>1. Sock \in Watched \cap 0..engine.fdmax
      BY FdFacts DEF IInv, SockWatched, Watched, Types, EngineState, Sock
    <3> QED
      BY <1>1, <3>1 DEF Select
  <2>2. kernel[Sock].kind # "free"
    BY <2>1 DEF OpenFds
  <2>3. /\ engine'.rfds = engine.rfds /\ engine'.nfds = engine.nfds
        /\ engine'.fdmax = engine.fdmax
    BY <1>1 DEF Select, IInv, Types, EngineState
  <2> QED
    BY <1>1, <2>2, <2>3 DEF Select, Quiet
<1>2. CASE SelectFails
  BY <1>2 DEF SelectFails, Quiet, Shrinks
<1> QED
  BY <1>1, <1>2

LEMMA AcceptKind ==
  ASSUME IInv, NEW i \in Fds, Accept(i)
  PROVE  StepKind
<1>0. Types /\ engine \in EngineState /\ engine.nfds \in Int /\ engine.fdmax \in Nat
  BY FdFacts DEF IInv, Types, EngineState
<1>1. Turn(i) /\ i \in engine.temp_rfds /\ i \in {Sock, SslSock}
  BY <1>0, TurnIs DEF Accept, Listeners
<1>2. engine.nfds < MaxConnections - 1 /\ kernel[i].kind = "listener"
  BY DEF Accept, Room
<1>3. Listening
  <2> SUFFICES ASSUME ~Listening PROVE FALSE
    OBVIOUS
  <2>1. i # Sock
    BY <1>2 DEF IInv, Deaf
  <2>2. i = SslSock
    BY <1>1, <2>1
  <2> QED
    BY <1>0, <1>1, <1>2, <2>2, FdFacts DEF IInv, Deaf
<1> DEFINE c == Head(backlog[i])
           f == Lowest(1)[1]
           s == InitConnection(i = SslSock)
<1>4. c \in Clients /\ f \in Fds /\ kernel[f].kind = "free"
  <2>1. f \in FreeFds
    BY LowestOne DEF Accept
  <2> QED
    BY <2>1, FreeFacts DEF Accept, IInv, Types
<1>5. s \in Slot /\ s.request = "live" /\ s.uri = "static" /\ NoPipes(s)
  BY SlotTypes, BlankSlots
<1>6. connections' = [connections EXCEPT ![f] = s]
  BY DEF Accept
<1>7. CASE /\ engine' = ReadDone(AcceptFds(engine, f), i)
           /\ kernel' = [kernel EXCEPT ![f] = Conn(c)]
  <2> HIDE DEF c, f, s
  <2>1. Fields(engine, AcceptFds(engine, f), engine.rfds \cup {f}, engine.wfds,
               engine.nfds + 1, Max2(engine.fdmax, f))
    BY <1>0, <1>4, AcceptFields
  <2>2. Passed(AcceptFds(engine, f), engine', engine.temp_rfds \ {i}, engine.temp_wfds)
    BY <1>7, <2>1, DoneFields DEF Fields
  <2>3. Max2(engine.fdmax, f) >= engine.fdmax
    BY <1>0, <1>4, FdFacts DEF Max2
  <2>4. Takes(f, c, s)
    BY <1>2, <1>3, <1>4, <1>5, <1>6, <1>7, <2>1, <2>2, <2>3 DEF Takes, Fields, Passed, Shrinks
  <2> QED
    BY <1>4, <1>5, <2>4 DEF StepKind
<1>8. CASE engine' = AllDone(engine, i) /\ kernel' = kernel
  <2> HIDE DEF c, f, s
  <2>1. Passed(engine, engine', engine.temp_rfds \ {i}, engine.temp_wfds \ {i})
    BY <1>0, <1>8, DoneFields
  <2>2. NoPipes(connections[f])
    BY <1>4 DEF IInv, Slots, SlotOf
  <2>3. Edits(f, s)
    BY <1>5, <1>6, <1>8, <2>1, <2>2 DEF Edits, Passed, Shrinks
  <2> QED
    BY <1>4, <1>5, <2>3 DEF StepKind
<1> QED
  BY <1>7, <1>8 DEF Accept

LEMMA AcceptFailsKind ==
  ASSUME IInv, NEW i \in Fds, AcceptFails(i) \/ AcceptAtLimit(i)
  PROVE  StepKind
<1>0. Types /\ engine \in EngineState /\ engine.nfds \in Int /\ Temps \subseteq Nat
  BY FdFacts DEF IInv, Types, EngineState, Temps
<1>1. Turn(i) /\ i \in {Sock, SslSock} /\ i \in engine.temp_rfds
  BY <1>0, TurnIs DEF AcceptFails, AcceptAtLimit, Listeners
<1>2. ASSUME NEW L \in {Listeners, {Sock}}, kernel' = Released(L), engine' = AllDone(engine, i),
             connections' = connections, engine.nfds <= MaxConnections - 1,
             SslSock \notin L => engine.nfds = MaxConnections - 1
      PROVE  StepKind
  <2>1. Passed(engine, engine', engine.temp_rfds \ {i}, engine.temp_wfds \ {i})
    BY <1>0, <1>2, DoneFields
  <2>2. Sock \notin Temps'
    BY <1>0, <1>1, <2>1 DEF Turn, Temps, Passed, Sock, SslSock
  <2>3. \A l \in L : kernel[l].kind \in {"listener", "free"}
    <3>1. CASE Listening
      BY <3>1 DEF Listening, Listeners
    <3>2. CASE ~Listening
      <4>1. i = SslSock
        BY <1>1, <3>2 DEF IInv, Deaf, Temps
      <4> QED
        BY <1>1, <3>2, <4>1 DEF IInv, Deaf, SockWatched, Listeners
    <3> QED
      BY <3>1, <3>2
  <2>4. Deafens(L)
    BY <1>2, <2>1, <2>2, <2>3 DEF Deafens, Passed, Shrinks
  <2> QED
    BY <2>4 DEF StepKind
<1>3. CASE AcceptFails(i)
  <2>1. engine.nfds <= MaxConnections - 1 /\ SslSock \in Listeners
    BY <1>0, <1>3, FdFacts DEF AcceptFails, Room, Listeners
  <2> QED
    BY <1>2, <1>3, <2>1 DEF AcceptFails
<1>4. CASE AcceptAtLimit(i)
  <2>0. engine.nfds = MaxConnections - 1 /\ engine.nfds <= MaxConnections - 1
    BY <1>0, <1>4 DEF AcceptAtLimit
  <2>1. CASE UNCHANGED <<kernel, engine, connections>>
    BY <2>1 DEF StepKind, Quiet, Shrinks
  <2>2. CASE kernel' = Released({Sock}) /\ engine' = AllDone(engine, i) /\ UNCHANGED connections
    BY <1>2, <2>0, <2>2
  <2> QED
    BY <1>4, <2>1, <2>2 DEF AcceptAtLimit
<1> QED
  BY <1>3, <1>4

\* What closing a connection does to the engine and the descriptors.
LEMMA EndsKind ==
  ASSUME IInv, NEW i \in Fds, kernel[i].kind = "conn", Turn(i),
         NEW R \in SUBSET Fds, NEW e \in EngineState, Ends(i, e, R),
         i \in R, R \subseteq {i} \cup PipesOf(i),
         e.temp_rfds = engine.temp_rfds, e.temp_wfds = engine.temp_wfds,
         e.fdmax = engine.fdmax, e.nfds = engine.nfds - Cardinality({i} \cup PipesOf(i)),
         e.rfds \subseteq engine.rfds, engine.rfds \ e.rfds \subseteq {i} \cup PipesOf(i),
         i \notin e.rfds, i \notin e.wfds,
         R # {i} => peer[Client(i)].end = "reset"
  PROVE  StepKind
<1> DEFINE D == {i} \cup PipesOf(i)
<1>1. Types /\ Slots /\ D \in SUBSET Fds
  BY SlotCases DEF IInv
<1>2. Passed(e, engine', e.temp_rfds \ {i}, e.temp_wfds \ {i})
  BY DoneFields DEF Ends
<1>3. Cleaned \in Slot /\ Cleaned.uri = "static" /\ NoPipes(Cleaned)
  BY SlotTypes, BlankSlots
<1>4. Client(i) \in Clients /\ peer'[Client(i)] = Away
  BY <1>1, ClientTypes DEF Ends, Types
<1>5. \A f \in R : \/ f \notin Watched' \/ Misplaced(f)
                   \/ \E c \in Clients : peer[c].end = "reset" /\ peer'[c] = Away
  <2>1. CASE R = {i}
    <3>1. i \notin Watched'
      BY <1>2 DEF Passed, Watched
    <3> QED
      BY <2>1, <3>1
  <2>2. CASE R # {i}
    BY <1>4, <2>2
  <2> QED
    BY <2>1, <2>2
<1>6. /\ kernel' = Released(R) /\ connections' = [connections EXCEPT ![i] = Cleaned]
  BY DEF Ends
<1>7. /\ engine'.rfds = e.rfds /\ engine'.nfds = engine.nfds - Cardinality(D)
      /\ engine'.fdmax = engine.fdmax /\ Shrinks
  BY <1>2 DEF Passed, Shrinks
<1>8. Drops(i, D, R, Cleaned)
  BY <1>3, <1>5, <1>6, <1>7 DEF Drops
<1> HIDE DEF D
<1> QED
  BY <1>1, <1>3, <1>8 DEF StepKind

LEMMA RecvKind ==
  ASSUME IInv, Types', NEW i \in Fds,
         RecvStatic(i) \/ RecvCgi(i) \/ RecvEnd(i) \/ RecvIgnored(i) \/ RecvStale(i)
  PROVE  StepKind
<1>0. /\ Types /\ Slots /\ Standard /\ engine \in EngineState /\ engine.nfds \in Int
      /\ engine.fdmax \in Nat
  BY FdFacts DEF IInv, Types, EngineState
<1>t. Turn(i)
  BY <1>0, TurnIs DEF RecvStatic, RecvCgi, RecvEnd, RecvIgnored, RecvStale
<1>1. CASE RecvStatic(i)
  <2>0. kernel[i].kind = "conn" /\ connections[i].status = 0
    BY <1>1 DEF RecvStatic, IsConn
  <2> DEFINE s == connections'[i]
  <2>1. connections[i].uri = "static" /\ NoPipes(connections[i])
    BY <1>0, <2>0, SlotCases
  <2>2. connections' = [connections EXCEPT ![i] = s] /\ s \in Slot
    BY <1>1 DEF RecvStatic, Types
  <2>3. s.request = "live" /\ s.uri = "static" /\ NoPipes(s)
    <3> DEFINE r == peer[Client(i)].input
               s1 == [connections[i] EXCEPT !.uri = r.uri]
               s2 == [s1 EXCEPT !.status = IF r.ok THEN 200 ELSE 404]
               s3 == [s2 EXCEPT !.close = r.close]
    <3>1. PICK n \in 1..MaxSends : connections' = [connections EXCEPT ![i] =
                                     [Parsed(connections[i], r) EXCEPT !.left = n]]
      BY <1>1 DEF RecvStatic
    <3>2. Parsed(connections[i], r) = s3
      BY DEF Parsed
    <3>3. connections[i] \in Slot /\ connections[i].request = "live" /\ r.uri = "static"
      BY <1>0, <1>1, <2>0, SlotCases DEF RecvStatic
    <3>4. s = [s3 EXCEPT !.left = n]
      BY <1>0, <3>1, <3>2 DEF Types
    <3> HIDE DEF r
    <3>5. s1.request = "live" /\ s1.uri = "static" /\ NoPipes(s1)
      BY <2>1, <3>3 DEF Slot, NoPipes
    <3>6. DOMAIN s1 = DOMAIN connections[i] /\ DOMAIN s2 = DOMAIN s1 /\ DOMAIN s3 = DOMAIN s2
      OBVIOUS
    <3> HIDE DEF s1
    <3>7. s2.request = "live" /\ s2.uri = "static" /\ NoPipes(s2)
      BY <3>5, <3>6 DEF NoPipes
    <3> HIDE DEF s2
    <3>8. s3.request = "live" /\ s3.uri = "static" /\ NoPipes(s3)
      BY <3>6, <3>7 DEF NoPipes
    <3> HIDE DEF s3, s
    <3> QED
      BY <3>4, <3>8 DEF NoPipes
  <2>4. /\ kernel' = kernel /\ Shrinks
        /\ engine'.rfds = engine.rfds /\ engine'.nfds = engine.nfds /\ engine'.fdmax = engine.fdmax
    <3> DEFINE d == ReadDone(engine, i)
    <3>1. Passed(engine, d, engine.temp_rfds \ {i}, engine.temp_wfds)
      BY <1>0, DoneFields
    <3>2. engine' = [d EXCEPT !.wfds = @ \cup {i}] /\ kernel' = kernel
      BY <1>1 DEF RecvStatic
    <3> HIDE DEF d
    <3>3. Fields(d, engine', d.rfds, d.wfds \cup {i}, d.nfds, d.fdmax)
      <4>1. d \in EngineState /\ {i} \in SUBSET Fds
        BY <3>1 DEF Passed
      <4> QED
        BY <3>2, <4>1, WatchFields
    <3> QED
      BY <3>1, <3>2, <3>3 DEF Passed, Fields, Shrinks
  <2> HIDE DEF s
  <2>5. Edits(i, s)
    BY <2>1, <2>2, <2>3, <2>4 DEF Edits
  <2> QED
    BY <2>2, <2>5 DEF StepKind
<1>2. CASE RecvCgi(i)
  <2>0. kernel[i].kind = "conn" /\ connections[i].status = 0
    BY <1>2 DEF RecvCgi, IsConn
  <2>1. CASE Cardinality(FreeFds) < 4
    BY <1>2, <2>1 DEF RecvCgi, StepKind, Quiet, Shrinks
  <2>2. CASE ~(Cardinality(FreeFds) < 4)
    <3> DEFINE r == peer[Client(i)].input
               p == Lowest(4)[2]
               q == Lowest(4)[3]
               s == connections'[i]
    <3>1. /\ engine' = OpenPipes(engine, i, p, q)
          /\ kernel' = [kernel EXCEPT ![p] = [kind |-> "stdin", of |-> i],
                                      ![q] = [kind |-> "stdout", of |-> i]]
          /\ connections' = [connections EXCEPT ![i] = [Parsed(connections[i], r) EXCEPT
                               !.stdin_pipe = p, !.stdout_pipe = q]]
          /\ r.uri = "cgi"
      BY <1>2, <2>2 DEF RecvCgi, OpenPipes
    <3>2. /\ p \in Fds /\ q \in Fds /\ kernel[p].kind = "free" /\ kernel[q].kind = "free"
          /\ p # q /\ p # Sock /\ q # Sock /\ Cardinality(FreeFds) >= 4
      <4>1. IsFiniteSet(FreeFds)
        BY FreeFacts, FdFacts, FS_Subset
      <4>2. Cardinality(FreeFds) >= 4
        BY <2>2, <4>1, FS_CardinalityType
      <4> DEFINE o == Lowest(4)[1]
      <4>3. o \in FreeFds /\ p \in FreeFds /\ q \in FreeFds /\ o < p /\ p < q
        BY <4>2, LowestFour
      <4> HIDE DEF o, p, q
      <4>4. ~(o < Sock)
        BY <1>0, <4>3, FreeFacts DEF Standard
      <4> QED
        BY <4>2, <4>3, <4>4, FreeFacts DEF Sock
    <3> HIDE DEF p, q, r
    <3>3. connections' = [connections EXCEPT ![i] = s] /\ s \in Slot
      BY <3>1 DEF Types
    <3>4. /\ s.request = "live" /\ s.uri = "cgi" /\ s.status # 0
          /\ s.stdin_pipe = p /\ s.stdout_pipe = q
      <4> DEFINE st == IF r.ok THEN 200 ELSE 404
                 s1 == [connections[i] EXCEPT !.uri = r.uri]
                 s2 == [s1 EXCEPT !.status = st]
                 s3 == [s2 EXCEPT !.close = r.close]
                 s4 == [s3 EXCEPT !.stdin_pipe = p]
                 s5 == [s4 EXCEPT !.stdout_pipe = q]
      <4>1. s = s5
        BY <1>0, <3>1 DEF Types, Parsed
      <4>2. connections[i] \in Slot /\ connections[i].request = "live"
        BY <1>0, <2>0, SlotCases
      <4>3. s1.request = "live" /\ s1.uri = "cgi"
        BY <3>1, <4>2 DEF Slot
      <4>4. /\ DOMAIN connections[i] = {"request", "context", "status", "uri", "close", "left",
                                       "stdin_pipe", "stdout_pipe"}
            /\ DOMAIN s1 = DOMAIN connections[i] /\ DOMAIN s2 = DOMAIN s1
            /\ DOMAIN s3 = DOMAIN s2 /\ DOMAIN s4 = DOMAIN s3
        BY <4>2 DEF Slot
      <4>5. st # 0
        OBVIOUS
      <4> HIDE DEF s1, st
      <4>6. s2.request = "live" /\ s2.uri = "cgi" /\ s2.status # 0
        BY <4>3, <4>4, <4>5
      <4> HIDE DEF s2
      <4>7. s3.request = "live" /\ s3.uri = "cgi" /\ s3.status # 0
        BY <4>4, <4>6
      <4> HIDE DEF s3
      <4>8. s4.request = "live" /\ s4.uri = "cgi" /\ s4.status # 0 /\ s4.stdin_pipe = p
        BY <4>4, <4>7
      <4> HIDE DEF s4
      <4>9. /\ s5.request = "live" /\ s5.uri = "cgi" /\ s5.status # 0
            /\ s5.stdin_pipe = p /\ s5.stdout_pipe = q
        BY <4>4, <4>8
      <4> HIDE DEF s5, s
      <4> QED
        BY <4>1, <4>9
    <3> HIDE DEF s
    <3>5. Fields(ReadDone(engine, i), engine', engine.rfds \cup {p}, engine.wfds \cup {q, i},
                 engine.nfds + 2, Max2(engine.fdmax, q))
      BY <1>0, <3>1, <3>2, OpenFields
    <3>6. Passed(engine, ReadDone(engine, i), engine.temp_rfds \ {i}, engine.temp_wfds)
      BY <1>0, DoneFields
    <3>7. /\ engine'.rfds = engine.rfds \cup {p} /\ engine'.nfds = engine.nfds + 2
          /\ engine'.fdmax >= engine.fdmax /\ Shrinks
      <4>1. Max2(engine.fdmax, q) >= engine.fdmax
        BY <1>0, <3>2, FdFacts DEF Max2
      <4> QED
        BY <3>5, <3>6, <4>1 DEF Fields, Passed, Shrinks
    <3>8. Opens(i, p, q, s)
      BY <1>t, <2>0, <3>1, <3>2, <3>3, <3>4, <3>7 DEF Opens
    <3> QED
      BY <3>2, <3>3, <3>8 DEF StepKind
  <2> QED
    BY <2>1, <2>2
<1>3. CASE RecvEnd(i)
  <2> DEFINE e == CloseAndCleanup(engine, connections[i], i)
             R == {i}
  <2>0. kernel[i].kind = "conn" /\ Ends(i, e, R) /\ R \in SUBSET Fds
    BY <1>3 DEF RecvEnd, IsConn
  <2>1. CASE connections[i].uri = "cgi"
    <3>1. Fields(engine, e, engine.rfds \ {i, connections[i].stdin_pipe},
                 engine.wfds \ {i, connections[i].stdout_pipe}, engine.nfds - 3, engine.fdmax)
      BY <1>0, <2>1, CloseFields
    <3>2. PipesOf(i) = {connections[i].stdin_pipe, connections[i].stdout_pipe}
      BY <1>0, <2>0, <2>1, SlotCases
    <3>3. Cardinality({i} \cup PipesOf(i)) = 3
      BY <1>0, <2>0, <2>1, PipeCounts
    <3> HIDE DEF e
    <3>4. /\ e \in EngineState /\ e.temp_rfds = engine.temp_rfds /\ e.temp_wfds = engine.temp_wfds
          /\ e.fdmax = engine.fdmax /\ e.nfds = engine.nfds - Cardinality({i} \cup PipesOf(i))
          /\ e.rfds \subseteq engine.rfds /\ engine.rfds \ e.rfds \subseteq {i} \cup PipesOf(i)
          /\ i \notin e.rfds /\ i \notin e.wfds
      BY <3>1, <3>2, <3>3 DEF Fields
    <3> QED
      BY <1>t, <2>0, <3>4, EndsKind
  <2>2. CASE connections[i].uri # "cgi"
    <3>1. Fields(engine, e, engine.rfds \ {i}, engine.wfds \ {i}, engine.nfds - 1, engine.fdmax)
      BY <1>0, <2>2, CloseFields
    <3>3. Cardinality({i} \cup PipesOf(i)) = 1
      BY <1>0, <2>0, <2>2, PipeCounts
    <3> HIDE DEF e
    <3>4. /\ e \in EngineState /\ e.temp_rfds = engine.temp_rfds /\ e.temp_wfds = engine.temp_wfds
          /\ e.fdmax = engine.fdmax /\ e.nfds = engine.nfds - Cardinality({i} \cup PipesOf(i))
          /\ e.rfds \subseteq engine.rfds /\ engine.rfds \ e.rfds \subseteq {i} \cup PipesOf(i)
          /\ i \notin e.rfds /\ i \notin e.wfds
      BY <3>1, <3>3 DEF Fields
    <3> QED
      BY <1>t, <2>0, <3>4, EndsKind
  <2> QED
    BY <2>1, <2>2
<1>4. CASE RecvIgnored(i)
  <2>1. Passed(engine, engine', engine.temp_rfds \ {i}, engine.temp_wfds)
    BY <1>0, <1>4, DoneFields DEF RecvIgnored
  <2> QED
    BY <1>4, <2>1 DEF RecvIgnored, StepKind, Quiet, Passed, Shrinks
<1>5. CASE RecvStale(i)
  <2>1. UNCHANGED <<kernel, connections>>
    BY <1>5 DEF RecvStale
  <2>2. CASE engine' = engine
    BY <2>1, <2>2 DEF StepKind, Quiet, Shrinks
  <2>3. ASSUME NEW watch \in {{}, {i}},
               engine' = [ReadDone(engine, i) EXCEPT !.wfds = @ \cup watch]
        PROVE  StepKind
    <3> DEFINE d == ReadDone(engine, i)
    <3>1. Passed(engine, d, engine.temp_rfds \ {i}, engine.temp_wfds)
      BY <1>0, DoneFields
    <3>2. engine' = [d EXCEPT !.wfds = @ \cup watch]
      BY <2>3
    <3> HIDE DEF d
    <3>3. Fields(d, engine', d.rfds, d.wfds \cup watch, d.nfds, d.fdmax)
      <4>1. d \in EngineState /\ watch \in SUBSET Fds
        BY <3>1 DEF Passed
      <4> QED
        BY <3>2, <4>1, WatchFields
    <3> QED
      BY <2>1, <3>1, <3>3 DEF StepKind, Quiet, Passed, Fields, Shrinks
  <2> QED
    BY <1>5, <2>2, <2>3 DEF RecvStale
<1> QED
  BY <1>1, <1>2, <1>3, <1>4, <1>5

LEMMA SendKind ==
  ASSUME IInv, Types', NEW i \in Fds, HandleSend(i)
  PROVE  StepKind
<1>0. /\ Types /\ Slots /\ engine \in EngineState /\ engine.nfds \in Int
      /\ engine.fdmax \in Nat
  BY FdFacts DEF IInv, Types, EngineState
<1>t. Turn(i)
  BY <1>0, TurnIs DEF HandleSend, SendStatic, SendStaticFails, CgiSend, CgiFinish, CgiSendFails,
                      CgiReady, SendStale
<1>1. CASE SendStatic(i)
  <2>0. /\ kernel[i].kind = "conn" /\ connections[i].uri = "static"
        /\ NoPipes(connections[i]) /\ PipesOf(i) = {}
        /\ connections[i] \in Slot /\ connections[i].request = "live"
    BY <1>0, <1>1, SlotCases DEF SendStatic, IsConn
  <2> DEFINE s == connections'[i]
  <2>1. CASE connections[i].left > 1
    <3>1. connections' = [connections EXCEPT ![i] = s] /\ s \in Slot
      BY <1>1, <2>1 DEF SendStatic, Types
    <3>2. s.request = "live" /\ s.uri = "static" /\ NoPipes(s)
      BY <1>0, <1>1, <2>0, <2>1 DEF SendStatic, Types, Slot, NoPipes
    <3>3. Passed(engine, engine', engine.temp_rfds \ {i}, engine.temp_wfds \ {i})
      BY <1>0, <1>1, <2>1, DoneFields DEF SendStatic
    <3>4. kernel' = kernel
      BY <1>1, <2>1 DEF SendStatic
    <3> HIDE DEF s
    <3>5. Edits(i, s)
      BY <2>0, <3>1, <3>2, <3>3, <3>4 DEF Edits, Passed, Shrinks
    <3> QED
      BY <3>1, <3>5 DEF StepKind
  <2>2. CASE ~(connections[i].left > 1) /\ connections[i].close
    <3> DEFINE e == CloseAndCleanup(engine, connections[i], i)
               R == {i}
    <3>1. Fields(engine, e, engine.rfds \ {i}, engine.wfds \ {i}, engine.nfds - 1, engine.fdmax)
      <4>1. connections[i].uri # "cgi"
        BY <2>0
      <4> QED
        BY <1>0, <4>1, CloseFields
    <3>2. Ends(i, e, R) /\ R \in SUBSET Fds
      BY <1>1, <2>2 DEF SendStatic
    <3>3. Cardinality({i} \cup PipesOf(i)) = 1
      BY <1>0, <2>0, PipeCounts
    <3> HIDE DEF e
    <3>4. /\ e \in EngineState /\ e.temp_rfds = engine.temp_rfds /\ e.temp_wfds = engine.temp_wfds
          /\ e.fdmax = engine.fdmax /\ e.nfds = engine.nfds - Cardinality({i} \cup PipesOf(i))
          /\ e.rfds \subseteq engine.rfds /\ engine.rfds \ e.rfds \subseteq {i} \cup PipesOf(i)
          /\ i \notin e.rfds /\ i \notin e.wfds
      BY <3>1, <3>3 DEF Fields
    <3> QED
      BY <1>t, <2>0, <3>2, <3>4, EndsKind
  <2>3. CASE ~(connections[i].left > 1) /\ ~connections[i].close
    <3>1. connections' = [connections EXCEPT ![i] = s] /\ s \in Slot
      BY <1>1, <2>3 DEF SendStatic, Types
    <3>2. s.request = "live" /\ s.uri = "static" /\ NoPipes(s)
      <4>1. s = InitConnection(connections[i].context)
        BY <1>0, <1>1, <2>3 DEF SendStatic, Types, GetReady
      <4>2. connections[i].context \in BOOLEAN
        BY <2>0 DEF Slot
      <4> QED
        BY <4>1, <4>2, BlankSlots
    <3> DEFINE d == AllDone(engine, i)
    <3>3. Passed(engine, d, engine.temp_rfds \ {i}, engine.temp_wfds \ {i})
      BY <1>0, DoneFields
    <3>4. engine' = [d EXCEPT !.wfds = @ \ {i}] /\ kernel' = kernel
      BY <1>1, <2>3 DEF SendStatic
    <3> HIDE DEF d, s
    <3>5. Fields(d, engine', d.rfds, d.wfds \ {i}, d.nfds, d.fdmax)
      BY <3>3, <3>4, UnwatchFields DEF Passed
    <3>6. Edits(i, s)
      BY <2>0, <3>1, <3>2, <3>3, <3>4, <3>5 DEF Edits, Passed, Fields, Shrinks
    <3> QED
      BY <3>1, <3>6 DEF StepKind
  <2> QED
    BY <2>1, <2>2, <2>3
<1>2. CASE SendStaticFails(i)
  <2>0. /\ kernel[i].kind = "conn" /\ connections[i].uri = "static" /\ PipesOf(i) = {}
    BY <1>0, <1>2, SlotCases DEF SendStaticFails, IsConn
  <2> DEFINE R == {i}
             e == Without(engine, R, R, 1)
  <2>1. Ends(i, e, R) /\ R \in SUBSET Fds
    BY <1>2 DEF SendStaticFails, Without
  <2>2. i \in R /\ R \subseteq {i} \cup PipesOf(i) /\ (R # {i} => peer[Client(i)].end = "reset")
    OBVIOUS
  <2>3. Fields(engine, e, engine.rfds \ R, engine.wfds \ R, engine.nfds - 1, engine.fdmax)
    <3> HIDE DEF R
    <3>1. 1 \in Int
      OBVIOUS
    <3> QED
      BY <1>0, <3>1, WithoutFields, Zenon
  <2>4. Cardinality({i} \cup PipesOf(i)) = 1
    BY <1>0, <2>0, PipeCounts
  <2> HIDE DEF e
  <2>5. /\ e \in EngineState /\ e.temp_rfds = engine.temp_rfds /\ e.temp_wfds = engine.temp_wfds
        /\ e.fdmax = engine.fdmax /\ e.nfds = engine.nfds - Cardinality({i} \cup PipesOf(i))
        /\ e.rfds \subseteq engine.rfds /\ engine.rfds \ e.rfds \subseteq {i} \cup PipesOf(i)
        /\ i \notin e.rfds /\ i \notin e.wfds
    BY <2>3, <2>4 DEF Fields
  <2> QED
    BY <1>t, <2>0, <2>1, <2>2, <2>5, EndsKind
<1>3. CASE CgiSend(i)
  <2>1. Passed(engine, engine', engine.temp_rfds \ {i}, engine.temp_wfds \ {i})
    BY <1>0, <1>3, DoneFields DEF CgiSend
  <2> QED
    BY <1>3, <2>1 DEF CgiSend, StepKind, Quiet, Passed, Shrinks
<1>4. CASE CgiFinish(i)
  <2>0. /\ kernel[i].kind = "conn" /\ connections[i].uri = "cgi"
        /\ HasPipes(connections[i], i) /\ connections[i] \in Slot
        /\ PipesOf(i) = {connections[i].stdin_pipe, connections[i].stdout_pipe}
    BY <1>0, <1>4, SlotCases DEF CgiFinish, CgiReady, IsConn
  <2> DEFINE s == connections'[i]
             R == PipesOf(i)
             d == AllDone(engine, i)
             p == connections[i].stdin_pipe
             q == connections[i].stdout_pipe
  <2>1. connections' = [connections EXCEPT ![i] = s] /\ s \in Slot
    BY <1>4 DEF CgiFinish, Types
  <2>2. s.request = "live" /\ s.uri = "static" /\ NoPipes(s)
    <3>1. s = InitConnection(connections[i].context)
      BY <1>0, <1>4 DEF CgiFinish, Types, GetReady
    <3>2. connections[i].context \in BOOLEAN
      BY <2>0 DEF Slot
    <3> QED
      BY <3>1, <3>2, BlankSlots
  <2>3. Passed(engine, d, engine.temp_rfds \ {i}, engine.temp_wfds \ {i})
    BY <1>0, DoneFields
  <2>4. engine' = FinishCgi(d, connections[i], i) /\ kernel' = Released(R)
    BY <1>4, <2>0 DEF CgiFinish, Pipes
  <2> HIDE DEF d, s
  <2>5. Fields(d, engine', d.rfds \ {p}, d.wfds \ {q, i}, d.nfds - 2, d.fdmax)
    BY <2>3, <2>4, FinishFields DEF Passed
  <2>6. Cardinality(R) = 2 /\ R \in SUBSET Fds
    BY <1>0, <2>0, PipeCounts DEF HasPipes
  <2>7. \A f \in R : f \notin Watched' \/ Misplaced(f)
    <3>1. kernel[p].kind = "stdin" /\ kernel[q].kind = "stdout"
      BY <2>0 DEF HasPipes
    <3>2. Watched' = (engine.rfds \ {p}) \cup (engine.wfds \ {q, i})
      BY <2>3, <2>5 DEF Watched, Passed, Fields
    <3>3. p \notin Watched' \/ Misplaced(p)
      BY <3>1, <3>2 DEF Misplaced
    <3>4. q \notin Watched' \/ Misplaced(q)
      BY <3>1, <3>2 DEF Misplaced
    <3> QED
      BY <2>0, <3>3, <3>4
  <2>8. i \notin R
    <3>1. kernel[p].kind = "stdin" /\ kernel[q].kind = "stdout"
      BY <2>0 DEF HasPipes
    <3> QED
      BY <2>0, <3>1
  <2>9. /\ engine'.nfds = engine.nfds - Cardinality(R) /\ engine'.fdmax = engine.fdmax
        /\ engine'.rfds \subseteq engine.rfds /\ engine.rfds \ engine'.rfds \subseteq R /\ Shrinks
    BY <2>0, <2>3, <2>5, <2>6 DEF Passed, Fields, Shrinks
  <2>10. Drops(i, R, R, s)
    <3> HIDE DEF p, q
    <3> QED
      BY <1>t, <2>0, <2>1, <2>2, <2>4, <2>7, <2>8, <2>9 DEF Drops
  <2> HIDE DEF R
  <2> QED
    BY <2>1, <2>6, <2>10 DEF StepKind
<1>5. CASE CgiSendFails(i)
  <2>0. /\ kernel[i].kind = "conn" /\ connections[i].uri = "cgi" /\ PipesOf(i) \in SUBSET Fds
        /\ peer[Client(i)].end = "reset" /\ PipesOf(i) = Pipes(connections[i])
    BY <1>0, <1>5, SlotCases DEF CgiSendFails, CgiReady, IsConn, PipesOf
  <2> DEFINE R == {i} \cup PipesOf(i)
             W == {i}
             e == Without(engine, W, W, 3)
  <2>1. Ends(i, e, R) /\ R \in SUBSET Fds
    BY <1>5, <2>0 DEF CgiSendFails, Without
  <2>2. i \in R /\ R \subseteq {i} \cup PipesOf(i) /\ (R # {i} => peer[Client(i)].end = "reset")
    BY <2>0
  <2>3. Fields(engine, e, engine.rfds \ W, engine.wfds \ W, engine.nfds - 3, engine.fdmax)
    <3> HIDE DEF W
    <3>1. 3 \in Int
      OBVIOUS
    <3> QED
      BY <1>0, <3>1, WithoutFields, Zenon
  <2>4. Cardinality({i} \cup PipesOf(i)) = 3
    BY <1>0, <2>0, PipeCounts
  <2> HIDE DEF e
  <2>5. /\ e \in EngineState /\ e.temp_rfds = engine.temp_rfds /\ e.temp_wfds = engine.temp_wfds
        /\ e.fdmax = engine.fdmax /\ e.nfds = engine.nfds - Cardinality({i} \cup PipesOf(i))
        /\ e.rfds \subseteq engine.rfds /\ engine.rfds \ e.rfds \subseteq {i} \cup PipesOf(i)
        /\ i \notin e.rfds /\ i \notin e.wfds
    BY <2>3, <2>4 DEF Fields
  <2> HIDE DEF R
  <2> QED
    BY <1>t, <2>0, <2>1, <2>2, <2>5, EndsKind
<1>6. CASE SendStale(i)
  BY <1>6 DEF SendStale, StepKind, Quiet, Shrinks
<1> QED
  BY <1>1, <1>2, <1>3, <1>4, <1>5, <1>6 DEF HandleSend

LEMMA StepKinds ==
  ASSUME IInv, Types', [Next]_vars
  PROVE  StepKind
<1>1. ASSUME NEW i \in Fds, HandleRecv(i) PROVE StepKind
  BY <1>1, AcceptKind, AcceptFailsKind, RecvKind DEF HandleRecv
<1>2. ASSUME NEW i \in Fds, HandleSend(i) PROVE StepKind
  BY <1>2, SendKind
<1>3. CASE Environment \/ Select \/ SelectFails
  BY <1>3, EnvironmentKind, SelectKind DEF StepKind
<1>4. CASE UNCHANGED vars
  BY <1>4 DEF vars, StepKind, Quiet, Shrinks
<1> QED
  BY <1>1, <1>2, <1>3, <1>4 DEF Next, Server

-----------------------------------------------------------------------------
(* The parts of the invariant that are not about the counter. *)

\* What is dropped is a connection and its pipes.
LEMMA DroppedKinds ==
  ASSUME Types, Slots, NEW i \in Fds, NEW D \in SUBSET Fds, NEW R \in SUBSET Fds, NEW s \in Slot,
         Drops(i, D, R, s)
  PROVE  /\ \A f \in D : \/ f = i /\ kernel[f].kind = "conn"
                         \/ /\ connections[i].uri = "cgi" /\ f \in Pipes(connections[i])
                            /\ kernel[f].kind \in {"stdin", "stdout"} /\ kernel[f].of = i
         /\ \A f \in Fds : kernel'[f] = IF f \in R THEN Free ELSE kernel[f]
         /\ R \subseteq D
<1>1. kernel[i].kind = "conn" /\ D \subseteq {i} \cup PipesOf(i) /\ R \subseteq D
  BY DEF Drops
<1>2. connections[i].uri = "cgi" =>
        /\ PipesOf(i) = Pipes(connections[i])
        /\ \A f \in PipesOf(i) : kernel[f].kind \in {"stdin", "stdout"} /\ kernel[f].of = i
  <2> SUFFICES ASSUME connections[i].uri = "cgi"
               PROVE  /\ PipesOf(i) = Pipes(connections[i])
                      /\ \A f \in PipesOf(i) : kernel[f].kind \in {"stdin", "stdout"} /\ kernel[f].of = i
    OBVIOUS
  <2>1. HasPipes(connections[i], i)
    BY <1>1, SlotCases
  <2>2. PipesOf(i) = {connections[i].stdin_pipe, connections[i].stdout_pipe}
    BY <1>1, SlotCases
  <2> QED
    BY <2>1, <2>2 DEF HasPipes, Pipes
<1>3. connections[i].uri # "cgi" => PipesOf(i) = {}
  BY DEF PipesOf
<1>4. \A f \in Fds : kernel'[f] = IF f \in R THEN Free ELSE kernel[f]
  BY ReleasedFacts DEF Drops, Types
<1> QED
  BY <1>1, <1>2, <1>3, <1>4

LEMMA StandardStep ==
  ASSUME IInv, Types', StepKind PROVE Standard'
<1>0. Types /\ Standard /\ Slots
  BY DEF IInv
<1> SUFFICES ASSUME NEW g \in Fds, g < Sock PROVE kernel'[g].kind = "std"
  BY DEF Standard
<1>1. kernel[g].kind = "std"
  BY <1>0 DEF Standard
<1>2. CASE Quiet \/ \E i \in Fds, s \in Slot : Edits(i, s)
  BY <1>1, <1>2 DEF Quiet, Edits
<1>3. ASSUME NEW f \in Fds, NEW c \in Clients, NEW s \in Slot, Takes(f, c, s)
      PROVE  kernel'[g].kind = "std"
  BY <1>0, <1>1, <1>3 DEF Takes, Types
<1>4. ASSUME NEW L \in {Listeners, {Sock}}, Deafens(L) PROVE kernel'[g].kind = "std"
  <2>1. g \notin L
    BY <1>1, <1>4 DEF Deafens
  <2> QED
    BY <1>0, <1>1, <1>4, <2>1, ReleasedFacts DEF Deafens, Types
<1>5. ASSUME NEW i \in Fds, NEW p \in Fds, NEW q \in Fds, NEW s \in Slot, Opens(i, p, q, s)
      PROVE  kernel'[g].kind = "std"
  BY <1>0, <1>1, <1>5 DEF Opens, Types
<1>6. ASSUME NEW i \in Fds, NEW D \in SUBSET Fds, NEW R \in SUBSET Fds, NEW s \in Slot,
             Drops(i, D, R, s)
      PROVE  kernel'[g].kind = "std"
  <2>1. g \notin D
    BY <1>0, <1>1, <1>6, DroppedKinds
  <2> QED
    BY <1>0, <1>1, <1>6, <2>1, DroppedKinds
<1> QED
  BY <1>2, <1>3, <1>4, <1>5, <1>6 DEF StepKind

LEMMA SockStep ==
  ASSUME IInv, Types', StepKind PROVE SockWatched'
<1>0. /\ Types /\ Slots /\ SockWatched /\ Sock \in Nat /\ engine.fdmax \in Nat /\ engine'.fdmax \in Nat
      /\ Sock \in Fds
  BY FdFacts DEF IInv, Types, EngineState
<1>1. CASE Quiet \/ \E i \in Fds, s \in Slot : Edits(i, s)
  BY <1>0, <1>1 DEF Quiet, Edits, SockWatched
<1>2. ASSUME NEW f \in Fds, NEW c \in Clients, NEW s \in Slot, Takes(f, c, s)
      PROVE  SockWatched'
  <2>1. f # Sock
    BY <1>2 DEF Takes, Listening, Listeners
  <2>2. kernel'[Sock] = kernel[Sock]
    BY <1>0, <1>2, <2>1 DEF Takes, Types
  <2>3. engine'.fdmax >= engine.fdmax /\ engine'.rfds = engine.rfds \cup {f}
    BY <1>2 DEF Takes
  <2> QED
    BY <1>0, <2>2, <2>3 DEF SockWatched
<1>3. ASSUME NEW L \in {Listeners, {Sock}}, Deafens(L) PROVE SockWatched'
  <2>1. kernel'[Sock] = Free
    BY <1>0, <1>3, ReleasedFacts DEF Deafens, Types, Listeners
  <2> QED
    BY <1>0, <1>3, <2>1, Objects DEF Deafens, SockWatched
<1>4. ASSUME NEW i \in Fds, NEW p \in Fds, NEW q \in Fds, NEW s \in Slot, Opens(i, p, q, s)
      PROVE  SockWatched'
  <2>1. kernel'[Sock] = kernel[Sock]
    BY <1>0, <1>4 DEF Opens, Types
  <2>2. engine'.fdmax >= engine.fdmax /\ engine'.rfds = engine.rfds \cup {p}
    BY <1>4 DEF Opens
  <2> QED
    BY <1>0, <2>1, <2>2 DEF SockWatched
<1>5. ASSUME NEW i \in Fds, NEW D \in SUBSET Fds, NEW R \in SUBSET Fds, NEW s \in Slot,
             Drops(i, D, R, s)
      PROVE  SockWatched'
  <2>1. Sock \notin D
    BY <1>0, <1>5, DroppedKinds DEF SockWatched
  <2>2. kernel'[Sock] = kernel[Sock]
    BY <1>0, <1>5, <2>1, DroppedKinds
  <2>3. Sock \in engine'.rfds /\ engine'.fdmax = engine.fdmax
    BY <1>0, <1>5, <2>1 DEF Drops, SockWatched
  <2> QED
    BY <1>0, <2>2, <2>3 DEF SockWatched
<1> QED
  BY <1>1, <1>2, <1>3, <1>4, <1>5 DEF StepKind

\* While the listeners are closed, no connection is handled before ssl_sock.
LEMMA BeyondListeners ==
  ASSUME IInv, ~Listening, NEW i \in Fds, Turn(i), kernel[i].kind = "conn"
  PROVE  SslSock \notin engine.temp_rfds
<1> SUFFICES ASSUME SslSock \in engine.temp_rfds PROVE FALSE
  OBVIOUS
<1>1. i <= SslSock /\ i \in Nat
  BY FdFacts DEF Turn, Temps
<1>2. i # Sock /\ i # SslSock
  BY DEF IInv, Deaf
<1>3. ~(i < Sock)
  BY DEF IInv, Standard
<1> QED
  BY <1>1, <1>2, <1>3 DEF Sock, SslSock

\* The listeners are closed together, and nothing opens them again.
LEMMA DeafStep ==
  ASSUME IInv, Types', StepKind PROVE Deaf'
<1>0. /\ Types /\ Slots /\ SockWatched /\ Deaf /\ Sock \in Fds /\ SslSock \in Fds
      /\ engine.nfds \in Int /\ MaxConnections \in Nat
  BY FdFacts DEF IInv, Types, EngineState
<1>1. CASE \/ /\ kernel' = kernel /\ engine'.nfds = engine.nfds
              /\ Shrinks \/ kernel[Sock].kind # "free"
  <2>1. Listening' <=> Listening
    BY <1>1 DEF Listening
  <2>2. CASE Listening
    BY <2>1, <2>2 DEF Deaf
  <2>3. CASE ~Listening
    <3>1. Shrinks
      BY <1>0, <1>1, <2>3 DEF Deaf
    <3> QED
      BY <1>0, <1>1, <2>3, <3>1 DEF Deaf, Shrinks, Temps
  <2> QED
    BY <2>2, <2>3
<1>2. ASSUME NEW f \in Fds, NEW c \in Clients, NEW s \in Slot, Takes(f, c, s)
      PROVE  Deaf'
  <2>1. \A l \in Listeners : kernel[l].kind = "listener" /\ l # f /\ l \in Fds
    BY <1>2, FdFacts DEF Takes, Listening
  <2>2. Listening'
    BY <1>0, <1>2, <2>1 DEF Takes, Types, Listening
  <2> QED
    BY <2>2 DEF Deaf
<1>3. ASSUME NEW L \in {Listeners, {Sock}}, Deafens(L) PROVE Deaf'
  <2>1. \A f \in Fds : kernel'[f] = IF f \in L THEN Free ELSE kernel[f]
    BY <1>0, <1>3, ReleasedFacts DEF Deafens, Types
  <2>2. kernel'[Sock].kind = "free"
    BY <1>0, <2>1, Objects DEF Listeners
  <2>3. Sock \notin Temps' /\ engine'.nfds = engine.nfds /\ engine.nfds <= MaxConnections - 1
    BY <1>3 DEF Deafens
  <2>4. \/ kernel'[SslSock].kind = "free"
        \/ kernel'[SslSock].kind = "listener" /\ engine.nfds = MaxConnections - 1
        \/ SslSock \notin engine'.temp_rfds
    <3>1. CASE SslSock \in L
      BY <1>0, <2>1, <3>1, Objects
    <3>2. CASE SslSock \notin L
      <4>1. kernel'[SslSock] = kernel[SslSock] /\ engine.nfds = MaxConnections - 1
        BY <1>0, <1>3, <2>1, <3>2 DEF Deafens
      <4>2. CASE Listening
        BY <4>1, <4>2 DEF Listening, Listeners
      <4>3. CASE ~Listening
        BY <1>0, <1>3, <4>1, <4>3 DEF Deaf, Deafens, Shrinks
      <4> QED
        BY <4>2, <4>3
    <3> QED
      BY <3>1, <3>2
  <2> QED
    BY <2>2, <2>3, <2>4 DEF Deaf
<1>4. ASSUME NEW i \in Fds, Turn(i), kernel[i].kind = "conn", Shrinks,
             kernel[Sock].kind = "listener" => kernel'[Sock] = kernel[Sock],
             kernel[Sock].kind = "free" => kernel'[Sock].kind = "free",
             kernel[SslSock].kind = "listener" => kernel'[SslSock] = kernel[SslSock]
      PROVE  Deaf'
  <2>1. CASE Listening
    <3>1. Listening'
      BY <1>4, <2>1 DEF Listening, Listeners
    <3> QED
      BY <3>1 DEF Deaf
  <2>2. CASE ~Listening
    <3>1. SslSock \notin engine.temp_rfds
      BY <1>4, <2>2, BeyondListeners
    <3>2. kernel[Sock].kind = "free" /\ Sock \notin Temps
      BY <1>0, <2>2 DEF Deaf
    <3>3. kernel'[Sock].kind = "free" /\ Sock \notin Temps' /\ SslSock \notin engine'.temp_rfds
      BY <1>4, <3>1, <3>2 DEF Shrinks, Temps
    <3> QED
      BY <3>3 DEF Deaf
  <2> QED
    BY <2>1, <2>2
<1>5. ASSUME NEW i \in Fds, NEW p \in Fds, NEW q \in Fds, NEW s \in Slot, Opens(i, p, q, s)
      PROVE  Deaf'
  <2>1. kernel'[Sock] = kernel[Sock] /\ (kernel[SslSock].kind = "listener" => kernel'[SslSock] = kernel[SslSock])
    BY <1>0, <1>5 DEF Opens, Types
  <2>2. Turn(i) /\ kernel[i].kind = "conn" /\ Shrinks
    BY <1>5 DEF Opens
  <2> QED
    BY <1>4, <2>1, <2>2
<1>6. ASSUME NEW i \in Fds, NEW D \in SUBSET Fds, NEW R \in SUBSET Fds, NEW s \in Slot,
             Drops(i, D, R, s)
      PROVE  Deaf'
  <2>1. \A l \in {Sock, SslSock} : kernel[l].kind \in {"listener", "free"} => l \notin D
    BY <1>0, <1>6, DroppedKinds
  <2>2. \A l \in {Sock, SslSock} : kernel[l].kind \in {"listener", "free"} => kernel'[l] = kernel[l]
    BY <1>0, <1>6, <2>1, DroppedKinds
  <2>3. Turn(i) /\ kernel[i].kind = "conn" /\ Shrinks
    BY <1>6 DEF Drops
  <2> QED
    BY <1>4, <2>2, <2>3
<1>7. CASE Quiet \/ \E i \in Fds, s \in Slot : Edits(i, s)
  BY <1>1, <1>7 DEF Quiet, Edits
<1> QED
  BY <1>2, <1>3, <1>5, <1>6, <1>7 DEF StepKind

\* A slot that a step leaves alone, with the pipes that belong to it.
LEMMA SlotKept ==
  ASSUME NEW f \in Fds, SlotOf(f), connections'[f] = connections[f],
         kernel'[f].kind = "conn" <=> kernel[f].kind = "conn",
         \A g \in Fds : kernel[g].kind \in {"stdin", "stdout"} /\ kernel[g].of = f =>
                        kernel'[g] = kernel[g]
  PROVE  SlotOf(f)'
<1>1. CASE kernel[f].kind = "conn" /\ connections[f].uri = "cgi"
  <2>1. HasPipes(connections[f], f)
    BY <1>1 DEF SlotOf
  <2>2. HasPipes(connections[f], f)'
    BY <2>1 DEF HasPipes
  <2> QED
    BY <1>1, <2>2 DEF SlotOf
<1>2. CASE ~(kernel[f].kind = "conn" /\ connections[f].uri = "cgi")
  BY <1>2 DEF SlotOf, NoPipes
<1> QED
  BY <1>1, <1>2

\* A slot without pipes.
LEMMA SlotBlank ==
  ASSUME NEW f \in Fds, NEW s, connections'[f] = s, s.uri = "static", NoPipes(s),
         kernel'[f].kind = "conn" => s.request = "live"
  PROVE  SlotOf(f)'
  BY DEF SlotOf, NoPipes

LEMMA SlotsStep ==
  ASSUME IInv, Types', StepKind PROVE Slots'
<1>0. Types /\ Slots
  BY DEF IInv
<1> SUFFICES ASSUME NEW g \in Fds PROVE SlotOf(g)'
  BY DEF Slots
<1>s. SlotOf(g)
  BY <1>0 DEF Slots
<1>1. CASE Quiet
  BY <1>s, <1>1, SlotKept DEF Quiet
<1>2. ASSUME NEW i \in Fds, NEW s \in Slot, Edits(i, s) PROVE SlotOf(g)'
  <2>1. CASE g = i
    <3>1. connections'[g] = s /\ s.uri = "static" /\ NoPipes(s) /\ s.request = "live"
      BY <1>0, <1>2, <2>1 DEF Edits, Types
    <3> QED
      BY <3>1, SlotBlank
  <2>2. CASE g # i
    <3>1. connections'[g] = connections[g] /\ kernel' = kernel
      BY <1>0, <1>2, <2>2 DEF Edits, Types
    <3> QED
      BY <1>s, <3>1, SlotKept
  <2> QED
    BY <2>1, <2>2
<1>3. ASSUME NEW f \in Fds, NEW c \in Clients, NEW s \in Slot, Takes(f, c, s)
      PROVE  SlotOf(g)'
  <2>0. \A h \in Fds : kernel'[h] = IF h = f THEN Conn(c) ELSE kernel[h]
    BY <1>0, <1>3 DEF Takes, Types
  <2>1. CASE g = f
    <3>1. connections'[g] = s /\ s.uri = "static" /\ NoPipes(s) /\ s.request = "live"
      BY <1>0, <1>3, <2>1 DEF Takes, Types
    <3> QED
      BY <3>1, SlotBlank
  <2>2. CASE g # f
    <3>1. connections'[g] = connections[g] /\ kernel'[g] = kernel[g]
      BY <1>0, <1>3, <2>0, <2>2 DEF Takes, Types
    <3>2. \A h \in Fds : kernel[h].kind \in {"stdin", "stdout"} => kernel'[h] = kernel[h]
      BY <1>3, <2>0 DEF Takes
    <3> QED
      BY <1>s, <3>1, <3>2, SlotKept
  <2> QED
    BY <2>1, <2>2
<1>4. ASSUME NEW L \in {Listeners, {Sock}}, Deafens(L) PROVE SlotOf(g)'
  <2>1. \A h \in Fds : kernel'[h] = IF h \in L THEN Free ELSE kernel[h]
    BY <1>0, <1>4, ReleasedFacts DEF Deafens, Types
  <2>2. \A h \in L : kernel[h].kind \in {"listener", "free"}
    BY <1>4 DEF Deafens
  <2>3. \A h \in Fds : kernel[h].kind \in {"stdin", "stdout"} => kernel'[h] = kernel[h]
    BY <2>1, <2>2
  <2>4. kernel'[g].kind = "conn" <=> kernel[g].kind = "conn"
    BY <2>1, <2>2, Objects
  <2>5. connections' = connections
    BY <1>4 DEF Deafens
  <2> QED
    BY <1>s, <2>3, <2>4, <2>5, SlotKept
<1>5. ASSUME NEW i \in Fds, NEW p \in Fds, NEW q \in Fds, NEW s \in Slot, Opens(i, p, q, s)
      PROVE  SlotOf(g)'
  <2> DEFINE ip == [kind |-> "stdin", of |-> i]
             iq == [kind |-> "stdout", of |-> i]
  <2>1. \A h \in Fds : kernel'[h] = IF h = q THEN iq ELSE IF h = p THEN ip ELSE kernel[h]
    BY <1>0, <1>5 DEF Opens, Types
  <2>2. kernel[p].kind = "free" /\ kernel[q].kind = "free" /\ p # q /\ kernel[i].kind = "conn"
    BY <1>5 DEF Opens
  <2>3. CASE g = i
    <3>1. connections'[i] = s /\ s.request = "live" /\ s.uri = "cgi" /\ s.status # 0
      BY <1>0, <1>5 DEF Opens, Types
    <3>2. s.stdin_pipe = p /\ s.stdout_pipe = q /\ kernel'[p] = ip /\ kernel'[q] = iq
      BY <1>5, <2>1, <2>2 DEF Opens
    <3>3. kernel'[i].kind = "conn"
      BY <2>1, <2>2
    <3> QED
      BY <2>3, <3>1, <3>2, <3>3 DEF SlotOf, HasPipes
  <2>4. CASE g # i
    <3>1. connections'[g] = connections[g]
      BY <1>0, <1>5, <2>4 DEF Opens, Types
    <3>2. \A h \in Fds : kernel[h].kind \in {"stdin", "stdout"} => kernel'[h] = kernel[h]
      BY <2>1, <2>2
    <3>3. kernel'[g].kind = "conn" <=> kernel[g].kind = "conn"
      <4>1. ip.kind = "stdin" /\ iq.kind = "stdout"
        OBVIOUS
      <4> HIDE DEF ip, iq
      <4> QED
        BY <2>1, <2>2, <4>1
    <3> QED
      BY <1>s, <3>1, <3>2, <3>3, SlotKept
  <2> QED
    BY <2>3, <2>4
<1>6. ASSUME NEW i \in Fds, NEW D \in SUBSET Fds, NEW R \in SUBSET Fds, NEW s \in Slot,
             Drops(i, D, R, s)
      PROVE  SlotOf(g)'
  <2>1. \A h \in Fds : kernel'[h] = IF h \in R THEN Free ELSE kernel[h]
    BY <1>0, <1>6, DroppedKinds
  <2>2. CASE g = i
    <3>1. connections'[g] = s /\ s.uri = "static" /\ NoPipes(s) /\ (i \notin R => s.request = "live")
      BY <1>0, <1>6, <2>2 DEF Drops, Types
    <3>2. kernel'[g].kind = "conn" => s.request = "live"
      BY <2>1, <2>2, <3>1, Objects
    <3> QED
      BY <3>1, <3>2, SlotBlank
  <2>3. CASE g # i
    <3>1. connections'[g] = connections[g]
      BY <1>0, <1>6, <2>3 DEF Drops, Types
    <3>2. \A h \in Fds : kernel[h].kind \in {"stdin", "stdout"} /\ kernel[h].of = g =>
                         kernel'[h] = kernel[h]
      BY <1>0, <1>6, <2>1, <2>3, DroppedKinds
    <3>3. kernel'[g].kind = "conn" <=> kernel[g].kind = "conn"
      <4>1. g \in R => kernel[g].kind \in {"stdin", "stdout"}
        BY <1>0, <1>6, <2>3, DroppedKinds
      <4> QED
        BY <2>1, <4>1, Objects
    <3> QED
      BY <1>s, <3>1, <3>2, <3>3, SlotKept
  <2> QED
    BY <2>2, <2>3
<1> QED
  BY <1>1, <1>2, <1>3, <1>4, <1>5, <1>6 DEF StepKind

-----------------------------------------------------------------------------
(* The counter. *)

\* A descriptor that the counter counts: open, and no pipe without a request.
LEMMA CountedIs ==
  /\ Counted \subseteq Fds /\ IsFiniteSet(Counted) /\ Cardinality(Counted) \in Nat
  /\ \A f \in Fds : f \in Counted <=>
       /\ kernel[f].kind # "free"
       /\ kernel[f].kind \in {"stdin", "stdout"} => f \in Pipes(connections[kernel[f].of])
<1>1. Counted \subseteq Fds
  BY DEF Counted, OpenFds
<1>2. IsFiniteSet(Counted)
  BY <1>1, FdFacts, FS_Subset
<1>3. Cardinality(Counted) \in Nat
  BY <1>2, FS_CardinalityType
<1>4. \A f \in Fds : f \in Counted <=>
       /\ kernel[f].kind # "free"
       /\ kernel[f].kind \in {"stdin", "stdout"} => f \in Pipes(connections[kernel[f].of])
  BY DEF Counted, OpenFds, Orphans
<1> QED
  BY <1>1, <1>2, <1>3, <1>4

LEMMA CountedIsNext ==
  /\ Counted' \subseteq Fds
  /\ \A f \in Fds : f \in Counted' <=>
       /\ kernel'[f].kind # "free"
       /\ kernel'[f].kind \in {"stdin", "stdout"} => f \in Pipes(connections'[kernel'[f].of])
  BY DEF Counted, OpenFds, Orphans

\* No descriptor is a pipe of a slot without pipes.
LEMMA NoPipesHere ==
  ASSUME NEW s, NoPipes(s), NEW f \in Fds PROVE f \notin Pipes(s)
  BY FdFacts DEF NoPipes, Pipes

\* The cardinality of a finite set less some of its elements.
LEMMA CardLess ==
  ASSUME NEW S, IsFiniteSet(S), NEW T, T \subseteq S
  PROVE  Cardinality(S \ T) = Cardinality(S) - Cardinality(T)
<1>1. IsFiniteSet(T) /\ IsFiniteSet(S \ T)
  BY FS_Subset
<1>2. Cardinality((S \ T) \cup T) = Cardinality(S \ T) + Cardinality(T) - Cardinality((S \ T) \cap T)
  BY <1>1, FS_Union
<1>3. (S \ T) \cup T = S /\ (S \ T) \cap T = {}
  OBVIOUS
<1>4. Cardinality((S \ T) \cap T) = 0
  BY <1>3, FS_EmptySet
<1>5. Cardinality(S \ T) \in Nat /\ Cardinality(T) \in Nat
  BY <1>1, FS_CardinalityType
<1> DEFINE n == Cardinality(S)
           m == Cardinality(S \ T)
           k == Cardinality(T)
<1>6. n = m + k - 0 /\ m \in Nat /\ k \in Nat
  <2>1. Cardinality((S \ T) \cup T) = n
    BY <1>3
  <2> QED
    BY <1>2, <1>4, <1>5, <2>1
<1> HIDE DEF n, m, k
<1>7. m = n - k
  BY <1>6
<1> QED
  BY <1>7 DEF n, m, k

\* Opening a connection counts one more, starting a program two.
LEMMA TakesCounted ==
  ASSUME Types, Slots, NEW f \in Fds, NEW c \in Clients, NEW s \in Slot, Takes(f, c, s)
  PROVE  Cardinality(Counted') = Cardinality(Counted) + 1
<1>0. \A h \in Fds : kernel'[h] = IF h = f THEN Conn(c) ELSE kernel[h]
  BY DEF Takes, Types
<1>1. \A h \in Fds : connections'[h] = IF h = f THEN s ELSE connections[h]
  BY DEF Takes, Types
<1>2. NoPipes(connections[f]) /\ NoPipes(s) /\ kernel[f].kind = "free"
  BY DEF Slots, SlotOf, Takes
<1>3. f \notin Counted
  BY <1>2, CountedIs
<1>4. Counted' = Counted \cup {f}
  <2>1. f \in Counted'
    BY <1>0, CountedIsNext, Objects
  <2>2. ASSUME NEW h \in Fds, h # f PROVE h \in Counted' <=> h \in Counted
    <3>1. kernel'[h] = kernel[h]
      BY <1>0, <2>2
    <3>2. CASE kernel[h].kind \in {"stdin", "stdout"}
      <4>1. kernel[h].of \in Fds
        BY <3>2, Kinds DEF Types
      <4>2. h \in Pipes(connections'[kernel[h].of]) <=> h \in Pipes(connections[kernel[h].of])
        BY <1>1, <1>2, <4>1, NoPipesHere
      <4> QED
        BY <3>1, <3>2, <4>2, CountedIs, CountedIsNext
    <3>3. CASE kernel[h].kind \notin {"stdin", "stdout"}
      BY <3>1, <3>3, CountedIs, CountedIsNext
    <3> QED
      BY <3>2, <3>3
  <2> QED
    BY <2>1, <2>2, CountedIs, CountedIsNext
<1> QED
  BY <1>3, <1>4, CountedIs, FS_AddElement

LEMMA OpensCounted ==
  ASSUME Types, Slots, NEW i \in Fds, NEW p \in Fds, NEW q \in Fds, NEW s \in Slot,
         Opens(i, p, q, s)
  PROVE  Cardinality(Counted') = Cardinality(Counted) + 2
<1> DEFINE ip == [kind |-> "stdin", of |-> i]
           iq == [kind |-> "stdout", of |-> i]
<1>0. /\ kernel[p].kind = "free" /\ kernel[q].kind = "free" /\ p # q /\ kernel[i].kind = "conn"
      /\ connections[i].status = 0
  BY DEF Opens
<1>1. \A h \in Fds : kernel'[h] = IF h = q THEN iq ELSE IF h = p THEN ip ELSE kernel[h]
  BY DEF Opens, Types
<1>2. \A h \in Fds : connections'[h] = IF h = i THEN s ELSE connections[h]
  BY DEF Opens, Types
<1>3. NoPipes(connections[i]) /\ Pipes(s) = {p, q}
  BY <1>0, SlotCases DEF Opens, Pipes
<1>4. p \notin Counted /\ q \notin Counted
  BY <1>0, CountedIs
<1>5. p \in Counted' /\ q \in Counted'
  <2>1. ip.kind = "stdin" /\ iq.kind = "stdout" /\ ip.of = i /\ iq.of = i
    OBVIOUS
  <2> HIDE DEF ip, iq
  <2>2. kernel'[p] = ip /\ kernel'[q] = iq /\ connections'[i] = s
    BY <1>0, <1>1, <1>2
  <2> QED
    BY <1>3, <2>1, <2>2, CountedIsNext
<1>6. ASSUME NEW h \in Fds, h # p, h # q PROVE h \in Counted' <=> h \in Counted
  <2>1. kernel'[h] = kernel[h]
    BY <1>1, <1>6
  <2>2. CASE kernel[h].kind \in {"stdin", "stdout"}
    <3>1. kernel[h].of \in Fds
      BY <2>2, Kinds DEF Types
    <3>2. h \in Pipes(connections'[kernel[h].of]) <=> h \in Pipes(connections[kernel[h].of])
      BY <1>2, <1>3, <1>6, <3>1, NoPipesHere
    <3> QED
      BY <2>1, <2>2, <3>2, CountedIs, CountedIsNext
  <2>3. CASE kernel[h].kind \notin {"stdin", "stdout"}
    BY <2>1, <2>3, CountedIs, CountedIsNext
  <2> QED
    BY <2>2, <2>3
<1>7. Counted' = (Counted \cup {p}) \cup {q}
  BY <1>5, <1>6, CountedIs, CountedIsNext
<1>8. /\ IsFiniteSet(Counted \cup {p}) /\ Cardinality(Counted \cup {p}) = Cardinality(Counted) + 1
  BY <1>4, CountedIs, FS_AddElement
<1>9. q \notin Counted \cup {p}
  BY <1>0, <1>4
<1>10. Cardinality((Counted \cup {p}) \cup {q}) = Cardinality(Counted \cup {p}) + 1
  BY <1>8, <1>9, FS_AddElement
<1> QED
  BY <1>7, <1>8, <1>10, CountedIs

\* Ending a connection or a program counts off what it drops.
LEMMA DropsCounted ==
  ASSUME Types, Slots, NEW i \in Fds, NEW D \in SUBSET Fds, NEW R \in SUBSET Fds, NEW s \in Slot,
         Drops(i, D, R, s)
  PROVE  Cardinality(Counted') = Cardinality(Counted) - Cardinality(D)
<1>1. \A h \in Fds : kernel'[h] = IF h \in R THEN Free ELSE kernel[h]
  BY DroppedKinds
<1>2. \A h \in Fds : connections'[h] = IF h = i THEN s ELSE connections[h]
  BY DEF Drops, Types
<1>3. /\ R \subseteq D /\ PipesOf(i) \subseteq D /\ (i \in D => i \in R) /\ NoPipes(s)
      /\ kernel[i].kind = "conn"
  BY DEF Drops
<1>4. \A f \in D : \/ f = i /\ kernel[f].kind = "conn"
                  \/ /\ connections[i].uri = "cgi" /\ f \in Pipes(connections[i])
                     /\ kernel[f].kind \in {"stdin", "stdout"} /\ kernel[f].of = i
  BY DroppedKinds
<1>5. D \subseteq Counted
  BY <1>4, CountedIs
<1>6. ASSUME NEW h \in D PROVE h \notin Counted'
  <2>1. CASE h \in R
    BY <1>1, <2>1, CountedIsNext, Objects
  <2>2. CASE h \notin R
    <3>1. kernel'[h] = kernel[h] /\ kernel[h].kind \in {"stdin", "stdout"} /\ kernel[h].of = i
      BY <1>1, <1>3, <1>4, <2>2
    <3>2. h \notin Pipes(connections'[i])
      BY <1>2, <1>3, NoPipesHere
    <3> QED
      BY <3>1, <3>2, CountedIsNext
  <2> QED
    BY <2>1, <2>2
<1>7. ASSUME NEW h \in Fds, h \notin D PROVE h \in Counted' <=> h \in Counted
  <2>1. kernel'[h] = kernel[h]
    BY <1>1, <1>3, <1>7
  <2>2. CASE kernel[h].kind \in {"stdin", "stdout"} /\ kernel[h].of = i
    <3>1. h \notin Pipes(connections'[i])
      BY <1>2, <1>3, NoPipesHere
    <3>2. h \notin Pipes(connections[i])
      <4>1. CASE connections[i].uri = "cgi"
        BY <1>3, <1>7, <4>1 DEF PipesOf
      <4>2. CASE connections[i].uri # "cgi"
        <5>1. NoPipes(connections[i])
          BY <1>3, <4>2, SlotCases
        <5> QED
          BY <5>1, NoPipesHere
      <4> QED
        BY <4>1, <4>2
    <3> QED
      BY <2>1, <2>2, <3>1, <3>2, CountedIs, CountedIsNext
  <2>3. CASE kernel[h].kind \in {"stdin", "stdout"} /\ kernel[h].of # i
    <3>1. connections'[kernel[h].of] = connections[kernel[h].of]
      BY <1>2, <2>3, Kinds DEF Types
    <3> QED
      BY <2>1, <2>3, <3>1, CountedIs, CountedIsNext
  <2>4. CASE kernel[h].kind \notin {"stdin", "stdout"}
    BY <2>1, <2>4, CountedIs, CountedIsNext
  <2> QED
    BY <2>2, <2>3, <2>4
<1>8. Counted' = Counted \ D
  BY <1>6, <1>7, CountedIs, CountedIsNext
<1> QED
  BY <1>5, <1>8, CountedIs, CardLess

\* Editing a slot that has no pipes leaves them as they are.
LEMMA EditsCounted ==
  ASSUME Types, Slots, NEW i \in Fds, NEW s \in Slot, Edits(i, s)
  PROVE  Counted' = Counted
<1>1. \A h \in Fds : connections'[h] = IF h = i THEN s ELSE connections[h]
  BY DEF Edits, Types
<1>2. NoPipes(connections[i]) /\ NoPipes(s) /\ kernel' = kernel
  BY DEF Edits
<1>3. ASSUME NEW h \in Fds PROVE h \in Counted' <=> h \in Counted
  <2>1. CASE kernel[h].kind \in {"stdin", "stdout"}
    <3>1. kernel[h].of \in Fds
      BY <2>1, Kinds DEF Types
    <3>2. h \in Pipes(connections'[kernel[h].of]) <=> h \in Pipes(connections[kernel[h].of])
      BY <1>1, <1>2, <3>1, NoPipesHere
    <3> QED
      BY <1>2, <2>1, <3>2, CountedIs, CountedIsNext
  <2>2. CASE kernel[h].kind \notin {"stdin", "stdout"}
    BY <1>2, <2>2, CountedIs, CountedIsNext
  <2> QED
    BY <2>1, <2>2
<1> QED
  BY <1>3, CountedIs, CountedIsNext

LEMMA CountsStep ==
  ASSUME IInv, Types', StepKind PROVE Counts'
<1>0. /\ Types /\ Slots /\ Counts /\ engine.nfds \in Int /\ engine'.nfds \in Int
      /\ MaxConnections \in Nat /\ Listeners \subseteq Fds
  BY FdFacts DEF IInv, Types, EngineState
<1> SUFFICES ASSUME Listening'
             PROVE  engine'.nfds = Cardinality(Counted') /\ engine'.nfds <= MaxConnections - 1
  BY DEF Counts
<1>1. CASE Quiet
  <2>1. Listening
    BY <1>1 DEF Quiet, Listening
  <2>2. Counted' = Counted
    BY <1>1 DEF Quiet, Counted, Orphans, OpenFds
  <2> QED
    BY <1>0, <1>1, <2>1, <2>2 DEF Counts, Quiet
<1>2. ASSUME NEW i \in Fds, NEW s \in Slot, Edits(i, s)
      PROVE  engine'.nfds = Cardinality(Counted') /\ engine'.nfds <= MaxConnections - 1
  <2>1. Listening
    BY <1>2 DEF Edits, Listening
  <2>2. Counted' = Counted
    BY <1>0, <1>2, EditsCounted
  <2> QED
    BY <1>0, <1>2, <2>1, <2>2 DEF Counts, Edits
<1>3. ASSUME NEW f \in Fds, NEW c \in Clients, NEW s \in Slot, Takes(f, c, s)
      PROVE  engine'.nfds = Cardinality(Counted') /\ engine'.nfds <= MaxConnections - 1
  <2>1. Listening /\ engine'.nfds = engine.nfds + 1 /\ engine.nfds < MaxConnections - 1
    BY <1>3 DEF Takes
  <2>2. Cardinality(Counted') = Cardinality(Counted) + 1
    BY <1>0, <1>3, TakesCounted
  <2>3. engine.nfds = Cardinality(Counted)
    BY <1>0, <2>1 DEF Counts
  <2> QED
    BY <1>0, <2>1, <2>2, <2>3
<1>4. ASSUME NEW L \in {Listeners, {Sock}}, Deafens(L)
      PROVE  engine'.nfds = Cardinality(Counted') /\ engine'.nfds <= MaxConnections - 1
  <2>1. kernel'[Sock].kind = "free"
    BY <1>0, <1>4, FdFacts, ReleasedFacts, Objects DEF Deafens, Types, Listeners
  <2> QED
    BY <2>1 DEF Listening, Listeners
<1>5. ASSUME NEW i \in Fds, NEW p \in Fds, NEW q \in Fds, NEW s \in Slot, Opens(i, p, q, s)
      PROVE  engine'.nfds = Cardinality(Counted') /\ engine'.nfds <= MaxConnections - 1
  <2> DEFINE ip == [kind |-> "stdin", of |-> i]
             iq == [kind |-> "stdout", of |-> i]
  <2>1. \A h \in Fds : kernel'[h] = IF h = q THEN iq ELSE IF h = p THEN ip ELSE kernel[h]
    BY <1>0, <1>5 DEF Opens, Types
  <2>2. Listening
    <3>1. ip.kind # "listener" /\ iq.kind # "listener"
      OBVIOUS
    <3> HIDE DEF ip, iq
    <3> QED
      BY <1>0, <2>1, <3>1 DEF Listening
  <2>3. engine.nfds = Cardinality(Counted) /\ engine'.nfds = engine.nfds + 2
    BY <1>0, <1>5, <2>2 DEF Counts, Opens
  <2>4. Cardinality(Counted') = Cardinality(Counted) + 2
    BY <1>0, <1>5, OpensCounted
  <2>5. Cardinality(Counted) <= MaxConnections - 4
    <3>1. Counted \subseteq Fds \ FreeFds
      BY CountedIs, FreeFacts
    <3>2. IsFiniteSet(Fds \ FreeFds)
      BY FdFacts, FS_Subset
    <3>3. Cardinality(Counted) <= Cardinality(Fds \ FreeFds)
      BY <3>1, <3>2, FS_Subset
    <3>4. Cardinality(Fds \ FreeFds) = MaxConnections - Cardinality(FreeFds)
      BY FdFacts, FreeFacts, CardLess
    <3>5. Cardinality(FreeFds) >= 4
      BY <1>5 DEF Opens
    <3>6. Cardinality(FreeFds) \in Nat
      <4>1. IsFiniteSet(FreeFds)
        BY FdFacts, FreeFacts, FS_Subset
      <4> QED
        BY <4>1, FS_CardinalityType
    <3> QED
      BY <1>0, <3>3, <3>4, <3>5, <3>6, CountedIs
  <2> QED
    BY <1>0, <2>3, <2>4, <2>5, CountedIs
<1>6. ASSUME NEW i \in Fds, NEW D \in SUBSET Fds, NEW R \in SUBSET Fds, NEW s \in Slot,
             Drops(i, D, R, s)
      PROVE  engine'.nfds = Cardinality(Counted') /\ engine'.nfds <= MaxConnections - 1
  <2>1. Listening
    <3>1. \A h \in Fds : kernel'[h] = IF h \in R THEN Free ELSE kernel[h]
      BY <1>0, <1>6, DroppedKinds
    <3> QED
      BY <1>0, <3>1, Objects DEF Listening
  <2>2. Cardinality(Counted') = Cardinality(Counted) - Cardinality(D)
    BY <1>0, <1>6, DropsCounted
  <2>3. Cardinality(D) \in Nat
    BY FdFacts, FS_Subset, FS_CardinalityType
  <2>4. /\ engine.nfds = Cardinality(Counted) /\ engine.nfds <= MaxConnections - 1
        /\ engine'.nfds = engine.nfds - Cardinality(D)
    BY <1>0, <1>6, <2>1 DEF Counts, Drops
  <2> QED
    BY <1>0, <2>2, <2>3, <2>4
<1> QED
  BY <1>1, <1>2, <1>3, <1>4, <1>5, <1>6 DEF StepKind

-----------------------------------------------------------------------------
(* The invariant, and the properties it gives. *)

LEMMA InitInv == Init => IInv
<1> SUFFICES ASSUME Init PROVE IInv
  OBVIOUS
<1>0. Types
  BY InitTypes
<1>1. /\ \A f \in Fds : kernel[f] = IF f < Sock THEN [kind |-> "std"]
                                   ELSE IF f \in Listeners THEN [kind |-> "listener"] ELSE Free
      /\ \A f \in Fds : connections[f] = NeverUsed
      /\ engine = [rfds |-> Listeners, wfds |-> {}, temp_rfds |-> {}, temp_wfds |-> {},
                   nfds |-> 6, fdmax |-> SslSock]
  BY DEF Init
<1>2. Standard
  BY <1>1 DEF Standard
<1>3. \A l \in Listeners : kernel[l].kind = "listener"
  BY <1>1, FdFacts DEF Listeners, Sock, SslSock
<1>4. NoPipes(NeverUsed) /\ NeverUsed.uri = "static"
  BY DEF NeverUsed, Cleaned, InitConnection, NoPipes
<1>5. \A f \in Fds : kernel[f].kind \in {"std", "listener", "free"}
  <2>1. [kind |-> "std"].kind = "std" /\ [kind |-> "listener"].kind = "listener" /\ Free.kind = "free"
    BY DEF Free
  <2> QED
    BY <1>1, <2>1
<1>6. Slots
  BY <1>1, <1>4, <1>5 DEF Slots, SlotOf
<1>7. Counted = 0..5
  <2>1. \A f \in Fds : f \in Counted <=> kernel[f].kind # "free"
    BY <1>5, CountedIs
  <2>2. \A f \in Fds : kernel[f].kind # "free" <=> f <= 5
    <3> TAKE f \in Fds
    <3>1. CASE f < Sock
      BY <1>1, <3>1, FdFacts DEF Sock
    <3>2. CASE f \in Listeners
      BY <1>3, <3>2 DEF Listeners, Sock, SslSock
    <3>3. CASE ~(f < Sock) /\ f \notin Listeners
      BY <1>1, <3>3, FdFacts, Objects DEF Listeners, Sock, SslSock
    <3> QED
      BY <3>1, <3>2, <3>3
  <2>3. 0..5 \subseteq Fds
    BY EngineAssumption DEF Fds
  <2> QED
    <3>1. Counted \subseteq Fds /\ Fds \subseteq Nat
      BY FdFacts, CountedIs
    <3>2. \A f \in Counted : f \in 0..5
      BY <2>1, <2>2, <3>1
    <3>3. \A f \in 0..5 : f \in Counted
      BY <2>1, <2>2, <2>3
    <3> QED
      BY <3>2, <3>3
<1>8. Counts
  <2>1. Cardinality(0..5) = 6
    <3> DEFINE a == 0
               b == 5
    <3>1. a \in Int /\ b \in Int /\ a <= b
      OBVIOUS
    <3>2. IF a > b THEN Cardinality(a..b) = 0 ELSE Cardinality(a..b) = b - a + 1
      <4> HIDE DEF a, b
      <4> QED
        BY <3>1, FS_Interval
    <3> QED
      BY <3>2
  <2> QED
    BY <1>1, <1>7, <2>1, EngineAssumption DEF Counts
<1>9. Deaf
  BY <1>3 DEF Deaf, Listening
<1>10. SockWatched
  BY <1>1, <1>3 DEF SockWatched, Listeners, Sock, SslSock
<1> QED
  BY <1>0, <1>2, <1>6, <1>8, <1>9, <1>10 DEF IInv

LEMMA StepInv == IInv /\ [Next]_vars => IInv'
<1> SUFFICES ASSUME IInv, [Next]_vars PROVE IInv'
  OBVIOUS
<1>1. Types'
  BY StepTypes DEF IInv
<1>2. StepKind
  BY <1>1, StepKinds
<1> QED
  BY <1>1, <1>2, StandardStep, SlotsStep, CountsStep, DeafStep, SockStep DEF IInv

LEMMA InvHolds == Spec => []IInv
<1> QED
  BY InitInv, StepInv, PTL DEF Spec

\* The counter of descriptors is exact whenever select is called (nfds of
\* liso_select_engine), but for the pipes that a closed connection leaves open.
THEOREM CounterCorrect == Spec => []CounterExact
<1>1. IInv => CounterExact
  <2> SUFFICES ASSUME IInv, Listening
               PROVE  engine.nfds + Cardinality(Orphans) = Cardinality(OpenFds)
    BY DEF CounterExact
  <2>1. Orphans \subseteq OpenFds /\ OpenFds \subseteq Fds
    BY DEF Orphans, OpenFds
  <2>2. IsFiniteSet(OpenFds) /\ IsFiniteSet(Orphans)
    BY <2>1, FdFacts, FS_Subset
  <2>3. Cardinality(Counted) = Cardinality(OpenFds) - Cardinality(Orphans)
    BY <2>1, <2>2, CardLess DEF Counted
  <2>4. Cardinality(OpenFds) \in Nat /\ Cardinality(Orphans) \in Nat
    BY <2>2, FS_CardinalityType
  <2>5. engine.nfds = Cardinality(Counted)
    BY DEF IInv, Counts
  <2> QED
    BY <2>3, <2>4, <2>5
<1> QED
  BY <1>1, InvHolds, PTL

\* The limit of connections is kept: as long as the server listens, and whenever
\* liso_handle_recv compares the counter with MAX_CONNECTIONS - 1.
THEOREM LimitKept == Spec => []LimitHolds
<1>1. IInv => LimitHolds
  <2> SUFFICES ASSUME IInv, Listening \/ \E l \in Listeners : Reading(l)
               PROVE  engine.nfds <= MaxConnections - 1
    BY DEF LimitHolds
  <2>1. CASE Listening
    BY <2>1 DEF IInv, Counts
  <2>2. ASSUME NEW l \in Listeners, Reading(l), ~Listening
        PROVE  engine.nfds <= MaxConnections - 1
    <3>1. l # Sock /\ l \in engine.temp_rfds
      BY <2>2 DEF IInv, Deaf, Reading, Temps
    <3> QED
      BY <2>2, <3>1 DEF IInv, Deaf, Listeners
  <2> QED
    BY <2>1, <2>2
<1> QED
  BY <1>1, InvHolds, PTL

\* The descriptors that liso_select_engine closes are out of its sets, but for the
\* listeners, the pipes of a reset client and the misplaced ones.
THEOREM ClosedUnwatched == Spec => ClosedNotWatched
<1> DEFINE Closing == \A f \in Fds : kernel[f].kind # "free" /\ kernel'[f].kind = "free" =>
                        \/ f \notin Watched'
                        \/ f \in Listeners \/ Misplaced(f)
                        \/ \E c \in Clients : peer[c].end = "reset" /\ peer'[c] = Away
<1>1. IInv /\ [Next]_vars => [Closing]_vars
  <2> SUFFICES ASSUME IInv, [Next]_vars, NEW g \in Fds,
                      kernel[g].kind # "free", kernel'[g].kind = "free"
               PROVE  \/ g \notin Watched'
                      \/ g \in Listeners \/ Misplaced(g)
                      \/ \E c \in Clients : peer[c].end = "reset" /\ peer'[c] = Away
    OBVIOUS
  <2>0. Types /\ Slots /\ Types'
    BY StepTypes DEF IInv
  <2>1. StepKind
    BY <2>0, StepKinds
  <2>2. ~Quiet /\ ~(\E i \in Fds, s \in Slot : Edits(i, s))
    BY DEF Quiet, Edits
  <2>3. ASSUME NEW f \in Fds, NEW c \in Clients, NEW s \in Slot, Takes(f, c, s)
        PROVE  FALSE
    BY <2>0, <2>3, Objects DEF Takes, Types
  <2>4. ASSUME NEW L \in {Listeners, {Sock}}, Deafens(L) PROVE g \in Listeners
    BY <2>0, <2>4, ReleasedFacts DEF Deafens, Types, Listeners
  <2>5. ASSUME NEW i \in Fds, NEW p \in Fds, NEW q \in Fds, NEW s \in Slot, Opens(i, p, q, s)
        PROVE  FALSE
    <3> DEFINE ip == [kind |-> "stdin", of |-> i]
               iq == [kind |-> "stdout", of |-> i]
    <3>1. kernel'[g] = IF g = q THEN iq ELSE IF g = p THEN ip ELSE kernel[g]
      BY <2>0, <2>5 DEF Opens, Types
    <3>2. ip.kind = "stdin" /\ iq.kind = "stdout"
      OBVIOUS
    <3> HIDE DEF ip, iq
    <3> QED
      BY <3>1, <3>2
  <2>6. ASSUME NEW i \in Fds, NEW D \in SUBSET Fds, NEW R \in SUBSET Fds, NEW s \in Slot,
               Drops(i, D, R, s)
        PROVE  \/ g \notin Watched' \/ Misplaced(g)
               \/ \E c \in Clients : peer[c].end = "reset" /\ peer'[c] = Away
    <3>1. g \in R
      BY <2>0, <2>6, DroppedKinds
    <3> QED
      BY <2>6, <3>1 DEF Drops
  <2> QED
    BY <2>1, <2>2, <2>3, <2>4, <2>5, <2>6 DEF StepKind
<1> QED
  BY <1>1, InvHolds, PTL DEF Spec, ClosedNotWatched

-----------------------------------------------------------------------------
(* The server of static requests.  Without the CGI program and its pipes, and *)
(* without failing accepts, what the sets for select contain is exact, and a  *)
(* descriptor is what it was when select reported it: the conditions that the *)
(* counterexamples with pipes and closed listeners need are these two.        *)

StaticOnly == (\A r \in Requests : r.uri = "static") /\ AcceptErrors = FALSE

Conns == {f \in Fds : kernel[f].kind = "conn"}

\* The sets of the loop against the descriptors.
Sets ==
  /\ Listening /\ \A f \in Fds : kernel[f].kind \notin {"stdin", "stdout"}
  /\ engine.rfds \subseteq Conns \cup Listeners /\ Conns \subseteq engine.rfds
  /\ engine.wfds \subseteq Conns
  /\ \A f \in engine.rfds : f <= engine.fdmax
  /\ engine.temp_rfds \subseteq engine.rfds /\ engine.temp_wfds \subseteq engine.wfds
  /\ \A f \in Temps : kernel[f] = seen[f]

\* A client waits in one place of one backlog, or is behind one descriptor.
Places ==
  /\ \A l \in Listeners : \A n \in 1..Len(backlog[l]) : peer[backlog[l][n]].state = "queued"
  /\ \A l, m \in Listeners : \A n \in 1..Len(backlog[l]), k \in 1..Len(backlog[m]) :
       backlog[l][n] = backlog[m][k] => l = m /\ n = k
  /\ \A f \in Conns : peer[kernel[f].of].state = "in"
  /\ \A f, g \in Conns : kernel[f].of = kernel[g].of => f = g

\* A connection that is watched for writing has a request, which its client has
\* made and not yet seen answered.
Due(f) == /\ f \in engine.wfds <=> connections[f].status # 0
          /\ connections[f].status # 0 =>
               peer[kernel[f].of].waiting /\ peer[kernel[f].of].input = NoRequest

Answers ==
  /\ \A f \in Fds : connections[f].uri = "static"
  /\ \A f \in Conns : Due(f)
  /\ \A c \in Clients : peer[c].input # NoRequest => peer[c].waiting

\* A client that waits came to that listener, and a slot has a TLS context exactly
\* if its client came to ssl_sock.
Secured ==
  /\ \A l \in Listeners : \A n \in 1..Len(backlog[l]) : peer[backlog[l][n]].port = l
  /\ \A f \in Conns : connections[f].context <=> peer[kernel[f].of].port = SslSock

SInv == Sets /\ Places /\ Answers /\ Secured

-----------------------------------------------------------------------------
(* Its steps. *)

SameLoop == UNCHANGED <<kernel, engine, connections, seen>>

\* The sets after i has had its turn, with R and W to watch.
Goes(i, R, W) ==
  /\ engine'.rfds = R /\ engine'.wfds = W
  /\ engine'.temp_rfds = engine.temp_rfds \ {i} /\ engine'.temp_wfds \subseteq engine.temp_wfds
  /\ seen' = seen

Admits(i, f, c, s) ==
  /\ i \in Listeners /\ backlog[i] # <<>> /\ c = Head(backlog[i])
  /\ backlog' = [backlog EXCEPT ![i] = Tail(@)]
  /\ kernel[f].kind = "free" /\ s.status = 0 /\ s.uri = "static"
  /\ s.context <=> i = SslSock
  /\ connections' = [connections EXCEPT ![f] = s]
  /\ \/ /\ kernel' = [kernel EXCEPT ![f] = Conn(c)]
        /\ peer' = [peer EXCEPT ![c].state = "in"]
        /\ Goes(i, engine.rfds \cup {f}, engine.wfds)
        /\ engine'.fdmax = Max2(engine.fdmax, f)
     \/ /\ kernel' = kernel
        /\ peer' = [peer EXCEPT ![c] = Away]
        /\ Goes(i, engine.rfds, engine.wfds) /\ engine'.fdmax = engine.fdmax

\* A request is read, or input dropped, from the client behind i.
Reads(i, W, s) ==
  /\ kernel[i].kind = "conn" /\ s.uri = "static" /\ s.context = connections[i].context
  /\ \/ /\ peer[Client(i)].input # NoRequest /\ s.status # 0 /\ W = engine.wfds \cup {i}
     \/ s.status = connections[i].status /\ W = engine.wfds
  /\ connections' = [connections EXCEPT ![i] = s]
  /\ kernel' = kernel /\ backlog' = backlog
  /\ peer' = [peer EXCEPT ![Client(i)].input = NoRequest]
  /\ Goes(i, engine.rfds, W) /\ engine'.fdmax = engine.fdmax

\* A part of a response is written to i, or the last one.
Writes(i, W, s) ==
  /\ kernel[i].kind = "conn" /\ s.uri = "static" /\ i \in engine.temp_wfds
  /\ s.context = connections[i].context
  /\ engine'.temp_wfds = engine.temp_wfds \ {i}
  /\ \/ s.status = connections[i].status /\ W = engine.wfds /\ peer' = peer
     \/ s.status = 0 /\ W = engine.wfds \ {i} /\ peer' = Answered(Client(i))
  /\ connections' = [connections EXCEPT ![i] = s]
  /\ kernel' = kernel /\ backlog' = backlog
  /\ Goes(i, engine.rfds, W) /\ engine'.fdmax = engine.fdmax

\* A connection ends.
Leaves(i) ==
  /\ kernel[i].kind = "conn"
  /\ kernel' = Released({i}) /\ connections' = [connections EXCEPT ![i] = Cleaned]
  /\ peer' = [peer EXCEPT ![Client(i)] = Away] /\ backlog' = backlog
  /\ Goes(i, engine.rfds \ {i}, engine.wfds \ {i}) /\ engine'.fdmax = engine.fdmax
  /\ engine'.temp_wfds = engine.temp_wfds \ {i}

StaticKind ==
  \/ Environment
  \/ Select
  \/ SameLoop /\ UNCHANGED <<peer, backlog>>
  \/ \E i, f \in Fds, c \in Clients, s \in Slot : Admits(i, f, c, s)
  \/ \E i \in Fds, W \in SUBSET Fds, s \in Slot : Reads(i, W, s)
  \/ \E i \in Fds, W \in SUBSET Fds, s \in Slot : Writes(i, W, s)
  \/ \E i \in Fds : Leaves(i)

\* Without pipes the counter is the number of open descriptors.
LEMMA StaticCount ==
  ASSUME IInv, Sets
  PROVE  engine.nfds < MaxConnections /\ FreeFds # {} /\ engine.nfds \in Int
<1>1. Counted = OpenFds
  BY DEF Counted, Orphans, Sets
<1>2. engine.nfds = Cardinality(OpenFds) /\ engine.nfds <= MaxConnections - 1 /\ engine.nfds \in Int
  BY <1>1 DEF IInv, Counts, Sets, Types, EngineState
<1>3. engine.nfds < MaxConnections
  BY <1>2, FdFacts
<1>4. FreeFds # {}
  <2> SUFFICES ASSUME FreeFds = {} PROVE FALSE
    OBVIOUS
  <2>1. OpenFds = Fds
    BY DEF FreeFds, OpenFds
  <2> QED
    BY <1>2, <1>3, <2>1, FdFacts
<1> QED
  BY <1>2, <1>3, <1>4

\* Every descriptor that a pass comes to is a listener or a connection.
LEMMA StaticTurn ==
  ASSUME IInv, Sets, NEW i \in Fds, Reading(i) \/ Writing(i)
  PROVE  /\ i \in Listeners \/ IsConn(i)
         /\ Writing(i) => IsConn(i) /\ i \in engine.temp_wfds
         /\ IsConn(i) => i \notin Listeners
<1>1. i \in Temps
  BY TurnIs DEF IInv, Turn
<1>2. Writing(i) => i \in engine.temp_wfds
  BY <1>1 DEF Writing, Temps
<1>3. i \in Conns => IsConn(i)
  BY DEF IInv, Slots, SlotOf, IsConn, Conns
<1> QED
  BY <1>1, <1>2, <1>3 DEF Sets, Temps, IsConn, Listening

LEMMA StaticAcceptKind ==
  ASSUME IInv, SInv, NEW i \in Fds, Accept(i) PROVE StaticKind
<1>0. Types /\ engine \in EngineState
  BY DEF IInv, Types
<1> DEFINE c == Head(backlog[i])
           f == Lowest(1)[1]
           s == InitConnection(i = SslSock)
<1>1. c \in Clients /\ f \in Fds /\ kernel[f].kind = "free"
  <2>1. f \in FreeFds
    BY LowestOne DEF Accept
  <2> QED
    BY <1>0, <2>1, FreeFacts DEF Accept, Types
<1>2. s \in Slot /\ s.status = 0 /\ s.uri = "static" /\ (s.context <=> i = SslSock)
  BY SlotTypes DEF InitConnection
<1>3. /\ i \in Listeners /\ backlog[i] # <<>> /\ backlog' = [backlog EXCEPT ![i] = Tail(@)]
      /\ connections' = [connections EXCEPT ![f] = s] /\ seen' = seen
  BY DEF Accept
<1>4. CASE /\ engine' = ReadDone(AcceptFds(engine, f), i)
           /\ kernel' = [kernel EXCEPT ![f] = Conn(c)]
           /\ peer' = [peer EXCEPT ![c].state = "in"]
  <2> HIDE DEF f, s
  <2>1. Fields(engine, AcceptFds(engine, f), engine.rfds \cup {f}, engine.wfds,
               engine.nfds + 1, Max2(engine.fdmax, f))
    BY <1>0, <1>1, AcceptFields
  <2>2. Passed(AcceptFds(engine, f), engine', engine.temp_rfds \ {i}, engine.temp_wfds)
    BY <1>4, <2>1, DoneFields DEF Fields
  <2>3. Goes(i, engine.rfds \cup {f}, engine.wfds) /\ engine'.fdmax = Max2(engine.fdmax, f)
    BY <1>3, <2>1, <2>2 DEF Goes, Fields, Passed
  <2>4. Admits(i, f, c, s)
    BY <1>1, <1>2, <1>3, <1>4, <2>3 DEF Admits
  <2> HIDE DEF c
  <2> QED
    BY <1>1, <1>2, <2>4 DEF StaticKind
<1>5. CASE engine' = AllDone(engine, i) /\ kernel' = kernel /\ peer' = [peer EXCEPT ![c] = Away]
  <2> HIDE DEF f, s
  <2>1. Passed(engine, engine', engine.temp_rfds \ {i}, engine.temp_wfds \ {i})
    BY <1>0, <1>5, DoneFields
  <2>2. Goes(i, engine.rfds, engine.wfds) /\ engine'.fdmax = engine.fdmax
    BY <1>3, <2>1 DEF Goes, Passed
  <2>3. Admits(i, f, c, s)
    BY <1>1, <1>2, <1>3, <1>5, <2>2 DEF Admits
  <2> HIDE DEF c
  <2> QED
    BY <1>1, <1>2, <2>3 DEF StaticKind
<1> QED
  BY <1>4, <1>5 DEF Accept

\* A connection that ends is closed and no longer watched.
LEMMA StaticEndsKind ==
  ASSUME IInv, SInv, NEW i \in Fds, kernel[i].kind = "conn", NEW e \in EngineState, Ends(i, e, {i}),
         e.rfds = engine.rfds \ {i}, e.wfds = engine.wfds \ {i}, e.fdmax = engine.fdmax,
         e.temp_rfds = engine.temp_rfds, e.temp_wfds = engine.temp_wfds
  PROVE  StaticKind
<1>1. Passed(e, engine', e.temp_rfds \ {i}, e.temp_wfds \ {i})
  BY DoneFields DEF Ends
<1>2. Leaves(i)
  BY <1>1 DEF Leaves, Goes, Passed, Ends
<1> QED
  BY <1>2 DEF StaticKind

LEMMA StaticRecvKind ==
  ASSUME StaticOnly, IInv, SInv, Types', NEW i \in Fds, HandleRecv(i) PROVE StaticKind
<1>0. Types /\ Sets /\ Answers /\ engine \in EngineState /\ connections[i] \in Slot
  BY DEF IInv, SInv, Types
<1>1. CASE Accept(i)
  BY <1>1, StaticAcceptKind
<1>2. CASE AcceptFails(i)
  BY <1>0, <1>2, StaticCount DEF AcceptFails, StaticOnly, Sets, Listening
<1>3. CASE AcceptAtLimit(i)
  BY <1>0, <1>3, StaticCount DEF AcceptAtLimit, Sets, Listening, Listeners, StaticKind, SameLoop
<1>4. CASE RecvStatic(i)
  <2> DEFINE s == connections'[i]
             r == peer[Client(i)].input
             W == engine.wfds \cup {i}
  <2>0. kernel[i].kind = "conn" /\ r.uri = "static"
    BY <1>4 DEF RecvStatic, IsConn
  <2>1. connections' = [connections EXCEPT ![i] = s] /\ s \in Slot
    BY <1>4 DEF RecvStatic, Types
  <2>2. s.uri = "static" /\ s.status # 0 /\ s.context = connections[i].context
    <3> DEFINE st == IF r.ok THEN 200 ELSE 404
               s1 == [connections[i] EXCEPT !.uri = r.uri]
               s2 == [s1 EXCEPT !.status = st]
               s3 == [s2 EXCEPT !.close = r.close]
    <3>1. PICK n \in 1..MaxSends : connections' = [connections EXCEPT ![i] =
                                     [Parsed(connections[i], r) EXCEPT !.left = n]]
      BY <1>4 DEF RecvStatic
    <3>2. Parsed(connections[i], r) = s3
      BY DEF Parsed
    <3>3. s = [s3 EXCEPT !.left = n]
      BY <1>0, <3>1, <3>2 DEF Types
    <3> HIDE DEF r
    <3>4. /\ DOMAIN connections[i] = {"request", "context", "status", "uri", "close", "left",
                                     "stdin_pipe", "stdout_pipe"}
          /\ DOMAIN s1 = DOMAIN connections[i] /\ DOMAIN s2 = DOMAIN s1 /\ DOMAIN s3 = DOMAIN s2
      BY <1>0 DEF Slot
    <3>5. s1.uri = "static" /\ st # 0 /\ s1.context = connections[i].context
      BY <2>0, <3>4
    <3> HIDE DEF s1, st
    <3>6. s2.uri = "static" /\ s2.status # 0 /\ s2.context = connections[i].context
      BY <3>4, <3>5
    <3> HIDE DEF s2
    <3>7. s3.uri = "static" /\ s3.status # 0 /\ s3.context = connections[i].context
      BY <3>4, <3>6
    <3> HIDE DEF s3, s
    <3> QED
      BY <3>3, <3>7
  <2>3. r # NoRequest
    <3>1. NoRequest.uri = ""
      BY DEF NoRequest
    <3> HIDE DEF r
    <3> QED
      BY <2>0, <3>1
  <2>4. /\ kernel' = kernel /\ backlog' = backlog /\ engine'.fdmax = engine.fdmax
        /\ Goes(i, engine.rfds, W) /\ peer' = [peer EXCEPT ![Client(i)].input = NoRequest]
    <3> DEFINE d == ReadDone(engine, i)
    <3>1. Passed(engine, d, engine.temp_rfds \ {i}, engine.temp_wfds)
      BY <1>0, DoneFields
    <3>2. /\ engine' = [d EXCEPT !.wfds = @ \cup {i}] /\ kernel' = kernel /\ backlog' = backlog
          /\ seen' = seen /\ peer' = [peer EXCEPT ![Client(i)].input = NoRequest]
      BY <1>4 DEF RecvStatic
    <3> HIDE DEF d
    <3>3. Fields(d, engine', d.rfds, d.wfds \cup {i}, d.nfds, d.fdmax)
      <4>1. d \in EngineState /\ {i} \in SUBSET Fds
        BY <3>1 DEF Passed
      <4> QED
        BY <3>2, <4>1, WatchFields
    <3> QED
      BY <3>1, <3>2, <3>3 DEF Passed, Fields, Goes
  <2>5. W \in SUBSET Fds
    BY <1>0 DEF EngineState
  <2> HIDE DEF s
  <2>6. Reads(i, W, s)
    BY <2>0, <2>1, <2>2, <2>3, <2>4 DEF Reads
  <2> HIDE DEF W
  <2> QED
    BY <2>1, <2>5, <2>6 DEF StaticKind
<1>5. CASE RecvCgi(i)
  <2>1. kernel[i].kind = "conn" /\ peer[Client(i)].input.uri = "cgi"
    BY <1>5 DEF RecvCgi, IsConn
  <2>2. peer[Client(i)].input \in Requests
    BY <1>0, <2>1, InputTypes
  <2> QED
    BY <2>1, <2>2 DEF StaticOnly
<1>6. CASE RecvEnd(i)
  <2> DEFINE e == CloseAndCleanup(engine, connections[i], i)
  <2>0. kernel[i].kind = "conn" /\ Ends(i, e, {i})
    BY <1>6 DEF RecvEnd, IsConn
  <2>1. Fields(engine, e, engine.rfds \ {i}, engine.wfds \ {i}, engine.nfds - 1, engine.fdmax)
    <3>1. connections[i].uri # "cgi"
      BY <1>0 DEF Answers
    <3> QED
      BY <1>0, <3>1, CloseFields
  <2> HIDE DEF e
  <2> QED
    BY <2>0, <2>1, StaticEndsKind DEF Fields
<1>7. CASE RecvIgnored(i)
  <2>1. Passed(engine, engine', engine.temp_rfds \ {i}, engine.temp_wfds)
    BY <1>0, <1>7, DoneFields DEF RecvIgnored
  <2>2. Reads(i, engine.wfds, connections[i])
    BY <1>0, <1>7, <2>1 DEF RecvIgnored, IsConn, Reads, Goes, Passed, Answers, Types
  <2>3. engine.wfds \in SUBSET Fds
    BY <1>0 DEF EngineState
  <2> QED
    BY <1>0, <2>2, <2>3 DEF StaticKind
<1>8. CASE RecvStale(i)
  BY <1>0, <1>8, StaticTurn DEF RecvStale
<1> QED
  BY <1>1, <1>2, <1>3, <1>4, <1>5, <1>6, <1>7, <1>8 DEF HandleRecv

LEMMA StaticSendKind ==
  ASSUME IInv, SInv, Types', NEW i \in Fds, HandleSend(i) PROVE StaticKind
<1>0. Types /\ Sets /\ Answers /\ engine \in EngineState /\ connections[i] \in Slot
  BY DEF IInv, SInv, Types
<1>1. CASE SendStatic(i)
  <2> DEFINE s == connections'[i]
  <2>0. kernel[i].kind = "conn" /\ i \in engine.temp_wfds /\ connections[i].uri = "static"
    BY <1>0, <1>1, StaticTurn DEF SendStatic, IsConn
  <2>1. CASE connections[i].left > 1
    <3>1. connections' = [connections EXCEPT ![i] = s] /\ s \in Slot
      BY <1>1, <2>1 DEF SendStatic, Types
    <3>2. /\ s.uri = "static" /\ s.status = connections[i].status
          /\ s.context = connections[i].context
      BY <1>0, <1>1, <2>0, <2>1 DEF SendStatic, Types, Slot
    <3>3. Passed(engine, engine', engine.temp_rfds \ {i}, engine.temp_wfds \ {i})
      BY <1>0, <1>1, <2>1, DoneFields DEF SendStatic
    <3>4. UNCHANGED <<peer, backlog, kernel, seen>>
      BY <1>1, <2>1 DEF SendStatic
    <3> HIDE DEF s
    <3>5. Writes(i, engine.wfds, s)
      BY <2>0, <3>1, <3>2, <3>3, <3>4 DEF Writes, Goes, Passed
    <3>6. engine.wfds \in SUBSET Fds
      BY <1>0 DEF EngineState
    <3> QED
      BY <3>1, <3>5, <3>6 DEF StaticKind
  <2>2. CASE ~(connections[i].left > 1) /\ connections[i].close
    <3> DEFINE e == CloseAndCleanup(engine, connections[i], i)
    <3>1. Fields(engine, e, engine.rfds \ {i}, engine.wfds \ {i}, engine.nfds - 1, engine.fdmax)
      <4>1. connections[i].uri # "cgi"
        BY <2>0
      <4> QED
        BY <1>0, <4>1, CloseFields
    <3>2. Ends(i, e, {i})
      BY <1>1, <2>2 DEF SendStatic
    <3> HIDE DEF e
    <3> QED
      BY <2>0, <3>1, <3>2, StaticEndsKind DEF Fields
  <2>3. CASE ~(connections[i].left > 1) /\ ~connections[i].close
    <3>1. connections' = [connections EXCEPT ![i] = s] /\ s \in Slot
      BY <1>1, <2>3 DEF SendStatic, Types
    <3>2. s.uri = "static" /\ s.status = 0 /\ s.context = connections[i].context
      <4>1. s = InitConnection(connections[i].context)
        BY <1>0, <1>1, <2>3 DEF SendStatic, Types, GetReady
      <4> QED
        BY <4>1 DEF InitConnection
    <3> DEFINE d == AllDone(engine, i)
               W == engine.wfds \ {i}
    <3>3. Passed(engine, d, engine.temp_rfds \ {i}, engine.temp_wfds \ {i})
      BY <1>0, DoneFields
    <3>4. /\ engine' = [d EXCEPT !.wfds = @ \ {i}] /\ peer' = Answered(Client(i))
          /\ UNCHANGED <<backlog, kernel, seen>>
      BY <1>1, <2>3 DEF SendStatic
    <3> HIDE DEF d, s
    <3>5. Fields(d, engine', d.rfds, d.wfds \ {i}, d.nfds, d.fdmax)
      BY <3>3, <3>4, UnwatchFields DEF Passed
    <3>6. Writes(i, W, s)
      BY <2>0, <3>1, <3>2, <3>3, <3>4, <3>5 DEF Writes, Goes, Passed, Fields
    <3>7. W \in SUBSET Fds
      BY <1>0 DEF EngineState
    <3> HIDE DEF W
    <3> QED
      BY <3>1, <3>6, <3>7 DEF StaticKind
  <2> QED
    BY <2>1, <2>2, <2>3
<1>2. CASE SendStaticFails(i)
  <2> DEFINE R == {i}
             e == Without(engine, R, R, 1)
  <2>0. kernel[i].kind = "conn" /\ Ends(i, e, R)
    BY <1>2 DEF SendStaticFails, IsConn, Without
  <2>1. Fields(engine, e, engine.rfds \ R, engine.wfds \ R, engine.nfds - 1, engine.fdmax)
    <3> HIDE DEF R
    <3>1. 1 \in Int
      OBVIOUS
    <3> QED
      BY <1>0, <3>1, WithoutFields, Zenon
  <2> HIDE DEF e
  <2> QED
    BY <2>0, <2>1, StaticEndsKind DEF Fields
<1>3. CASE CgiSend(i) \/ CgiFinish(i) \/ CgiSendFails(i)
  BY <1>0, <1>3 DEF CgiSend, CgiFinish, CgiSendFails, CgiReady, Answers
<1>4. CASE SendStale(i)
  BY <1>0, <1>4, StaticTurn DEF SendStale
<1> QED
  BY <1>1, <1>2, <1>3, <1>4 DEF HandleSend

LEMMA StaticKinds ==
  ASSUME StaticOnly, IInv, SInv, Types', [Next]_vars PROVE StaticKind
<1>1. ASSUME NEW i \in Fds, HandleRecv(i) \/ HandleSend(i) PROVE StaticKind
  BY <1>1, StaticRecvKind, StaticSendKind
<1>2. CASE SelectFails \/ UNCHANGED vars
  BY <1>2 DEF SelectFails, vars, StaticKind, SameLoop
<1> QED
  BY <1>1, <1>2 DEF Next, Server, StaticKind

-----------------------------------------------------------------------------
(* It is an invariant. *)

LEMMA EnvironmentLeaves ==
  Environment => SameLoop
  BY DEF Environment, SameLoop, Connect, Ask, Leave, ChildWrites, ChildExits

LEMMA SetsStep ==
  ASSUME IInv, SInv, Types', StaticKind PROVE Sets'
<1>0. /\ Types /\ Sets /\ engine \in EngineState /\ engine' \in EngineState /\ Fds \subseteq Nat
      /\ Listeners \subseteq Fds /\ kernel \in [Fds -> Object]
  BY FdFacts DEF IInv, SInv, Types
<1>1. CASE SameLoop
  BY <1>0, <1>1 DEF SameLoop, Sets, Listening, Conns, Temps
<1>2. CASE Select
  <2>1. /\ engine'.rfds = engine.rfds /\ engine'.wfds = engine.wfds /\ engine'.fdmax = engine.fdmax
        /\ engine'.temp_rfds \subseteq engine.rfds /\ engine'.temp_wfds \subseteq engine.wfds
        /\ kernel' = kernel /\ seen' = kernel
    BY <1>0, <1>2 DEF Select, EngineState
  <2> QED
    BY <1>0, <2>1 DEF Sets, Listening, Conns, Temps
<1>3. ASSUME NEW i \in Fds, NEW f \in Fds, NEW c \in Clients, NEW s \in Slot, Admits(i, f, c, s)
      PROVE  Sets'
  <2>1. CASE kernel' = kernel /\ Goes(i, engine.rfds, engine.wfds) /\ engine'.fdmax = engine.fdmax
    BY <1>0, <2>1 DEF Goes, Sets, Listening, Conns, Temps
  <2>2. CASE /\ kernel' = [kernel EXCEPT ![f] = Conn(c)]
             /\ Goes(i, engine.rfds \cup {f}, engine.wfds)
             /\ engine'.fdmax = Max2(engine.fdmax, f)
    <3>1. \A h \in Fds : kernel'[h] = IF h = f THEN Conn(c) ELSE kernel[h]
      BY <1>0, <2>2
    <3>2. kernel[f].kind = "free"
      BY <1>3 DEF Admits
    <3>3. Conns' = Conns \cup {f} /\ f \notin Conns /\ f \notin Listeners
      <4>1. f \notin Conns /\ f \notin Listeners
        BY <1>0, <3>2 DEF Conns, Sets, Listening
      <4>2. Conn(c).kind = "conn"
        BY Objects
      <4>3. \A h \in Fds : h \in Conns' <=> h = f \/ h \in Conns
        BY <3>1, <4>2 DEF Conns
      <4> QED
        BY <4>1, <4>3 DEF Conns
    <3>4. Listening' /\ \A h \in Fds : kernel'[h].kind \notin {"stdin", "stdout"}
      BY <1>0, <3>1, <3>3, Objects DEF Sets, Listening
    <3>5. /\ engine'.rfds = engine.rfds \cup {f} /\ engine'.wfds = engine.wfds
          /\ engine'.temp_rfds \subseteq engine.temp_rfds
          /\ engine'.temp_wfds \subseteq engine.temp_wfds /\ seen' = seen
      BY <2>2 DEF Goes
    <3>6. \A h \in engine'.rfds : h <= engine'.fdmax
      <4>1. /\ engine.fdmax \in Nat /\ engine.rfds \subseteq Nat /\ f \in Nat
            /\ \A h \in engine.rfds : h <= engine.fdmax
        BY <1>0 DEF EngineState, Sets
      <4> QED
        BY <2>2, <3>5, <4>1 DEF Max2
    <3>7. \A h \in Temps' : h \in Temps /\ h # f /\ h \in Fds
      BY <1>0, <3>3, <3>5 DEF Temps, Sets, EngineState
    <3>8. \A h \in Temps' : kernel'[h] = seen'[h]
      BY <1>0, <3>1, <3>5, <3>7 DEF Sets
    <3>9. /\ engine'.rfds \subseteq Conns' \cup Listeners /\ Conns' \subseteq engine'.rfds
          /\ engine'.wfds \subseteq Conns'
          /\ engine'.temp_rfds \subseteq engine'.rfds /\ engine'.temp_wfds \subseteq engine'.wfds
      BY <1>0, <3>3, <3>5 DEF Sets
    <3> QED
      BY <3>4, <3>6, <3>8, <3>9 DEF Sets
  <2> QED
    BY <1>3, <2>1, <2>2 DEF Admits
<1>4. ASSUME NEW i \in Fds, NEW W \in SUBSET Fds, NEW s \in Slot, Reads(i, W, s) PROVE Sets'
  <2>1. /\ kernel' = kernel /\ Goes(i, engine.rfds, W) /\ engine'.fdmax = engine.fdmax
        /\ i \in Conns /\ W \subseteq engine.wfds \cup {i} /\ engine.wfds \subseteq W
    BY <1>4 DEF Reads, Conns
  <2> QED
    BY <1>0, <2>1 DEF Goes, Sets, Listening, Conns, Temps
<1>5. ASSUME NEW i \in Fds, NEW W \in SUBSET Fds, NEW s \in Slot, Writes(i, W, s) PROVE Sets'
  <2>1. /\ kernel' = kernel /\ Goes(i, engine.rfds, W) /\ engine'.fdmax = engine.fdmax
        /\ engine'.temp_wfds = engine.temp_wfds \ {i}
        /\ W \subseteq engine.wfds /\ engine.wfds \ {i} \subseteq W
    BY <1>5 DEF Writes
  <2> QED
    BY <1>0, <2>1 DEF Goes, Sets, Listening, Conns, Temps
<1>6. ASSUME NEW i \in Fds, Leaves(i) PROVE Sets'
  <2>1. \A h \in Fds : kernel'[h] = IF h \in {i} THEN Free ELSE kernel[h]
    BY <1>0, <1>6, ReleasedFacts DEF Leaves
  <2>2. kernel[i].kind = "conn" /\ i \notin Listeners
    BY <1>0, <1>6 DEF Leaves, Sets, Listening
  <2>3. Conns' = Conns \ {i}
    BY <2>1, Objects DEF Conns
  <2>4. Listening' /\ \A h \in Fds : kernel'[h].kind \notin {"stdin", "stdout"}
    BY <1>0, <2>1, <2>2, Objects DEF Sets, Listening
  <2>5. /\ engine'.rfds = engine.rfds \ {i} /\ engine'.wfds = engine.wfds \ {i}
        /\ engine'.temp_rfds = engine.temp_rfds \ {i} /\ engine'.temp_wfds = engine.temp_wfds \ {i}
        /\ seen' = seen /\ engine'.fdmax = engine.fdmax
    BY <1>6 DEF Leaves, Goes
  <2>6. \A h \in Temps' : h \in Temps /\ h # i /\ h \in Fds
    BY <1>0, <2>5 DEF Temps, EngineState
  <2>7. \A h \in Temps' : kernel'[h] = seen'[h]
    BY <1>0, <2>1, <2>5, <2>6 DEF Sets
  <2>8. /\ engine'.rfds \subseteq Conns' \cup Listeners /\ Conns' \subseteq engine'.rfds
        /\ engine'.wfds \subseteq Conns'
        /\ engine'.temp_rfds \subseteq engine'.rfds /\ engine'.temp_wfds \subseteq engine'.wfds
    BY <1>0, <2>3, <2>5 DEF Sets
  <2>9. \A h \in engine'.rfds : h <= engine'.fdmax
    BY <1>0, <2>5 DEF Sets
  <2> QED
    BY <2>4, <2>7, <2>8, <2>9 DEF Sets
<1> QED
  BY <1>1, <1>2, <1>3, <1>4, <1>5, <1>6, EnvironmentLeaves DEF StaticKind

\* Steps that neither move a client nor a descriptor.
LEMMA PlacesKept ==
  ASSUME Types, Places, kernel' = kernel, backlog' = backlog,
         \A c \in Clients : peer'[c].state = peer[c].state
  PROVE  Places'
<1>1. \A f \in Conns : kernel[f].of \in Clients
  BY Kinds DEF Types, Conns
<1>2. \A l \in Listeners : \A n \in 1..Len(backlog[l]) : backlog[l][n] \in Clients
  BY DEF Types
<1>3. Conns' = Conns
  BY DEF Conns
<1> QED
  BY <1>1, <1>2, <1>3 DEF Places

LEMMA TypedPlaces ==
  ASSUME Types
  PROVE  /\ \A f \in Conns : kernel[f].of \in Clients /\ f \in Fds
         /\ \A l \in Listeners : /\ backlog[l] \in Seq(Clients) /\ Len(backlog[l]) \in Nat
                                 /\ \A n \in 1..Len(backlog[l]) : backlog[l][n] \in Clients
  BY Kinds DEF Types, Conns

LEMMA EnvironmentPlaces ==
  ASSUME Types, Types', Places, Environment PROVE Places'
<1>0. kernel' = kernel
  BY EnvironmentLeaves DEF SameLoop
<1>1. ASSUME NEW c \in Clients, NEW l \in Ports, NEW h \in Hellos, Connect(c, l, h) PROVE Places'
  <2>0. l \in Listeners /\ peer[c].state = "away" /\ Conns' = Conns
    BY <1>0, <1>1, EngineAssumption DEF Connect, Conns
  <2>1. \A d \in Clients : peer'[d].state = IF d = c THEN "queued" ELSE peer[d].state
    BY <1>1 DEF Connect, Types, Peer
  <2>2. backlog' = [backlog EXCEPT ![l] = Append(backlog[l], c)]
    BY <1>1 DEF Connect
  <2>3. /\ \A m \in Listeners : m # l => backlog'[m] = backlog[m]
        /\ Len(backlog'[l]) = Len(backlog[l]) + 1
        /\ \A n \in 1..Len(backlog[l]) : backlog'[l][n] = backlog[l][n]
        /\ backlog'[l][Len(backlog[l]) + 1] = c
    <3>1. backlog'[l] = Append(backlog[l], c) /\ backlog[l] \in Seq(Clients)
      BY <2>0, <2>2 DEF Types
    <3> QED
      BY <2>0, <2>2, <3>1 DEF Types
  <2>4. \A m \in Listeners : \A n \in 1..Len(backlog'[m]) :
          \/ n \in 1..Len(backlog[m]) /\ backlog'[m][n] = backlog[m][n]
          \/ m = l /\ n = Len(backlog[l]) + 1 /\ backlog'[m][n] = c
    BY <2>3, TypedPlaces
  <2>5. \A m \in Listeners : \A n \in 1..Len(backlog[m]) :
          backlog[m][n] # c /\ backlog[m][n] \in Clients
    BY <2>0, TypedPlaces DEF Places
  <2>6. \A f \in Conns : kernel[f].of # c /\ kernel[f].of \in Clients
    BY <2>0, TypedPlaces DEF Places
  <2>7. \A m \in Listeners : \A n \in 1..Len(backlog'[m]) : peer'[backlog'[m][n]].state = "queued"
    BY <2>1, <2>4, <2>5 DEF Places
  <2>8. \A m, k \in Listeners : \A n \in 1..Len(backlog'[m]), j \in 1..Len(backlog'[k]) :
          backlog'[m][n] = backlog'[k][j] => m = k /\ n = j
    BY <2>4, <2>5 DEF Places
  <2>9. \A f \in Conns' : peer'[kernel'[f].of].state = "in"
    BY <1>0, <2>0, <2>1, <2>6 DEF Places
  <2>10. \A f, g \in Conns' : kernel'[f].of = kernel'[g].of => f = g
    BY <1>0, <2>0 DEF Places
  <2> QED
    BY <2>7, <2>8, <2>9, <2>10 DEF Places
<1>2. ASSUME NEW c \in Clients, NEW r \in Requests, Ask(c, r) PROVE Places'
  <2>1. \A d \in Clients : peer'[d].state = peer[d].state
    BY <1>2 DEF Ask, Types, Peer
  <2> QED
    BY <1>0, <1>2, <2>1, PlacesKept DEF Ask
<1>3. ASSUME NEW c \in Clients, NEW how \in Departures, Leave(c, how) PROVE Places'
  <2>1. \A d \in Clients : peer'[d].state = peer[d].state
    BY <1>3 DEF Leave, Types, Peer
  <2> QED
    BY <1>0, <1>3, <2>1, PlacesKept DEF Leave
<1>4. ASSUME NEW f \in Fds, ChildWrites(f) \/ ChildExits(f) PROVE Places'
  BY <1>0, <1>4, PlacesKept DEF ChildWrites, ChildExits
<1> QED
  BY <1>1, <1>2, <1>3, <1>4 DEF Environment

LEMMA PlacesStep ==
  ASSUME IInv, SInv, Types', StaticKind PROVE Places'
<1>0. Types /\ Places /\ Sets
  BY DEF IInv, SInv
<1>1. CASE Environment
  BY <1>0, <1>1, EnvironmentPlaces
<1>2. CASE Select \/ (SameLoop /\ UNCHANGED <<peer, backlog>>)
  BY <1>0, <1>2, PlacesKept DEF Select, SameLoop
<1>3. ASSUME NEW i \in Fds, NEW f \in Fds, NEW c \in Clients, NEW s \in Slot, Admits(i, f, c, s)
      PROVE  Places'
  <2>0. i \in Listeners /\ backlog[i] # <<>> /\ c = Head(backlog[i]) /\ backlog[i] \in Seq(Clients)
    BY <1>0, <1>3, TypedPlaces DEF Admits
  <2>1. Len(backlog[i]) \in Nat /\ Len(backlog[i]) >= 1 /\ c = backlog[i][1]
    BY <2>0
  <2>2. \A m \in Listeners : \A n \in 1..Len(backlog'[m]) :
          \E k \in 1..Len(backlog[m]) : /\ backlog'[m][n] = backlog[m][k]
                                      /\ k = IF m = i THEN n + 1 ELSE n
    <3>1. backlog'[i] = Tail(backlog[i]) /\ \A m \in Listeners : m # i => backlog'[m] = backlog[m]
      BY <1>0, <1>3, <2>0 DEF Admits, Types
    <3>2. \A n \in 1..Len(Tail(backlog[i])) :
            n + 1 \in 1..Len(backlog[i]) /\ Tail(backlog[i])[n] = backlog[i][n + 1]
      BY <2>0, <2>1
    <3> QED
      BY <3>1, <3>2
  <2>3. \A m \in Listeners : \A n \in 1..Len(backlog'[m]) :
          backlog'[m][n] # c /\ backlog'[m][n] \in Clients /\ peer[backlog'[m][n]].state = "queued"
    <3> TAKE m \in Listeners
    <3> TAKE n \in 1..Len(backlog'[m])
    <3>1. PICK k \in 1..Len(backlog[m]) : /\ backlog'[m][n] = backlog[m][k]
                                        /\ k = IF m = i THEN n + 1 ELSE n
      BY <2>2
    <3>2. m = i => k # 1
      BY <3>1, TypedPlaces
    <3>3. backlog[m][k] # backlog[i][1]
      BY <1>0, <2>0, <2>1, <3>2 DEF Places
    <3> QED
      BY <1>0, <2>1, <3>1, <3>3, TypedPlaces DEF Places
  <2>4. \A d \in Clients : d # c => peer'[d].state = peer[d].state
    BY <1>0, <1>3 DEF Admits, Types, Peer
  <2>5. \A m \in Listeners : \A n \in 1..Len(backlog'[m]) : peer'[backlog'[m][n]].state = "queued"
    BY <2>3, <2>4
  <2>6. \A m, k \in Listeners : \A n \in 1..Len(backlog'[m]), j \in 1..Len(backlog'[k]) :
          backlog'[m][n] = backlog'[k][j] => m = k /\ n = j
    <3> TAKE m, k \in Listeners
    <3> TAKE n \in 1..Len(backlog'[m]), j \in 1..Len(backlog'[k])
    <3> SUFFICES ASSUME backlog'[m][n] = backlog'[k][j] PROVE m = k /\ n = j
      OBVIOUS
    <3>1. PICK x \in 1..Len(backlog[m]) : /\ backlog'[m][n] = backlog[m][x]
                                        /\ x = IF m = i THEN n + 1 ELSE n
      BY <2>2
    <3>2. PICK y \in 1..Len(backlog[k]) : /\ backlog'[k][j] = backlog[k][y]
                                        /\ y = IF k = i THEN j + 1 ELSE j
      BY <2>2
    <3>3. backlog[m][x] = backlog[k][y]
      BY <3>1, <3>2
    <3>4. m = k /\ x = y
      BY <1>0, <3>3 DEF Places
    <3> QED
      BY <3>1, <3>2, <3>4
  <2>7. peer[c].state = "queued"
    <3>1. 1 \in 1..Len(backlog[i])
      BY <2>1
    <3> QED
      BY <1>0, <2>0, <2>1, <3>1 DEF Places
  <2>8. \A g \in Conns : kernel[g].of # c /\ kernel[g].of \in Clients
    BY <1>0, <2>7, TypedPlaces DEF Places
  <2>9. CASE kernel' = kernel
    <3>1. Conns' = Conns
      BY <2>9 DEF Conns
    <3>2. \A g \in Conns' : peer'[kernel'[g].of].state = "in"
      BY <1>0, <2>4, <2>8, <2>9, <3>1 DEF Places
    <3>3. \A g, h \in Conns' : kernel'[g].of = kernel'[h].of => g = h
      BY <1>0, <2>9, <3>1 DEF Places
    <3> QED
      BY <2>5, <2>6, <3>2, <3>3 DEF Places
  <2>10. CASE /\ kernel' = [kernel EXCEPT ![f] = Conn(c)]
              /\ peer' = [peer EXCEPT ![c].state = "in"]
    <3>1. \A h \in Fds : kernel'[h] = IF h = f THEN Conn(c) ELSE kernel[h]
      BY <1>0, <2>10 DEF Types
    <3>2. \A g \in Conns' : g = f \/ (g \in Conns /\ g # f)
      BY <3>1 DEF Conns
    <3>3. Conn(c).of = c
      BY Objects
    <3>4. peer'[c].state = "in"
      BY <1>0, <2>10 DEF Types, Peer
    <3>5. \A g \in Conns' : peer'[kernel'[g].of].state = "in"
      <4> TAKE g \in Conns'
      <4>1. CASE g = f
        BY <3>1, <3>3, <3>4, <4>1
      <4>2. CASE g \in Conns /\ g # f
        <5>1. kernel'[g] = kernel[g] /\ kernel[g].of # c /\ kernel[g].of \in Clients
          BY <2>8, <3>1, <4>2 DEF Conns
        <5> QED
          BY <1>0, <2>4, <4>2, <5>1 DEF Places
      <4> QED
        BY <3>2, <4>1, <4>2
    <3>6. \A g \in Conns' : kernel'[g].of = IF g = f THEN c ELSE kernel[g].of
      BY <3>1, <3>3 DEF Conns
    <3>7. \A g, h \in Conns' : kernel'[g].of = kernel'[h].of => g = h
      BY <1>0, <2>8, <3>2, <3>6 DEF Places
    <3> QED
      BY <2>5, <2>6, <3>5, <3>7 DEF Places
  <2> QED
    BY <1>3, <2>9, <2>10 DEF Admits
<1>4. ASSUME NEW i \in Fds, NEW W \in SUBSET Fds, NEW s \in Slot, Reads(i, W, s) PROVE Places'
  <2>1. \A d \in Clients : peer'[d].state = peer[d].state
    BY <1>0, <1>4 DEF Reads, Types, Peer
  <2> QED
    BY <1>0, <1>4, <2>1, PlacesKept DEF Reads
<1>5. ASSUME NEW i \in Fds, NEW W \in SUBSET Fds, NEW s \in Slot, Writes(i, W, s) PROVE Places'
  <2>1. \A d \in Clients : peer'[d].state = peer[d].state
    <3>1. \A p \in Peer : [p EXCEPT !.waiting = FALSE].state = p.state
      BY DEF Peer
    <3>2. peer' = peer \/ peer' = Answered(Client(i))
      BY <1>5 DEF Writes
    <3> QED
      BY <1>0, <3>1, <3>2 DEF Answered, Types
  <2> QED
    BY <1>0, <1>5, <2>1, PlacesKept DEF Writes
<1>6. ASSUME NEW i \in Fds, Leaves(i) PROVE Places'
  <2>0. i \in Conns /\ Client(i) = kernel[i].of /\ peer[Client(i)].state = "in"
    BY <1>0, <1>6 DEF Leaves, Conns, Client, Places
  <2>1. \A h \in Fds : kernel'[h] = IF h \in {i} THEN Free ELSE kernel[h]
    BY <1>0, <1>6, ReleasedFacts DEF Leaves, Types
  <2>2. \A g \in Conns' : g \in Conns /\ g # i /\ kernel'[g] = kernel[g]
    BY <2>1, Objects DEF Conns
  <2>3. \A d \in Clients : d # Client(i) => peer'[d].state = peer[d].state
    BY <1>0, <1>6 DEF Leaves, Types, Peer
  <2>4. backlog' = backlog
    BY <1>6 DEF Leaves
  <2>5. \A m \in Listeners : \A n \in 1..Len(backlog[m]) :
          backlog[m][n] # Client(i) /\ backlog[m][n] \in Clients /\ peer[backlog[m][n]].state = "queued"
    BY <1>0, <2>0, TypedPlaces DEF Places
  <2>6. \A m \in Listeners : \A n \in 1..Len(backlog'[m]) : peer'[backlog'[m][n]].state = "queued"
    BY <2>3, <2>4, <2>5
  <2>7. \A g \in Conns' : peer'[kernel'[g].of].state = "in"
    <3> TAKE g \in Conns'
    <3>1. g \in Conns /\ kernel'[g] = kernel[g] /\ kernel[g].of # Client(i) /\ kernel[g].of \in Clients
      BY <1>0, <2>0, <2>2, TypedPlaces DEF Places
    <3> QED
      BY <1>0, <2>3, <3>1 DEF Places
  <2>8. \A g, h \in Conns' : kernel'[g].of = kernel'[h].of => g = h
    BY <1>0, <2>2 DEF Places
  <2>9. \A m, k \in Listeners : \A n \in 1..Len(backlog'[m]), j \in 1..Len(backlog'[k]) :
          backlog'[m][n] = backlog'[k][j] => m = k /\ n = j
    BY <1>0, <2>4 DEF Places
  <2> QED
    BY <2>6, <2>7, <2>8, <2>9 DEF Places
<1> QED
  BY <1>1, <1>2, <1>3, <1>4, <1>5, <1>6 DEF StaticKind

SameTalk(c) == peer'[c].waiting = peer[c].waiting /\ peer'[c].input = peer[c].input
StartsWaiting(c) == ~peer[c].waiting /\ peer'[c].waiting

\* Steps that leave what is due as it is, or make a client wait that has nothing due.
LEMMA AnswersKept ==
  ASSUME Types, Answers, UNCHANGED <<kernel, connections>>, engine'.wfds = engine.wfds,
         \A c \in Clients : SameTalk(c) \/ StartsWaiting(c)
  PROVE  Answers'
<1>1. \A f \in Conns : kernel[f].of \in Clients
  BY Kinds DEF Types, Conns
<1>2. Conns' = Conns
  BY DEF Conns
<1>3. \A f \in Conns : Due(f)'
  <2> TAKE f \in Conns
  <2>1. Due(f) /\ kernel[f].of \in Clients
    BY <1>1 DEF Answers
  <2> QED
    BY <2>1 DEF Due, SameTalk, StartsWaiting
<1> QED
  BY <1>2, <1>3 DEF Answers, SameTalk, StartsWaiting

LEMMA EnvironmentAnswers ==
  ASSUME Types, Answers, Environment PROVE Answers'
<1>0. UNCHANGED <<kernel, engine, connections>>
  BY EnvironmentLeaves DEF SameLoop
<1>1. \A c \in Clients : SameTalk(c) \/ StartsWaiting(c)
  <2>1. ASSUME NEW c \in Clients, NEW l \in Ports, NEW h \in Hellos, Connect(c, l, h)
        PROVE  \A d \in Clients : SameTalk(d)
    BY <2>1 DEF Connect, Types, Peer, SameTalk
  <2>2. ASSUME NEW c \in Clients, NEW r \in Requests, Ask(c, r)
        PROVE  \A d \in Clients : SameTalk(d) \/ StartsWaiting(d)
    <3>1. StartsWaiting(c)
      BY <2>2 DEF Ask, Types, Peer, StartsWaiting
    <3>2. \A d \in Clients : d # c => peer'[d] = peer[d]
      BY <2>2 DEF Ask, Types
    <3> QED
      BY <3>1, <3>2 DEF SameTalk
  <2>3. ASSUME NEW c \in Clients, NEW how \in Departures, Leave(c, how)
        PROVE  \A d \in Clients : SameTalk(d)
    BY <2>3 DEF Leave, Types, Peer, SameTalk
  <2>4. ASSUME NEW f \in Fds, ChildWrites(f) \/ ChildExits(f) PROVE peer' = peer
    BY <2>4 DEF ChildWrites, ChildExits
  <2> QED
    BY <2>1, <2>2, <2>3, <2>4 DEF Environment, SameTalk
<1> QED
  BY <1>0, <1>1, AnswersKept

\* What is due of a connection that a step does not concern.
LEMMA DueKept ==
  ASSUME NEW g \in Fds, Due(g), connections'[g] = connections[g], kernel'[g] = kernel[g],
         g \in engine'.wfds <=> g \in engine.wfds, peer'[kernel[g].of] = peer[kernel[g].of]
  PROVE  Due(g)'
  BY DEF Due

LEMMA AnswersStep ==
  ASSUME IInv, SInv, Types', StaticKind PROVE Answers'
<1>0. Types /\ Places /\ Sets /\ Answers
  BY DEF IInv, SInv
<1>1. CASE Environment
  BY <1>0, <1>1, EnvironmentAnswers
<1>2. CASE Select \/ (SameLoop /\ UNCHANGED <<peer, backlog>>)
  <2>1. UNCHANGED <<kernel, connections, peer>> /\ engine'.wfds = engine.wfds
    BY <1>0, <1>2 DEF Select, SameLoop, Types, EngineState
  <2> QED
    BY <1>0, <2>1, AnswersKept DEF SameTalk
<1>3. ASSUME NEW i \in Fds, NEW f \in Fds, NEW c \in Clients, NEW s \in Slot, Admits(i, f, c, s)
      PROVE  Answers'
  <2>0. kernel[f].kind = "free" /\ s.status = 0 /\ s.uri = "static" /\ engine'.wfds = engine.wfds
    BY <1>3 DEF Admits, Goes
  <2>1. \A g \in Fds : connections'[g] = IF g = f THEN s ELSE connections[g]
    BY <1>0, <1>3 DEF Admits, Types
  <2>2. peer[c].state = "queued"
    <3>1. i \in Listeners /\ backlog[i] # <<>> /\ c = Head(backlog[i]) /\ backlog[i] \in Seq(Clients)
      BY <1>0, <1>3, TypedPlaces DEF Admits
    <3>2. 1 \in 1..Len(backlog[i]) /\ c = backlog[i][1]
      BY <3>1
    <3> QED
      BY <1>0, <3>1, <3>2 DEF Places
  <2>3. \A g \in Conns : kernel[g].of # c /\ kernel[g].of \in Clients /\ g # f /\ g \in Fds
    BY <1>0, <2>0, <2>2, TypedPlaces DEF Places, Conns
  <2>4. \A d \in Clients : d # c => peer'[d] = peer[d]
    BY <1>0, <1>3 DEF Admits, Types
  <2>5. peer'[c].input # NoRequest => peer'[c].waiting
    <3>1. CASE peer' = [peer EXCEPT ![c].state = "in"]
      BY <1>0, <3>1 DEF Types, Peer, Answers
    <3>2. CASE peer' = [peer EXCEPT ![c] = Away]
      BY <1>0, <3>2 DEF Types, Away
    <3> QED
      BY <1>3, <3>1, <3>2 DEF Admits
  <2>6. \A g \in Fds : g # f => kernel'[g] = kernel[g]
    BY <1>0, <1>3 DEF Admits, Types
  <2>7. f \notin engine.wfds
    BY <1>0, <2>0 DEF Sets, Conns
  <2>8. \A g \in Conns' : Due(g)'
    <3> TAKE g \in Conns'
    <3>1. CASE g = f
      BY <2>0, <2>1, <2>7, <3>1 DEF Due
    <3>2. CASE g # f
      <4>1. g \in Fds /\ kernel'[g] = kernel[g] /\ connections'[g] = connections[g]
        BY <2>1, <2>6, <3>2 DEF Conns
      <4>2. g \in Conns
        BY <4>1 DEF Conns
      <4>3. Due(g) /\ peer'[kernel[g].of] = peer[kernel[g].of]
        BY <1>0, <2>3, <2>4, <4>2 DEF Answers
      <4> QED
        BY <2>0, <4>1, <4>3, DueKept
    <3> QED
      BY <3>1, <3>2
  <2>9. \A g \in Fds : connections'[g].uri = "static"
    BY <1>0, <2>0, <2>1 DEF Answers
  <2>10. \A d \in Clients : peer'[d].input # NoRequest => peer'[d].waiting
    BY <1>0, <2>4, <2>5 DEF Answers
  <2> QED
    BY <2>8, <2>9, <2>10 DEF Answers
<1>4. ASSUME NEW i \in Fds, NEW W \in SUBSET Fds, NEW s \in Slot,
             kernel[i].kind = "conn", kernel' = kernel, s.uri = "static",
             connections' = [connections EXCEPT ![i] = s], engine'.wfds = W,
             \A g \in Fds : g # i => (g \in W <=> g \in engine.wfds),
             \A d \in Clients : d # Client(i) => peer'[d] = peer[d],
             peer'[Client(i)].input # NoRequest => peer'[Client(i)].waiting,
             i \in W <=> s.status # 0,
             s.status # 0 => peer'[Client(i)].waiting /\ peer'[Client(i)].input = NoRequest
      PROVE  Answers'
  <2>1. \A g \in Fds : connections'[g] = IF g = i THEN s ELSE connections[g]
    BY <1>0, <1>4 DEF Types
  <2>2. Conns' = Conns /\ i \in Conns /\ Client(i) = kernel[i].of /\ Client(i) \in Clients
    BY <1>0, <1>4, ClientTypes DEF Conns, Client
  <2>3. \A g \in Conns : Due(g)'
    <3> TAKE g \in Conns
    <3>1. CASE g = i
      BY <1>4, <2>1, <2>2, <3>1 DEF Due
    <3>2. CASE g # i
      <4>1. g \in Fds /\ kernel[g].of # Client(i) /\ kernel[g].of \in Clients
        BY <1>0, <2>2, <3>2, TypedPlaces DEF Places
      <4>2. Due(g) /\ connections'[g] = connections[g] /\ peer'[kernel[g].of] = peer[kernel[g].of]
        BY <1>0, <1>4, <2>1, <3>2, <4>1 DEF Answers
      <4>3. g \in engine'.wfds <=> g \in engine.wfds
        BY <1>4, <3>2, <4>1
      <4> QED
        BY <1>4, <4>1, <4>2, <4>3, DueKept
    <3> QED
      BY <3>1, <3>2
  <2>4. \A g \in Fds : connections'[g].uri = "static"
    BY <1>0, <1>4, <2>1 DEF Answers
  <2>5. \A d \in Clients : peer'[d].input # NoRequest => peer'[d].waiting
    BY <1>0, <1>4 DEF Answers
  <2> QED
    BY <2>2, <2>3, <2>4, <2>5 DEF Answers
<1>5. ASSUME NEW i \in Fds, NEW W \in SUBSET Fds, NEW s \in Slot, Reads(i, W, s) PROVE Answers'
  <2>1. i \in Conns /\ Client(i) = kernel[i].of /\ Client(i) \in Clients
    BY <1>0, <1>5, ClientTypes DEF Reads, Conns, Client
  <2>2. /\ peer'[Client(i)].input = NoRequest
        /\ peer'[Client(i)].waiting <=> peer[Client(i)].waiting
        /\ \A d \in Clients : d # Client(i) => peer'[d] = peer[d]
    BY <1>0, <1>5, <2>1 DEF Reads, Types, Peer
  <2>3. Due(i)
    BY <1>0, <2>1 DEF Answers
  <2>4. i \in W <=> s.status # 0
    BY <1>5, <2>3 DEF Reads, Due
  <2>5. s.status # 0 => peer'[Client(i)].waiting
    BY <1>0, <1>5, <2>1, <2>2, <2>3 DEF Reads, Due, Answers
  <2>6. \A g \in Fds : g # i => (g \in W <=> g \in engine.wfds)
    BY <1>5 DEF Reads
  <2>7. /\ kernel[i].kind = "conn" /\ kernel' = kernel /\ s.uri = "static" /\ engine'.wfds = W
        /\ connections' = [connections EXCEPT ![i] = s]
    BY <1>5 DEF Reads, Goes
  <2> QED
    BY <1>4, <2>2, <2>4, <2>5, <2>6, <2>7
<1>6. ASSUME NEW i \in Fds, NEW W \in SUBSET Fds, NEW s \in Slot, Writes(i, W, s) PROVE Answers'
  <2>1. i \in Conns /\ Client(i) = kernel[i].of /\ Client(i) \in Clients
    BY <1>0, <1>6, ClientTypes DEF Writes, Conns, Client
  <2>2. Due(i) /\ i \in engine.wfds /\ connections[i].status # 0
    BY <1>0, <1>6, <2>1 DEF Answers, Writes, Sets, Due
  <2>3. peer[Client(i)].waiting /\ peer[Client(i)].input = NoRequest
    BY <2>1, <2>2 DEF Due
  <2>4. /\ kernel[i].kind = "conn" /\ kernel' = kernel /\ s.uri = "static" /\ engine'.wfds = W
        /\ connections' = [connections EXCEPT ![i] = s]
    BY <1>6 DEF Writes, Goes
  <2>5. CASE s.status = connections[i].status /\ W = engine.wfds /\ peer' = peer
    BY <1>4, <2>2, <2>3, <2>4, <2>5
  <2>6. CASE s.status = 0 /\ W = engine.wfds \ {i} /\ peer' = Answered(Client(i))
    <3>1. /\ peer'[Client(i)].input = NoRequest
          /\ \A d \in Clients : d # Client(i) => peer'[d] = peer[d]
      BY <1>0, <2>1, <2>3, <2>6 DEF Answered, Types, Peer
    <3> QED
      BY <1>4, <2>4, <2>6, <3>1
  <2> QED
    BY <1>6, <2>5, <2>6 DEF Writes
<1>7. ASSUME NEW i \in Fds, Leaves(i) PROVE Answers'
  <2>0. i \in Conns /\ Client(i) = kernel[i].of /\ Client(i) \in Clients
    BY <1>0, <1>7, ClientTypes DEF Leaves, Conns, Client
  <2>1. \A h \in Fds : kernel'[h] = IF h \in {i} THEN Free ELSE kernel[h]
    BY <1>0, <1>7, ReleasedFacts DEF Leaves, Types
  <2>2. \A g \in Conns' : g \in Conns /\ g # i /\ kernel'[g] = kernel[g] /\ g \in Fds
    BY <2>1, Objects DEF Conns
  <2>3. \A g \in Fds : connections'[g] = IF g = i THEN Cleaned ELSE connections[g]
    BY <1>0, <1>7 DEF Leaves, Types
  <2>4. /\ \A d \in Clients : peer'[d] = IF d = Client(i) THEN Away ELSE peer[d]
        /\ engine'.wfds = engine.wfds \ {i}
    BY <1>0, <1>7 DEF Leaves, Goes, Types
  <2>5. \A g \in Conns' : Due(g)'
    <3> TAKE g \in Conns'
    <3>1. g \in Conns /\ g # i /\ kernel'[g] = kernel[g] /\ g \in Fds
      BY <2>2
    <3>2. kernel[g].of # Client(i) /\ kernel[g].of \in Clients
      BY <1>0, <2>0, <3>1, TypedPlaces DEF Places
    <3>3. Due(g) /\ connections'[g] = connections[g] /\ peer'[kernel[g].of] = peer[kernel[g].of]
      BY <1>0, <2>3, <2>4, <3>1, <3>2 DEF Answers
    <3>4. g \in engine'.wfds <=> g \in engine.wfds
      BY <2>4, <3>1
    <3> QED
      BY <3>1, <3>3, <3>4, DueKept
  <2>6. \A g \in Fds : connections'[g].uri = "static"
    BY <1>0, <2>3, BlankSlots DEF Answers
  <2>7. \A d \in Clients : peer'[d].input # NoRequest => peer'[d].waiting
    <3>1. Away.input = NoRequest
      BY DEF Away
    <3> QED
      BY <1>0, <2>4, <3>1 DEF Answers
  <2> QED
    BY <2>5, <2>6, <2>7 DEF Answers
<1> QED
  BY <1>1, <1>2, <1>3, <1>5, <1>6, <1>7 DEF StaticKind

\* Steps that leave the backlogs, the slots' contexts and the clients' ports.
LEMMA SecuredKept ==
  ASSUME Types, Secured, kernel' = kernel, backlog' = backlog,
         \A f \in Conns : connections'[f].context = connections[f].context,
         \A c \in Clients : peer'[c].port = peer[c].port
  PROVE  Secured'
<1>1. Conns' = Conns
  BY DEF Conns
<1> QED
  BY <1>1, TypedPlaces DEF Secured

LEMMA EnvironmentSecured ==
  ASSUME Types, Places, Secured, Environment PROVE Secured'
<1>0. UNCHANGED <<kernel, connections>>
  BY EnvironmentLeaves DEF SameLoop
<1>1. ASSUME NEW c \in Clients, NEW l \in Ports, NEW h \in Hellos, Connect(c, l, h) PROVE Secured'
  <2>0. l \in Listeners /\ peer[c].state = "away" /\ Conns' = Conns
    BY <1>0, <1>1, EngineAssumption DEF Connect, Conns
  <2>1. \A d \in Clients : peer'[d].port = IF d = c THEN l ELSE peer[d].port
    BY <1>1 DEF Connect, Types, Peer
  <2>2. backlog' = [backlog EXCEPT ![l] = Append(backlog[l], c)] /\ backlog[l] \in Seq(Clients)
    BY <1>1, <2>0 DEF Connect, Types
  <2>3. \A m \in Listeners : \A n \in 1..Len(backlog'[m]) :
          \/ n \in 1..Len(backlog[m]) /\ backlog'[m][n] = backlog[m][n]
          \/ m = l /\ backlog'[m][n] = c
    BY <2>0, <2>2 DEF Types
  <2>4. \A m \in Listeners : \A n \in 1..Len(backlog[m]) :
          backlog[m][n] # c /\ backlog[m][n] \in Clients
    BY <2>0, TypedPlaces DEF Places
  <2>5. \A f \in Conns : kernel[f].of # c /\ kernel[f].of \in Clients
    BY <2>0, TypedPlaces DEF Places
  <2>6. \A m \in Listeners : \A n \in 1..Len(backlog'[m]) : peer'[backlog'[m][n]].port = m
    BY <2>1, <2>3, <2>4 DEF Secured
  <2>7. \A f \in Conns' : connections'[f].context <=> peer'[kernel'[f].of].port = SslSock
    BY <1>0, <2>0, <2>1, <2>5 DEF Secured
  <2> QED
    BY <2>6, <2>7 DEF Secured
<1>2. ASSUME NEW c \in Clients, NEW r \in Requests, Ask(c, r) PROVE Secured'
  <2>1. \A d \in Clients : peer'[d].port = peer[d].port
    BY <1>2 DEF Ask, Types, Peer
  <2> QED
    BY <1>0, <1>2, <2>1, SecuredKept DEF Ask
<1>3. ASSUME NEW c \in Clients, NEW how \in Departures, Leave(c, how) PROVE Secured'
  <2>1. \A d \in Clients : peer'[d].port = peer[d].port
    BY <1>3 DEF Leave, Types, Peer
  <2> QED
    BY <1>0, <1>3, <2>1, SecuredKept DEF Leave
<1>4. ASSUME NEW f \in Fds, ChildWrites(f) \/ ChildExits(f) PROVE Secured'
  BY <1>0, <1>4, SecuredKept DEF ChildWrites, ChildExits
<1> QED
  BY <1>1, <1>2, <1>3, <1>4 DEF Environment

LEMMA SecuredStep ==
  ASSUME IInv, SInv, Types', StaticKind PROVE Secured'
<1>0. Types /\ Places /\ Sets /\ Secured
  BY DEF IInv, SInv
<1>1. CASE Environment
  BY <1>0, <1>1, EnvironmentSecured
<1>2. CASE Select \/ (SameLoop /\ UNCHANGED <<peer, backlog>>)
  BY <1>0, <1>2, SecuredKept DEF Select, SameLoop
<1>3. ASSUME NEW i \in Fds, NEW f \in Fds, NEW c \in Clients, NEW s \in Slot, Admits(i, f, c, s)
      PROVE  Secured'
  <2>0. i \in Listeners /\ backlog[i] # <<>> /\ c = Head(backlog[i]) /\ backlog[i] \in Seq(Clients)
    BY <1>0, <1>3, TypedPlaces DEF Admits
  <2>1. Len(backlog[i]) \in Nat /\ 1 \in 1..Len(backlog[i]) /\ c = backlog[i][1]
    BY <2>0
  <2>2. peer[c].state = "queued" /\ peer[c].port = i
    BY <1>0, <2>0, <2>1 DEF Places, Secured
  <2>3. \A m \in Listeners : \A n \in 1..Len(backlog'[m]) :
          \E k \in 1..Len(backlog[m]) : /\ backlog'[m][n] = backlog[m][k]
                                      /\ (m = i => k # 1)
    <3>1. backlog'[i] = Tail(backlog[i]) /\ \A m \in Listeners : m # i => backlog'[m] = backlog[m]
      BY <1>0, <1>3, <2>0 DEF Admits, Types
    <3>2. \A n \in 1..Len(Tail(backlog[i])) :
            /\ n + 1 \in 1..Len(backlog[i]) /\ n + 1 # 1
            /\ Tail(backlog[i])[n] = backlog[i][n + 1]
      BY <2>0, <2>1
    <3> QED
      BY <3>1, <3>2
  <2>4. \A m \in Listeners : \A n \in 1..Len(backlog'[m]) :
          backlog'[m][n] # c /\ backlog'[m][n] \in Clients /\ peer[backlog'[m][n]].port = m
    <3> TAKE m \in Listeners
    <3> TAKE n \in 1..Len(backlog'[m])
    <3>1. PICK k \in 1..Len(backlog[m]) : /\ backlog'[m][n] = backlog[m][k]
                                        /\ (m = i => k # 1)
      BY <2>3
    <3>2. backlog[m][k] # backlog[i][1]
      <4>1. \A l, j \in Listeners : \A x \in 1..Len(backlog[l]), y \in 1..Len(backlog[j]) :
              backlog[l][x] = backlog[j][y] => l = j /\ x = y
        BY <1>0 DEF Places
      <4>2. k \in 1..Len(backlog[m]) /\ ~(m = i /\ k = 1)
        BY <3>1
      <4>3. backlog[m][k] = backlog[i][1] => m = i /\ k = 1
        BY <2>0, <2>1, <4>1, <4>2
      <4> QED
        BY <4>2, <4>3
    <3>3. peer[backlog[m][k]].port = m /\ backlog[m][k] \in Clients
      BY <1>0, TypedPlaces DEF Secured
    <3>4. backlog'[m][n] = backlog[m][k]
      BY <3>1
    <3> QED
      BY <2>1, <3>2, <3>3, <3>4
  <2>5. \A d \in Clients : d # c => peer'[d] = peer[d]
    BY <1>0, <1>3 DEF Admits, Types
  <2>6. \A m \in Listeners : \A n \in 1..Len(backlog'[m]) : peer'[backlog'[m][n]].port = m
    BY <2>4, <2>5
  <2>7. \A g \in Conns : kernel[g].of # c /\ kernel[g].of \in Clients /\ g # f /\ g \in Fds
    BY <1>0, <1>3, <2>2, TypedPlaces DEF Places, Conns, Admits
  <2>8. \A g \in Fds : connections'[g] = IF g = f THEN s ELSE connections[g]
    BY <1>0, <1>3 DEF Admits, Types
  <2>9. \A g \in Conns : connections'[g].context <=> peer'[kernel[g].of].port = SslSock
    BY <1>0, <2>5, <2>7, <2>8 DEF Secured
  <2>10. CASE kernel' = kernel
    <3>1. Conns' = Conns
      BY <2>10 DEF Conns
    <3> QED
      BY <2>6, <2>9, <2>10, <3>1 DEF Secured
  <2>11. CASE /\ kernel' = [kernel EXCEPT ![f] = Conn(c)]
              /\ peer' = [peer EXCEPT ![c].state = "in"]
    <3>1. \A h \in Fds : kernel'[h] = IF h = f THEN Conn(c) ELSE kernel[h]
      BY <1>0, <2>11 DEF Types
    <3>2. \A g \in Conns' : g = f \/ (g \in Conns /\ kernel'[g] = kernel[g])
      BY <3>1 DEF Conns
    <3>3. kernel'[f].of = c
      BY <3>1, Objects
    <3>4. peer'[c].port = i
      BY <1>0, <2>2, <2>11 DEF Types, Peer
    <3>5. s.context <=> i = SslSock
      BY <1>3 DEF Admits
    <3>6. connections'[f].context <=> peer'[kernel'[f].of].port = SslSock
      BY <2>8, <3>3, <3>4, <3>5
    <3>7. \A g \in Conns' : connections'[g].context <=> peer'[kernel'[g].of].port = SslSock
      BY <2>9, <3>2, <3>6
    <3> QED
      BY <2>6, <3>7 DEF Secured
  <2> QED
    BY <1>3, <2>10, <2>11 DEF Admits
<1>4. ASSUME NEW i \in Fds, NEW W \in SUBSET Fds, NEW s \in Slot, Reads(i, W, s) \/ Writes(i, W, s)
      PROVE  Secured'
  <2>1. \A d \in Clients : peer'[d].port = peer[d].port
    <3>1. CASE peer' = [peer EXCEPT ![Client(i)].input = NoRequest]
      BY <1>0, <3>1 DEF Types, Peer
    <3>2. CASE peer' = Answered(Client(i))
      BY <1>0, <3>2 DEF Types, Peer, Answered
    <3> QED
      BY <1>4, <3>1, <3>2 DEF Reads, Writes
  <2>2. \A g \in Conns : connections'[g].context = connections[g].context
    BY <1>0, <1>4 DEF Reads, Writes, Types, Conns
  <2> QED
    BY <1>0, <1>4, <2>1, <2>2, SecuredKept DEF Reads, Writes
<1>5. ASSUME NEW i \in Fds, Leaves(i) PROVE Secured'
  <2>0. i \in Conns /\ Client(i) = kernel[i].of /\ peer[Client(i)].state = "in"
    BY <1>0, <1>5 DEF Leaves, Conns, Client, Places
  <2>1. \A h \in Fds : kernel'[h] = IF h \in {i} THEN Free ELSE kernel[h]
    BY <1>0, <1>5, ReleasedFacts DEF Leaves, Types
  <2>2. \A g \in Conns' : g \in Conns /\ g # i /\ kernel'[g] = kernel[g]
    BY <2>1, Objects DEF Conns
  <2>3. \A d \in Clients : d # Client(i) => peer'[d] = peer[d]
    BY <1>0, <1>5 DEF Leaves, Types
  <2>4. \A m \in Listeners : \A n \in 1..Len(backlog[m]) :
          backlog[m][n] # Client(i) /\ backlog[m][n] \in Clients
    BY <1>0, <2>0, TypedPlaces DEF Places
  <2>5. backlog' = backlog
    BY <1>5 DEF Leaves
  <2>6. \A g \in Conns' : kernel[g].of # Client(i) /\ kernel[g].of \in Clients
    BY <1>0, <2>0, <2>2, TypedPlaces DEF Places
  <2>7. \A g \in Conns' : connections'[g] = connections[g]
    BY <1>0, <1>5, <2>2 DEF Leaves, Types, Conns
  <2>8. \A m \in Listeners : \A n \in 1..Len(backlog'[m]) : peer'[backlog'[m][n]].port = m
    BY <1>0, <2>3, <2>4, <2>5 DEF Secured
  <2>9. \A g \in Conns' : connections'[g].context <=> peer'[kernel'[g].of].port = SslSock
    BY <1>0, <2>2, <2>3, <2>6, <2>7 DEF Secured
  <2> QED
    BY <2>8, <2>9 DEF Secured
<1> QED
  BY <1>1, <1>2, <1>3, <1>4, <1>5 DEF StaticKind

LEMMA InitStatic == Init => SInv
<1> SUFFICES ASSUME Init PROVE SInv
  OBVIOUS
<1>1. /\ \A f \in Fds : kernel[f] = IF f < Sock THEN [kind |-> "std"]
                                   ELSE IF f \in Listeners THEN [kind |-> "listener"] ELSE Free
      /\ \A f \in Fds : connections[f] = NeverUsed
      /\ engine = [rfds |-> Listeners, wfds |-> {}, temp_rfds |-> {}, temp_wfds |-> {},
                   nfds |-> 6, fdmax |-> SslSock]
      /\ \A l \in Listeners : backlog[l] = <<>>
      /\ \A c \in Clients : peer[c] = Away
  BY DEF Init
<1>2. \A f \in Fds : kernel[f].kind \in {"std", "listener", "free"}
  <2>1. [kind |-> "std"].kind = "std" /\ [kind |-> "listener"].kind = "listener" /\ Free.kind = "free"
    BY DEF Free
  <2> QED
    BY <1>1, <2>1
<1>3. Listening
  BY <1>1, FdFacts DEF Listening, Listeners, Sock, SslSock
<1>4. Conns = {}
  BY <1>2 DEF Conns
<1>5. Sets
  <2>1. \A f \in Listeners : f <= SslSock
    BY DEF Listeners, Sock, SslSock
  <2>2. Temps = {}
    BY <1>1 DEF Temps
  <2> QED
    BY <1>1, <1>2, <1>3, <1>4, <2>1, <2>2 DEF Sets
<1>6. Places
  <2>1. \A l \in Listeners : Len(backlog[l]) = 0
    BY <1>1
  <2> QED
    BY <1>4, <2>1 DEF Places
<1>7. Answers
  <2>1. NeverUsed.uri = "static"
    BY DEF NeverUsed, Cleaned, InitConnection
  <2>2. Away.input = NoRequest
    BY DEF Away
  <2> QED
    BY <1>1, <1>4, <2>1, <2>2 DEF Answers
<1>8. Secured
  <2>1. \A l \in Listeners : Len(backlog[l]) = 0
    BY <1>1
  <2> QED
    BY <1>4, <2>1 DEF Secured
<1> QED
  BY <1>5, <1>6, <1>7, <1>8 DEF SInv

LEMMA StaticHolds ==
  ASSUME StaticOnly PROVE Spec => [](IInv /\ SInv)
<1>1. Init => IInv /\ SInv
  BY InitInv, InitStatic
<1>2. IInv /\ SInv /\ [Next]_vars => (IInv /\ SInv)'
  <2> SUFFICES ASSUME IInv, SInv, [Next]_vars PROVE (IInv /\ SInv)'
    OBVIOUS
  <2>1. IInv' /\ Types'
    BY StepInv, StepTypes DEF IInv
  <2>2. StaticKind
    BY <2>1, StaticKinds
  <2> QED
    BY <2>1, <2>2, SetsStep, PlacesStep, AnswersStep, SecuredStep DEF SInv
<1> QED
  BY <1>1, <1>2, PTL DEF Spec

\* What select reported is still about the same descriptor when its turn comes
\* (temp_rfds and temp_wfds of liso_engine_event_loop), for static requests.
THEOREM SnapshotKept ==
  ASSUME StaticOnly PROVE Spec => []SnapshotStable
<1>1. IInv /\ SInv => SnapshotStable
  BY DEF SInv, Sets, SnapshotStable, Temps
<1> QED
  BY <1>1, StaticHolds, PTL

\* select is given every connection, no closed descriptor, and a sufficient fdmax,
\* for static requests.
THEOREM WatchedExactly ==
  ASSUME StaticOnly PROVE Spec => []WatchExact
<1>1. IInv /\ SInv => WatchExact
  <2> SUFFICES ASSUME IInv, Sets
               PROVE  /\ Watched \subseteq OpenFds \cap 0..engine.fdmax
                      /\ {f \in Fds : kernel[f].kind = "conn"} \subseteq engine.rfds
    BY DEF SInv, WatchExact
  <2>1. Conns \subseteq OpenFds /\ Listeners \subseteq OpenFds
    BY FdFacts DEF Conns, OpenFds, Sets, Listening
  <2>2. \A f \in Watched : f \in Conns \cup Listeners /\ f \in engine.rfds
    BY DEF Watched, Sets
  <2>3. \A f \in Watched : f \in OpenFds /\ f \in Nat /\ f <= engine.fdmax
    BY <2>1, <2>2, FdFacts DEF OpenFds, Sets
  <2>4. engine.fdmax \in Nat
    BY FdFacts DEF IInv, Types, EngineState
  <2>5. \A f \in Watched : f \in 0..engine.fdmax
    BY <2>3, <2>4
  <2>6. {f \in Fds : kernel[f].kind = "conn"} \subseteq engine.rfds
    BY DEF Sets, Conns
  <2> QED
    BY <2>3, <2>5, <2>6
<1> QED
  BY <1>1, StaticHolds, PTL

\* A write happens only for a request that was read and is not yet answered
\* (readme.txt), on the slot of the client it came from, for static requests.
THEOREM WritesAfterReads ==
  ASSUME StaticOnly PROVE Spec => []WriteAfterRead
<1>1. IInv /\ SInv => WriteAfterRead
  <2> SUFFICES ASSUME IInv, Answers, Secured, NEW f \in Fds, kernel[f].kind = "conn"
               PROVE  /\ connections[f].request = "live"
                      /\ f \in engine.wfds <=> connections[f].status # 0
                      /\ connections[f].status # 0 => peer[kernel[f].of].waiting
                      /\ connections[f].context <=> peer[kernel[f].of].port = SslSock
    BY DEF SInv, WriteAfterRead
  <2>1. connections[f].request = "live"
    BY DEF IInv, Slots, SlotOf
  <2>2. Due(f)
    BY DEF Answers, Conns
  <2>3. connections[f].context <=> peer[kernel[f].of].port = SslSock
    BY DEF Secured, Conns
  <2> QED
    BY <2>1, <2>2, <2>3 DEF Due
<1> QED
  BY <1>1, StaticHolds, PTL

-----------------------------------------------------------------------------
(* The refinement of Sessions, but for its fairness.  Each step of the server *)
(* is one step of one client's session, or concerns no session at all.        *)

\* A client that is away has nothing of an earlier connection left.
Gone == \A c \in Clients : peer[c].state = "away" => peer[c] = Away

session == [c \in Clients |-> Session(peer[c])]

\* c's session goes from one state to another, all others stay.
Moves(c, from, to) ==
  /\ Session(peer[c]) = from /\ Session(peer'[c]) = to
  /\ \A d \in Clients : d # c => peer'[d] = peer[d]

Stays == \A c \in Clients : Session(peer'[c]) = Session(peer[c])

LEMMA SessionsMove ==
  ASSUME NEW c \in Clients, NEW from, NEW to, Moves(c, from, to)
  PROVE  Promise!Move(c, from, to)
<1>1. \A d \in Clients : Session(peer'[d]) = IF d = c THEN to ELSE Session(peer[d])
  BY DEF Moves
<1> QED
  BY <1>1 DEF Moves, Promise!Move

LEMMA SessionsStay ==
  ASSUME Stays PROVE UNCHANGED session
  BY DEF Stays, session

\* What a change of one client's side means for its session.
LEMMA Standings ==
  ASSUME NEW p \in Peer
  PROVE  /\ Session(Away) = "away"
         /\ Session([p EXCEPT !.input = NoRequest]) = Session(p)
         /\ p.state # "away" => Session([p EXCEPT !.state = "in"]) = Session(p)
         /\ p.state # "away" /\ p.hello = "ok" /\ p.end = "open" =>
              Session([p EXCEPT !.waiting = FALSE]) = "idle"
         /\ p.state # "away" /\ ~(p.hello = "ok" /\ p.end = "open") =>
              /\ Session(p) = "leaving"
              /\ Session([p EXCEPT !.waiting = FALSE]) = "leaving"
         /\ p.state # "away" /\ p.hello = "ok" /\ p.end = "open" /\ p.waiting =>
              Session(p) = "waiting"
  BY DEF Session, Away, Peer

LEMMA OnePeer ==
  ASSUME Types, NEW c \in Clients, NEW p, peer' = [peer EXCEPT ![c] = p]
  PROVE  peer'[c] = p /\ \A d \in Clients : d # c => peer'[d] = peer[d]
  BY DEF Types

\* A session that goes on as it was.
LEMMA StaysByOne ==
  ASSUME NEW c \in Clients, Session(peer'[c]) = Session(peer[c]),
         \A d \in Clients : d # c => peer'[d] = peer[d]
  PROVE  Stays
  BY DEF Stays

\* Joining, asking and leaving.
LEMMA EnvironmentSession ==
  ASSUME Types, Gone, Environment
  PROVE  Promise!Next \/ Stays
<1>1. ASSUME NEW c \in Clients, NEW l \in Ports, NEW h \in Hellos, Connect(c, l, h)
      PROVE  Promise!Next
  <2> DEFINE p == [[[peer[c] EXCEPT !.state = "queued"] EXCEPT !.port = l] EXCEPT !.hello = h]
  <2>1. peer[c] = Away /\ peer' = [peer EXCEPT ![c] = p]
    BY <1>1 DEF Connect, Gone
  <2>2. Session(peer[c]) = "away"
    BY <2>1 DEF Session, Away
  <2>3. Session(p) = IF h = "ok" THEN "idle" ELSE "leaving"
    BY <2>1 DEF Session, Away
  <2> HIDE DEF p
  <2>4. peer'[c] = p /\ \A d \in Clients : d # c => peer'[d] = peer[d]
    BY <2>1, OnePeer
  <2>5. Moves(c, "away", "idle") \/ Moves(c, "away", "leaving")
    BY <2>2, <2>3, <2>4 DEF Moves
  <2>6. Promise!Join(c)
    BY <2>5, SessionsMove DEF Promise!Join
  <2> QED
    BY <2>6 DEF Promise!Next
<1>2. ASSUME NEW c \in Clients, NEW r \in Requests, Ask(c, r)
      PROVE  Promise!Next
  <2> DEFINE p == [[peer[c] EXCEPT !.input = r] EXCEPT !.waiting = TRUE]
  <2>1. /\ peer[c] \in Peer /\ peer' = [peer EXCEPT ![c] = p]
        /\ peer[c].state # "away" /\ peer[c].hello = "ok" /\ peer[c].end = "open"
        /\ ~peer[c].waiting
    BY <1>2 DEF Ask, Types
  <2>2. Session(peer[c]) = "idle"
    BY <2>1 DEF Session
  <2>3. Session(p) = "waiting"
    BY <2>1 DEF Session, Peer
  <2> HIDE DEF p
  <2>4. peer'[c] = p /\ \A d \in Clients : d # c => peer'[d] = peer[d]
    BY <2>1, OnePeer
  <2>5. Moves(c, "idle", "waiting")
    BY <2>2, <2>3, <2>4 DEF Moves
  <2>6. Promise!Ask(c)
    BY <2>5, SessionsMove DEF Promise!Ask
  <2> QED
    BY <2>6 DEF Promise!Next
<1>3. ASSUME NEW c \in Clients, NEW how \in Departures, Leave(c, how)
      PROVE  Promise!Next \/ Stays
  <2> DEFINE p == [peer[c] EXCEPT !.end = how]
  <2>1. /\ peer[c] \in Peer /\ peer' = [peer EXCEPT ![c] = p] /\ how # "open"
        /\ peer[c].state # "away" /\ peer[c].end = "open"
    BY <1>3, EngineAssumption DEF Leave, Types
  <2>2. Session(peer[c]) \in {"idle", "waiting", "leaving"}
    BY <2>1 DEF Session
  <2>3. Session(p) = "leaving"
    BY <2>1 DEF Session, Peer
  <2> HIDE DEF p
  <2>4. peer'[c] = p /\ \A d \in Clients : d # c => peer'[d] = peer[d]
    BY <2>1, OnePeer
  <2>5. CASE Session(peer[c]) = "leaving"
    BY <2>3, <2>4, <2>5, StaysByOne
  <2>6. CASE Session(peer[c]) # "leaving"
    <3>1. Moves(c, "idle", "leaving") \/ Moves(c, "waiting", "leaving")
      BY <2>2, <2>3, <2>4, <2>6 DEF Moves
    <3>2. Promise!Leave(c)
      BY <3>1, SessionsMove DEF Promise!Leave
    <3> QED
      BY <3>2 DEF Promise!Next
  <2> QED
    BY <2>5, <2>6
<1>4. ASSUME NEW f \in Fds, ChildWrites(f) \/ ChildExits(f) PROVE Stays
  BY <1>4 DEF ChildWrites, ChildExits, Stays
<1> QED
  BY <1>1, <1>2, <1>3, <1>4 DEF Environment

\* A client that has left is forgotten.
LEMMA Forgotten ==
  ASSUME Types, NEW c \in Clients, peer[c].state # "away",
         ~(peer[c].hello = "ok" /\ peer[c].end = "open"), peer' = [peer EXCEPT ![c] = Away]
  PROVE  Promise!Next
<1>1. peer'[c] = Away /\ (\A d \in Clients : d # c => peer'[d] = peer[d]) /\ peer[c] \in Peer
  BY OnePeer DEF Types
<1>2. Moves(c, "leaving", "away")
  BY <1>1, Standings DEF Moves
<1>3. Promise!Forget(c)
  BY <1>2, SessionsMove DEF Promise!Forget
<1> QED
  BY <1>3 DEF Promise!Next

\* The end of a connection whose client has left, or waits for its last answer.
LEMMA EndsSession ==
  ASSUME Types, Places, NEW i \in Fds, kernel[i].kind = "conn",
         peer' = [peer EXCEPT ![Client(i)] = Away],
         peer[Client(i)].end # "open" \/ peer[Client(i)].waiting
  PROVE  Promise!Next
<1> DEFINE c == Client(i)
<1>1. c \in Clients /\ peer[c] \in Peer /\ peer[c].state = "in"
  BY ClientTypes DEF Places, Conns, Client, Types
<1>2. peer' = [peer EXCEPT ![c] = Away] /\ (peer[c].end # "open" \/ peer[c].waiting)
  OBVIOUS
<1> HIDE DEF c
<1>3. CASE ~(peer[c].hello = "ok" /\ peer[c].end = "open")
  BY <1>1, <1>2, <1>3, Forgotten
<1>4. CASE peer[c].hello = "ok" /\ peer[c].end = "open"
  <2>1. peer'[c] = Away /\ \A d \in Clients : d # c => peer'[d] = peer[d]
    BY <1>1, <1>2, OnePeer
  <2>2. Moves(c, "waiting", "away")
    BY <1>1, <1>2, <1>4, <2>1, Standings DEF Moves
  <2>3. Promise!Answer(c)
    BY <1>1, <2>2, SessionsMove DEF Promise!Answer
  <2> QED
    BY <1>1, <2>3 DEF Promise!Next
<1> QED
  BY <1>3, <1>4

LEMMA InputSession ==
  ASSUME Types, NEW c \in Clients, peer' = [peer EXCEPT ![c].input = NoRequest]
  PROVE  Stays
<1> DEFINE p == [peer[c] EXCEPT !.input = NoRequest]
<1>1. peer[c] \in Peer /\ peer' = [peer EXCEPT ![c] = p]
  BY DEF Types
<1>2. Session(p) = Session(peer[c])
  BY <1>1, Standings
<1> HIDE DEF p
<1> QED
  BY <1>1, <1>2, OnePeer, StaysByOne

LEMMA AcceptSession ==
  ASSUME Types, Places, NEW i \in Fds, Accept(i)
  PROVE  Promise!Next \/ Stays
<1> DEFINE c == Head(backlog[i])
<1>1. i \in Listeners /\ backlog[i] # <<>> /\ backlog[i] \in Seq(Clients)
  BY TypedPlaces DEF Accept
<1>2. 1 \in 1..Len(backlog[i]) /\ c = backlog[i][1] /\ c \in Clients
  BY <1>1
<1>3. peer[c].state = "queued" /\ peer[c] \in Peer
  BY <1>1, <1>2 DEF Places, Types
<1>4. \/ peer' = [peer EXCEPT ![c].state = "in"]
      \/ /\ peer[c].hello = "bad" \/ peer[c].end # "open"
         /\ peer' = [peer EXCEPT ![c] = Away]
  BY DEF Accept, Refused
<1> HIDE DEF c
<1>5. CASE peer' = [peer EXCEPT ![c].state = "in"]
  <2> DEFINE p == [peer[c] EXCEPT !.state = "in"]
  <2>1. peer' = [peer EXCEPT ![c] = p] /\ Session(p) = Session(peer[c])
    BY <1>3, <1>5, Standings
  <2> HIDE DEF p
  <2> QED
    BY <1>2, <2>1, OnePeer, StaysByOne
<1>6. CASE /\ peer[c].hello = "bad" \/ peer[c].end # "open"
           /\ peer' = [peer EXCEPT ![c] = Away]
  BY <1>2, <1>3, <1>6, Forgotten
<1> QED
  BY <1>4, <1>5, <1>6

LEMMA RecvSession ==
  ASSUME StaticOnly, IInv, SInv, Types', NEW i \in Fds, HandleRecv(i)
  PROVE  Promise!Next \/ Stays
<1>0. Types /\ Places
  BY DEF IInv, SInv
<1>1. CASE Accept(i)
  BY <1>0, <1>1, AcceptSession
<1>2. CASE AcceptFails(i) \/ AcceptAtLimit(i) \/ RecvStale(i)
  BY <1>2 DEF AcceptFails, AcceptAtLimit, RecvStale, Stays
<1>3. CASE RecvStatic(i) \/ RecvIgnored(i) \/ RecvCgi(i)
  <2>1. kernel[i].kind = "conn" /\ peer' = [peer EXCEPT ![Client(i)].input = NoRequest]
    BY <1>3 DEF RecvStatic, RecvIgnored, RecvCgi, IsConn
  <2> QED
    BY <1>0, <2>1, ClientTypes, InputSession
<1>4. CASE RecvEnd(i)
  <2>1. /\ kernel[i].kind = "conn" /\ peer' = [peer EXCEPT ![Client(i)] = Away]
        /\ peer[Client(i)].end # "open"
    BY <1>4 DEF RecvEnd, IsConn, Ends
  <2> QED
    BY <1>0, <2>1, EndsSession
<1> QED
  BY <1>1, <1>2, <1>3, <1>4 DEF HandleRecv

LEMMA SendSession ==
  ASSUME IInv, SInv, NEW i \in Fds, HandleSend(i)
  PROVE  Promise!Next \/ Stays
<1>0. Types /\ Places /\ Sets /\ Answers
  BY DEF IInv, SInv
<1>1. CASE SendStatic(i) \/ SendStaticFails(i)
  <2> DEFINE c == Client(i)
  <2>1. kernel[i].kind = "conn" /\ i \in engine.temp_wfds
    BY <1>0, <1>1, StaticTurn DEF SendStatic, SendStaticFails, IsConn
  <2>2. Due(i) /\ i \in engine.wfds
    BY <1>0, <2>1 DEF Answers, Sets, Conns
  <2>3. c \in Clients /\ peer[c].waiting /\ peer[c].state = "in" /\ peer[c] \in Peer
    BY <1>0, <2>1, <2>2, ClientTypes DEF Due, Client, Places, Conns, Types
  <2>4. \/ peer' = peer
        \/ peer' = [peer EXCEPT ![c] = Away]
        \/ peer' = [peer EXCEPT ![c].waiting = FALSE]
    BY <1>1 DEF SendStatic, SendStaticFails, Ends, Answered
  <2>5. CASE peer' = peer
    BY <2>5 DEF Stays
  <2>6. CASE peer' = [peer EXCEPT ![c] = Away]
    BY <1>0, <2>1, <2>3, <2>6, EndsSession
  <2>7. CASE peer' = [peer EXCEPT ![c].waiting = FALSE]
    <3> DEFINE p == [peer[c] EXCEPT !.waiting = FALSE]
    <3>1. peer' = [peer EXCEPT ![c] = p]
      BY <2>7
    <3> HIDE DEF c
    <3>2. \/ Session(peer[c]) = "waiting" /\ Session(p) = "idle"
          \/ Session(peer[c]) = "leaving" /\ Session(p) = "leaving"
      BY <2>3, Standings
    <3> HIDE DEF p
    <3>3. peer'[c] = p /\ \A d \in Clients : d # c => peer'[d] = peer[d]
      BY <1>0, <2>3, <3>1, OnePeer
    <3>4. CASE Session(peer[c]) = "waiting" /\ Session(p) = "idle"
      <4>1. Moves(c, "waiting", "idle")
        BY <3>3, <3>4 DEF Moves
      <4>2. Promise!Answer(c)
        BY <2>3, <4>1, SessionsMove DEF Promise!Answer
      <4> QED
        BY <2>3, <4>2 DEF Promise!Next
    <3>5. CASE Session(peer[c]) = "leaving" /\ Session(p) = "leaving"
      BY <2>3, <3>3, <3>5, StaysByOne
    <3> QED
      BY <3>2, <3>4, <3>5
  <2> QED
    BY <2>4, <2>5, <2>6, <2>7
<1>2. CASE CgiSend(i) \/ CgiFinish(i) \/ CgiSendFails(i)
  BY <1>0, <1>2 DEF CgiSend, CgiFinish, CgiSendFails, CgiReady, Answers
<1>3. CASE SendStale(i)
  BY <1>3 DEF SendStale, Stays
<1> QED
  BY <1>1, <1>2, <1>3 DEF HandleSend

LEMMA StepSession ==
  ASSUME StaticOnly, IInv, SInv, Gone, Types', [Next]_vars
  PROVE  [Promise!Next]_session
<1>1. CASE Environment
  BY <1>1, EnvironmentSession, SessionsStay DEF IInv
<1>2. CASE Select \/ SelectFails \/ UNCHANGED vars
  <2>1. peer' = peer
    BY <1>2 DEF Select, SelectFails, vars
  <2>2. Stays
    BY <2>1 DEF Stays
  <2> QED
    BY <2>2, SessionsStay
<1>3. ASSUME NEW i \in Fds, HandleRecv(i) \/ HandleSend(i) PROVE [Promise!Next]_session
  BY <1>3, RecvSession, SendSession, SessionsStay
<1> QED
  BY <1>1, <1>2, <1>3 DEF Next, Server

LEMMA GoneStep ==
  ASSUME Types, Places, Gone, StaticKind PROVE Gone'
<1>1. CASE Environment
  <2>1. ASSUME NEW c \in Clients, NEW l \in Ports, NEW h \in Hellos, Connect(c, l, h) PROVE Gone'
    BY <2>1 DEF Connect, Types, Peer, Gone
  <2>2. ASSUME NEW c \in Clients, NEW r \in Requests, Ask(c, r) PROVE Gone'
    BY <2>2 DEF Ask, Types, Peer, Gone
  <2>3. ASSUME NEW c \in Clients, NEW how \in Departures, Leave(c, how) PROVE Gone'
    BY <2>3 DEF Leave, Types, Peer, Gone
  <2>4. ASSUME NEW f \in Fds, ChildWrites(f) \/ ChildExits(f) PROVE Gone'
    BY <2>4 DEF ChildWrites, ChildExits, Gone
  <2> QED
    BY <1>1, <2>1, <2>2, <2>3, <2>4 DEF Environment
<1>2. CASE Select \/ (SameLoop /\ UNCHANGED <<peer, backlog>>)
  BY <1>2 DEF Select, Gone
<1>3. ASSUME NEW i \in Fds, NEW f \in Fds, NEW c \in Clients, NEW s \in Slot, Admits(i, f, c, s)
      PROVE  Gone'
  BY <1>3 DEF Admits, Types, Peer, Gone
<1>4. ASSUME NEW i \in Fds, kernel[i].kind = "conn",
             \/ peer' = [peer EXCEPT ![Client(i)].input = NoRequest]
             \/ peer' = peer
             \/ peer' = Answered(Client(i))
      PROVE  Gone'
  <2>1. Client(i) \in Clients /\ peer[Client(i)].state = "in"
    BY <1>4, ClientTypes DEF Places, Conns, Client
  <2> QED
    BY <1>4, <2>1 DEF Answered, Types, Peer, Gone
<1>5. ASSUME NEW i \in Fds, NEW W \in SUBSET Fds, NEW s \in Slot, Reads(i, W, s) PROVE Gone'
  BY <1>4, <1>5 DEF Reads
<1>6. ASSUME NEW i \in Fds, NEW W \in SUBSET Fds, NEW s \in Slot, Writes(i, W, s) PROVE Gone'
  BY <1>4, <1>6 DEF Writes
<1>7. ASSUME NEW i \in Fds, Leaves(i) PROVE Gone'
  BY <1>7, ClientTypes DEF Leaves, Types, Gone
<1> QED
  BY <1>1, <1>2, <1>3, <1>5, <1>6, <1>7 DEF StaticKind

\* The safety part of ImplementsSessions, for static requests: no step of the
\* server touches two sessions, an answer goes only to a client that waits for
\* one, and a session ends only with an answer or when its client has left.
THEOREM StepsOfSessions ==
  ASSUME StaticOnly PROVE Spec => Promise!Init /\ [][Promise!Next]_session
<1>1. Init => Promise!Init /\ Gone
  <2> SUFFICES ASSUME Init PROVE Promise!Init /\ Gone
    OBVIOUS
  <2>1. \A c \in Clients : peer[c] = Away
    BY DEF Init
  <2>2. \A c \in Clients : Session(peer[c]) = "away"
    BY <2>1 DEF Session, Away
  <2> QED
    BY <2>1, <2>2 DEF Promise!Init, Gone
<1>2. IInv /\ SInv /\ Gone /\ [Next]_vars => Gone' /\ [Promise!Next]_session
  <2> SUFFICES ASSUME IInv, SInv, Gone, [Next]_vars PROVE Gone' /\ [Promise!Next]_session
    OBVIOUS
  <2>1. Types /\ Types' /\ Places
    BY StepTypes DEF IInv, SInv
  <2>2. StaticKind
    BY <2>1, StaticKinds
  <2> QED
    BY <2>1, <2>2, GoneStep, StepSession
<1> QED
  BY <1>1, <1>2, StaticHolds, PTL DEF Spec
=============================================================================
