----------------------------- MODULE Flaskr_proof -----------------------------
(***************************************************************************)
(* The application keeps what its answers say, for any number of browsers  *)
(* and requests: proofs of the invariants of Flaskr.                       *)
(*                                                                         *)
(* The inductive invariant has a part for each thing the processes share:  *)
(* the database (Stored, Pages), the browser's cookie as a login           *)
(* (Members, Follows) and as a list of messages (Messages, Fresh,          *)
(* ShownOnce).  What holds of a browser that waits for its answers rests   *)
(* on Alone: its live process is its last one, so the cookie cannot change *)
(* under it.                                                               *)
(***************************************************************************)
EXTENDS Flaskr, FiniteSetTheorems, Induction_proof, TLAPS

States   == {"none", "view", "inserted", "done", "closed", "answered", "killed"}
Statuses == {0, 200, 302, 400, 401, 500}
Process  == [state : States, browser : Browsers \union {""}, route : Routes,
             session : Session, modified : BOOLEAN, status : Statuses,
             entries : Seq(Ids), shown : Seq(Ids), epoch : Nat]

Types ==
  /\ proc \in [Ids -> Process]
  /\ cookie \in [Browsers -> Session]
  /\ db \in [table : BOOLEAN, rows : Seq(Ids)]
  /\ writer \in Ids \union {0} /\ row = writer
  /\ asked \in 0..MaxRequests
  /\ epoch \in Nat

\* What the state of a process says of its other fields, and of the lock.
Shape(i) ==
  /\ proc[i].state = "none" <=> i > asked
  /\ i <= asked => proc[i].browser \in Browsers
  /\ proc[i].state \in {"none", "view", "inserted"} =>
       proc[i].status = 0 /\ ~proc[i].modified /\ proc[i].shown = <<>>
       /\ proc[i].entries = <<>>
  /\ proc[i].state = "done" =>
       proc[i].status = 500 /\ ~proc[i].modified /\ proc[i].shown = <<>>
  /\ proc[i].state \in {"inserted", "done"} <=> writer = i
  /\ proc[i].state \in {"inserted", "done"} => proc[i].route = "add"
  /\ proc[i].state = "inserted" => proc[i].session.logged_in
  /\ proc[i].epoch <= epoch
Shapes == \A i \in Ids : Shape(i)

\* The live process of a browser that waits for its answers is its last.
Alone ==
  \A i, j \in Ids :
    Live(i) /\ proc[i].browser \in Sequential
    /\ j <= asked /\ proc[j].browser = proc[i].browser => j <= i

\* The rows are of entries whose process answered, or will answer, the redirect: all of
\* them since the table was last made, each once, and a sequential browser's in its order.
Stored ==
  /\ \A k \in DOMAIN db.rows : proc[db.rows[k]].route = "add" /\ proc[db.rows[k]].status = 302
  /\ \A i \in Ids : proc[i].route = "add" /\ proc[i].status = 302 /\ proc[i].epoch = epoch =>
       \E k \in DOMAIN db.rows : db.rows[k] = i
  /\ \A k1, k2 \in DOMAIN db.rows : db.rows[k1] = db.rows[k2] => k1 = k2
  /\ \A k1, k2 \in DOMAIN db.rows :
       k1 < k2 /\ proc[db.rows[k1]].browser \in Sequential
       /\ proc[db.rows[k1]].browser = proc[db.rows[k2]].browser => db.rows[k1] < db.rows[k2]

\* The same of the rows a page was made of.
Page(i) ==
  /\ \A k \in DOMAIN proc[i].entries : proc[proc[i].entries[k]].status = 302
  /\ \A k1, k2 \in DOMAIN proc[i].entries :
       k1 < k2 /\ proc[proc[i].entries[k1]].browser \in Sequential
       /\ proc[proc[i].entries[k1]].browser = proc[proc[i].entries[k2]].browser =>
            proc[i].entries[k2] < proc[i].entries[k1]
  /\ \A j \in Ids :
       proc[i].route = "show" /\ proc[i].status = 200 /\ proc[i].epoch = epoch
       /\ proc[i].browser \in Sequential /\ j < i /\ proc[j].browser = proc[i].browser
       /\ proc[j].route = "add" /\ proc[j].status = 302 /\ proc[j].epoch = epoch =>
         \E k \in DOMAIN proc[i].entries : proc[i].entries[k] = j
Pages == \A i \in Ids : Page(i)

Changed(j) ==
  Answered(j) /\ proc[j].status = 302 /\ proc[j].route \in {"login", "logout"}
LoggedIn(j) == Changed(j) /\ proc[j].route = "login"

\* Who is logged in was answered a login before.
Members ==
  /\ \A b \in Browsers : cookie[b].logged_in =>
       \E j \in Ids : proc[j].browser = b /\ LoggedIn(j)
  /\ \A i \in Ids : i <= asked /\ proc[i].session.logged_in =>
       \/ \E j \in Ids : j < i /\ proc[j].browser = proc[i].browser /\ LoggedIn(j)
       \/ proc[i].route = "login" /\ proc[i].status = 302
  /\ \A i \in Ids : proc[i].route = "add" /\ proc[i].status = 302 => proc[i].session.logged_in

Flashes(s) == Range(s.flashes)

\* The messages a browser holds, carries or was shown are of its own earlier answers.
Messages ==
  /\ \A b \in Browsers : \A f \in Flashes(cookie[b]) :
       f \in Ids /\ proc[f].browser = b /\ Answered(f)
  /\ \A i \in Ids : i <= asked => \A f \in Flashes(proc[i].session) :
       \/ f \in Ids /\ f < i /\ proc[f].browser = proc[i].browser /\ Answered(f)
       \/ f = i /\ proc[i].status = 302
  /\ \A i \in Ids : i <= asked => \A f \in Range(proc[i].shown) :
       f \in Ids /\ f < i /\ proc[f].browser = proc[i].browser /\ Answered(f)

\* What a sequential browser's live process p will make of the cookie c.
Fresh(i, p, c) ==
  /\ p.state \in {"view", "inserted", "done"} => p.session = c
  /\ p.state = "closed" =>
       /\ Range(p.shown) \subseteq Flashes(c)
       /\ Flashes(p.session) \subseteq Flashes(c) \union {i}
       /\ Range(p.shown) # {} => p.modified /\ Flashes(p.session) = {}
       /\ p.status = 302 => p.modified
       /\ IF p.status = 302 /\ p.route \in {"login", "logout"}
            THEN p.session.logged_in <=> p.route = "login"
            ELSE p.session.logged_in <=> c.logged_in
AllFresh ==
  \A i \in Ids : Live(i) /\ proc[i].browser \in Sequential =>
                Fresh(i, proc[i], cookie[proc[i].browser])

\* A message shown is not in the cookie any more, nor on another page.
ShownOnce ==
  /\ \A i \in Ids : Answered(i) /\ proc[i].browser \in Sequential =>
       \A f \in Range(proc[i].shown) : f \notin Flashes(cookie[proc[i].browser])
  /\ \A i, j \in Ids : \A f \in Ids :
       Answered(i) /\ Answered(j) /\ proc[i].browser \in Sequential
       /\ f \in Range(proc[i].shown) /\ f \in Range(proc[j].shown) => i = j

\* SessionFollows without Max.
Follows ==
  \A b \in Sequential :
    cookie[b].logged_in <=>
      \E j \in Ids : /\ proc[j].browser = b /\ LoggedIn(j)
                     /\ \A k \in Ids : proc[k].browser = b /\ Changed(k) => k <= j

IInv == /\ Types /\ Shapes /\ Alone /\ Stored /\ Pages
        /\ Members /\ Messages /\ AllFresh /\ ShownOnce /\ Follows

----------------------------------------------------------------------------
(* Sequences. *)

LEMMA RangeEmpty == Range(<<>>) = {}
  BY DEF Range

LEMMA RangeNonEmpty ==
  ASSUME NEW S, NEW s \in Seq(S), s # <<>>
  PROVE  Range(s) # {}
<1>1. Len(s) \in Nat /\ Len(s) # 0 /\ DOMAIN s = 1..Len(s)
  OBVIOUS
<1>2. 1 \in DOMAIN s
  BY <1>1
<1> QED
  BY <1>2 DEF Range

LEMMA RangeTyped ==
  ASSUME NEW S, NEW s \in Seq(S)
  PROVE  Range(s) \subseteq S
  BY DEF Range

LEMMA RangeAppend ==
  ASSUME NEW S, NEW s \in Seq(S), NEW x \in S
  PROVE  Range(Append(s, x)) = Range(s) \union {x}
<1> DEFINE t == Append(s, x)
<1>1. t \in Seq(S) /\ DOMAIN s = 1..Len(s) /\ DOMAIN t = 1..(Len(s) + 1) /\ Len(s) \in Nat
  OBVIOUS
<1>2. t[Len(s) + 1] = x /\ \A k \in 1..Len(s) : t[k] = s[k]
  OBVIOUS
<1>3. \A k \in DOMAIN t : k = Len(s) + 1 \/ k \in DOMAIN s
  BY <1>1
<1>4. DOMAIN s \subseteq DOMAIN t /\ Len(s) + 1 \in DOMAIN t
  BY <1>1
<1> HIDE DEF t
<1> QED
  BY <1>1, <1>2, <1>3, <1>4 DEF Range, t

LEMMA ReverseFacts ==
  ASSUME NEW S, NEW s \in Seq(S)
  PROVE  /\ Reverse(s) \in Seq(S)
         /\ DOMAIN s = 1..Len(s) /\ DOMAIN Reverse(s) = 1..Len(s) /\ Len(s) \in Nat
         /\ \A k \in 1..Len(s) : Reverse(s)[k] = s[Len(s) - k + 1]
  BY DEF Reverse

----------------------------------------------------------------------------
(* A step of a process. *)

Kept(p, q) == q.browser = p.browser /\ q.route = p.route /\ q.epoch = p.epoch

SameData(p, q) ==
  q.session = p.session /\ q.modified = p.modified /\ q.entries = p.entries /\ q.shown = p.shown

SameFile == db' = db /\ writer' = writer

\* The steps of a process that was p and becomes q, field by field.
Shows(p, q) ==
  /\ p.state = "view" /\ p.route \in {"show", "login"} /\ q.state = "closed" /\ q.status = 200
  /\ q.shown = p.session.flashes /\ q.session.flashes = <<>>
  /\ q.session.logged_in <=> p.session.logged_in
  /\ q.modified = (p.modified \/ p.session.flashes # <<>>)
  /\ p.route = "show" => q.entries = Reverse(db.rows)
  /\ p.route = "login" => q.entries = <<>>
  /\ SameFile
Refuses(p, q) ==
  /\ p.state = "view" /\ q.state = "closed" /\ q.status \in {400, 401, 500}
  /\ SameData(p, q) /\ SameFile
Inserts(i, p, q) ==
  /\ p.state = "view" /\ p.route = "add" /\ p.session.logged_in
  /\ q.state = "inserted" /\ q.status = p.status /\ SameData(p, q)
  /\ writer = 0 /\ writer' = i /\ db' = db
Finishes(i, p, q) ==
  /\ q.state = "closed" /\ q.status = 302 /\ q.modified
  /\ q.entries = p.entries /\ q.shown = p.shown
  /\ q.session.flashes = Append(p.session.flashes, i)
Commits(i, p, q) ==
  /\ p.state = "inserted" /\ Finishes(i, p, q)
  /\ q.session.logged_in <=> p.session.logged_in
  /\ db'.rows = Append(db.rows, i) /\ writer' = 0
LogsIn(i, p, q) ==
  /\ p.state = "view" /\ p.route = "login" /\ Finishes(i, p, q)
  /\ q.session.logged_in /\ SameFile
LogsOut(i, p, q) ==
  /\ p.state = "view" /\ p.route = "logout" /\ Finishes(i, p, q)
  /\ ~q.session.logged_in /\ SameFile
Sticks(p, q) ==
  /\ p.state = "inserted" /\ q.state = "done" /\ q.status = 500
  /\ SameData(p, q) /\ SameFile
Ends(i, p, q) ==
  /\ \/ p.state = "done" /\ q.state = "closed"
     \/ p.state \in {"view", "inserted", "done", "closed"} /\ q.state = "killed"
  /\ q.status = p.status /\ SameData(p, q)
  /\ writer' = Released(i) /\ db' = db

Turn(i, p, q) ==
  /\ \A j \in Ids \ {i} : proc'[j] = proc[j]
  /\ cookie' = cookie /\ asked' = asked /\ epoch' = epoch
  /\ Kept(p, q)
  /\ \/ Shows(p, q) \/ Refuses(p, q) \/ Inserts(i, p, q) \/ Commits(i, p, q)
     \/ LogsIn(i, p, q) \/ LogsOut(i, p, q) \/ Sticks(p, q) \/ Ends(i, p, q)

\* One process moves.
Works == \E i \in Ids : Turn(i, proc[i], proc'[i])

LEMMA Typing ==
  ASSUME Types, NEW i \in Ids
  PROVE  /\ proc[i] \in Process
         /\ proc[i].state \in States /\ proc[i].route \in Routes /\ proc[i].status \in Statuses
         /\ proc[i].modified \in BOOLEAN /\ proc[i].epoch \in Nat
         /\ proc[i].session \in Session /\ proc[i].session.logged_in \in BOOLEAN
         /\ proc[i].session.flashes \in Seq(Ids)
         /\ proc[i].entries \in Seq(Ids) /\ proc[i].shown \in Seq(Ids)
  BY DEF Types, Process, Session

LEMMA Becoming ==
  ASSUME Types, NEW i \in Ids, NEW q \in Process, Becomes(i, q)
  PROVE  /\ proc' \in [Ids -> Process] /\ proc'[i] = q
         /\ \A j \in Ids \ {i} : proc'[j] = proc[j]
         /\ cookie' = cookie /\ asked' = asked
  BY DEF Types, Becomes

LEMMA Refused ==
  ASSUME NEW p \in Process, NEW st \in Statuses
  PROVE  /\ Answers(p, st) \in Process /\ Kept(p, Answers(p, st)) /\ SameData(p, Answers(p, st))
         /\ Answers(p, st).state = "closed" /\ Answers(p, st).status = st
<1> DEFINE q == Answers(p, st)
<1>0. "closed" \in States
  BY DEF States
<1>1. q = [[p EXCEPT !.state = "closed"] EXCEPT !.status = st]
  BY DEF Answers
<1>2. q \in Process
  BY <1>0, <1>1 DEF Process
<1>3. Kept(p, q) /\ SameData(p, q) /\ q.state = "closed" /\ q.status = st
  BY <1>1 DEF Process, Kept, SameData
<1> QED
  BY <1>2, <1>3

LEMMA Taken ==
  ASSUME NEW x \in Session
  PROVE  LET u == [x EXCEPT !.flashes = <<>>]
         IN u \in Session /\ u.flashes = <<>> /\ u.logged_in = x.logged_in
<1> DEFINE u == [x EXCEPT !.flashes = <<>>]
<1>1. x = [logged_in |-> x.logged_in, flashes |-> x.flashes] /\ x.logged_in \in BOOLEAN
  BY DEF Session
<1>2. u = [logged_in |-> x.logged_in, flashes |-> <<>>]
  BY <1>1
<1>3. <<>> \in Seq(Ids)
  OBVIOUS
<1>4. u \in Session
  BY <1>1, <1>2, <1>3 DEF Session
<1> QED
  BY <1>2, <1>4

LEMMA Shown ==
  ASSUME NEW p \in Process, NEW e \in Seq(Ids), p.state = "view"
  PROVE  /\ rendered(p, e) \in Process /\ Kept(p, rendered(p, e))
         /\ rendered(p, e).state = "closed" /\ rendered(p, e).status = 200
         /\ rendered(p, e).shown = p.session.flashes
         /\ rendered(p, e).session.flashes = <<>>
         /\ rendered(p, e).session.logged_in = p.session.logged_in
         /\ rendered(p, e).modified = (p.modified \/ p.session.flashes # <<>>)
         /\ rendered(p, e).entries = e
<1> DEFINE a == Answers(p, 200)
           m == p.modified \/ p.session.flashes # <<>>
           b == [a EXCEPT !.entries = e]
           c == [b EXCEPT !.shown = p.session.flashes]
           t == [c.session EXCEPT !.flashes = <<>>]
           d == [c EXCEPT !.session = t]
           r == rendered(p, e)
<1>1. 200 \in Statuses
  BY DEF Statuses
<1>2. a \in Process /\ Kept(p, a) /\ SameData(p, a) /\ a.state = "closed" /\ a.status = 200
  BY <1>1, Refused
<1>3. a.modified = p.modified /\ a.session = p.session
  BY <1>2 DEF SameData
<1>4. r = [d EXCEPT !.modified = m]
  <2>1. r = [d EXCEPT !.modified = a.modified \/ p.session.flashes # <<>>]
    BY DEF rendered
  <2> QED
    BY <2>1, <1>3, Zenon
<1> HIDE DEF a
<1>5. p.session.flashes \in Seq(Ids) /\ p.session \in Session /\ m \in BOOLEAN
  BY DEF Process, Session
<1> HIDE DEF m
<1>6. b \in Process /\ b.entries = e /\ b.session = p.session /\ b.state = "closed"
      /\ b.status = 200 /\ Kept(p, b)
  BY <1>2, <1>3 DEF Process, Kept
<1> HIDE DEF b
<1>7. c \in Process /\ c.entries = e /\ c.session = p.session /\ c.state = "closed"
      /\ c.status = 200 /\ Kept(p, c) /\ c.shown = p.session.flashes
  BY <1>5, <1>6 DEF Process, Kept
<1> HIDE DEF c
<1>10. t \in Session /\ t.flashes = <<>> /\ t.logged_in = p.session.logged_in
  <2>1. c.session = p.session /\ p.session \in Session
    BY <1>5, <1>7
  <2>2. t = [p.session EXCEPT !.flashes = <<>>]
    BY <2>1, Zenon
  <2> HIDE DEF t
  <2> QED
    BY <2>1, <2>2, Taken
<1> HIDE DEF t
<1>8. d \in Process /\ d.entries = e /\ d.state = "closed" /\ d.status = 200 /\ Kept(p, d)
      /\ d.shown = p.session.flashes
      /\ d.session.flashes = <<>> /\ d.session.logged_in = p.session.logged_in
  BY <1>5, <1>7, <1>10 DEF Process, Kept
<1> HIDE DEF d
<1>9. r \in Process /\ r.entries = e /\ r.state = "closed" /\ r.status = 200 /\ Kept(p, r)
      /\ r.shown = p.session.flashes /\ r.session = d.session /\ r.modified = m
  BY <1>4, <1>5, <1>8, ZenonT(60) DEF Process, Kept
<1> QED
  BY <1>8, <1>9 DEF m

LEMMA Moved ==
  ASSUME NEW p \in Process, NEW st \in States
  PROVE  LET q == [p EXCEPT !.state = st]
         IN q \in Process /\ Kept(p, q) /\ SameData(p, q) /\ q.state = st /\ q.status = p.status
  BY DEF Process, Kept, SameData

LEMMA Worked ==
  ASSUME Types, NEW i \in Ids, NEW q \in Process, Becomes(i, q), Kept(proc[i], q), epoch' = epoch
  PROVE  /\ (\/ Shows(proc[i], q) \/ Refuses(proc[i], q) \/ Inserts(i, proc[i], q)
             \/ Commits(i, proc[i], q) \/ LogsIn(i, proc[i], q) \/ LogsOut(i, proc[i], q)
             \/ Sticks(proc[i], q) \/ Ends(i, proc[i], q)) => Works
         /\ proc' \in [Ids -> Process] /\ cookie' = cookie /\ asked' = asked
<1>1. /\ proc' \in [Ids -> Process] /\ proc'[i] = q
      /\ \A j \in Ids \ {i} : proc'[j] = proc[j]
      /\ cookie' = cookie /\ asked' = asked
  BY Becoming
<1>2. ASSUME \/ Shows(proc[i], q) \/ Refuses(proc[i], q) \/ Inserts(i, proc[i], q)
             \/ Commits(i, proc[i], q) \/ LogsIn(i, proc[i], q) \/ LogsOut(i, proc[i], q)
             \/ Sticks(proc[i], q) \/ Ends(i, proc[i], q)
      PROVE  Works
  <2>1. Turn(i, proc[i], q)
    BY <1>1, <1>2 DEF Turn
  <2> QED
    BY <2>1, <1>1 DEF Works
<1> QED
  BY <1>1, <1>2

\* A message flashed, in a session that is s otherwise.
LEMMA FlashFacts ==
  ASSUME NEW i \in Ids, NEW s \in Session
  PROVE  /\ flash(s, i) \in Session /\ flash(s, i).logged_in = s.logged_in
         /\ flash(s, i).flashes = Append(s.flashes, i)
  BY DEF flash, Session

LEMMA StoreFacts ==
  ASSUME NEW d \in [table : BOOLEAN, rows : Seq(Ids)], NEW i \in Ids
  PROVE  LET e == [d EXCEPT !.rows = Append(d.rows, i)]
         IN e \in [table : BOOLEAN, rows : Seq(Ids)] /\ e.rows = Append(d.rows, i)
  OBVIOUS

\* The process that answers the redirect, with session s.
Redirected(p, s) == [Answers(p, 302) EXCEPT !.session = s, !.modified = TRUE]

LEMMA Finished ==
  ASSUME NEW i \in Ids, NEW p \in Process, NEW s \in Session,
         s.flashes = Append(p.session.flashes, i)
  PROVE  /\ Redirected(p, s) \in Process /\ Kept(p, Redirected(p, s))
         /\ Finishes(i, p, Redirected(p, s)) /\ Redirected(p, s).session = s
<1> DEFINE a == Answers(p, 302)
           b == [a EXCEPT !.session = s]
           q == [b EXCEPT !.modified = TRUE]
<1>1. 302 \in Statuses
  BY DEF Statuses
<1>2. a \in Process /\ Kept(p, a) /\ SameData(p, a) /\ a.state = "closed" /\ a.status = 302
  BY <1>1, Refused
<1>3. Redirected(p, s) = q
  BY DEF Redirected
<1> HIDE DEF a
<1>4. b \in Process /\ Kept(p, b) /\ b.entries = p.entries /\ b.shown = p.shown
      /\ b.state = "closed" /\ b.status = 302 /\ b.session = s
  BY <1>2 DEF Process, Kept, SameData
<1> HIDE DEF b
<1>5. q \in Process /\ Kept(p, q) /\ q.entries = p.entries /\ q.shown = p.shown
      /\ q.state = "closed" /\ q.status = 302 /\ q.session = s /\ q.modified
  BY <1>4 DEF Process, Kept
<1> HIDE DEF q
<1>6. Finishes(i, p, q)
  BY <1>5 DEF Finishes
<1> QED
  BY <1>3, <1>5, <1>6

----------------------------------------------------------------------------
(* Every step is a process's, a request, an answer or the administrator's. *)

Alike == Types' /\ Works

LEMMA SameStore ==
  ASSUME Types, proc' \in [Ids -> Process], cookie' = cookie, asked' = asked, UNCHANGED Database
  PROVE  Types' /\ SameFile /\ epoch' = epoch
  BY DEF Types, Database, SameFile

LEMMA ShowStep == ASSUME Types, show_entries PROVE Alike
<1>1. PICK i \in Ids :
        /\ At(i, "show")
        /\ \/ Becomes(i, rendered(proc[i], Reverse(db.rows)))
           \/ Becomes(i, Answers(proc[i], 500))
        /\ UNCHANGED Database
  BY DEF show_entries
<1> DEFINE p == proc[i]
<1>2. p \in Process /\ p.state = "view" /\ p.route = "show"
  BY <1>1, Typing DEF At
<1>3. Reverse(db.rows) \in Seq(Ids)
  BY ReverseFacts DEF Types
<1>4. epoch' = epoch /\ SameFile
  BY <1>1 DEF Database, SameFile
<1> HIDE DEF p
<1>5. CASE Becomes(i, rendered(proc[i], Reverse(db.rows)))
  <2> DEFINE q == rendered(p, Reverse(db.rows))
  <2>1. q \in Process /\ Kept(p, q) /\ Shows(p, q)
    BY <1>2, <1>3, <1>4, Shown DEF Shows
  <2> HIDE DEF q
  <2>2. Becomes(i, q) /\ Kept(proc[i], q) /\ Shows(proc[i], q)
    BY <1>5, <2>1 DEF p, q
  <2> QED
    BY <2>1, <2>2, <1>1, <1>4, Worked, SameStore DEF Alike
<1>6. CASE Becomes(i, Answers(proc[i], 500))
  <2> DEFINE q == Answers(p, 500)
  <2>0. 500 \in Statuses
    BY DEF Statuses
  <2>1. q \in Process /\ Kept(p, q) /\ Refuses(p, q)
    BY <2>0, <1>2, <1>4, Refused DEF Refuses
  <2> HIDE DEF q
  <2>2. Becomes(i, q) /\ Kept(proc[i], q) /\ Refuses(proc[i], q)
    BY <1>6, <2>1 DEF p, q
  <2> QED
    BY <2>1, <2>2, <1>1, <1>4, Worked, SameStore DEF Alike
<1> QED
  BY <1>1, <1>5, <1>6

LEMMA RefuseStep == ASSUME Types, add_entry_refused PROVE Alike
<1>1. PICK i \in Ids :
        /\ At(i, "add")
        /\ Becomes(i, Answers(proc[i], IF proc[i].session.logged_in THEN 400 ELSE 401))
        /\ UNCHANGED Database
  BY DEF add_entry_refused
<1>2. PICK st \in {400, 401} : Becomes(i, Answers(proc[i], st))
  BY <1>1
<1> DEFINE p == proc[i]
           q == Answers(p, st)
<1>3. p \in Process /\ p.state = "view" /\ st \in Statuses
  BY <1>1, Typing DEF At, Statuses
<1>4. epoch' = epoch /\ SameFile
  BY <1>1 DEF Database, SameFile
<1>5. q \in Process /\ Kept(p, q) /\ Refuses(p, q)
  BY <1>3, <1>4, Refused DEF Refuses
<1> HIDE DEF q
<1>6. Becomes(i, q) /\ Kept(proc[i], q) /\ Refuses(proc[i], q)
  BY <1>2, <1>5 DEF q
<1> QED
  BY <1>1, <1>4, <1>5, <1>6, Worked, SameStore DEF Alike

LEMMA InsertStep == ASSUME Types, add_entry_insert PROVE Alike
<1>1. PICK i \in Ids :
        /\ MayAdd(i)
        /\ \/ /\ writer = 0 /\ writer' = i /\ row' = i
              /\ Becomes(i, [proc[i] EXCEPT !.state = "inserted"])
              /\ UNCHANGED <<db, init, epoch>>
           \/ /\ Becomes(i, Answers(proc[i], 500))
              /\ UNCHANGED Database
  BY DEF add_entry_insert
<1> DEFINE p == proc[i]
<1>2. p \in Process /\ p.state = "view" /\ p.route = "add" /\ p.session.logged_in
  BY <1>1, Typing DEF At, MayAdd
<1>3. epoch' = epoch
  BY <1>1 DEF Database
<1> HIDE DEF p
<1>4. CASE /\ writer = 0 /\ writer' = i /\ row' = i
           /\ Becomes(i, [proc[i] EXCEPT !.state = "inserted"])
           /\ UNCHANGED <<db, init, epoch>>
  <2> DEFINE q == [p EXCEPT !.state = "inserted"]
  <2>1. "inserted" \in States
    BY DEF States
  <2>2. q \in Process /\ Kept(p, q) /\ SameData(p, q) /\ q.state = "inserted"
        /\ q.status = p.status
    BY <1>2, <2>1, Moved
  <2> HIDE DEF q
  <2>3. Inserts(i, p, q)
    BY <1>2, <1>4, <2>2 DEF Inserts
  <2>4. Becomes(i, q) /\ Kept(proc[i], q) /\ Inserts(i, proc[i], q)
    BY <1>4, <2>2, <2>3 DEF p, q
  <2>5. Works /\ proc' \in [Ids -> Process] /\ cookie' = cookie /\ asked' = asked
    BY <2>2, <2>4, <1>3, Worked
  <2>6. Types'
    BY <2>5, <1>3, <1>4 DEF Types
  <2> QED
    BY <2>5, <2>6 DEF Alike
<1>5. CASE Becomes(i, Answers(proc[i], 500)) /\ UNCHANGED Database
  <2> DEFINE q == Answers(p, 500)
  <2>0. 500 \in Statuses /\ SameFile
    BY <1>5 DEF Statuses, Database, SameFile
  <2>1. q \in Process /\ Kept(p, q) /\ Refuses(p, q)
    BY <2>0, <1>2, Refused DEF Refuses
  <2> HIDE DEF q
  <2>2. Becomes(i, q) /\ Kept(proc[i], q) /\ Refuses(proc[i], q)
    BY <1>5, <2>1 DEF p, q
  <2> QED
    BY <2>1, <2>2, <1>3, <1>5, Worked, SameStore DEF Alike
<1> QED
  BY <1>1, <1>4, <1>5

LEMMA CommitStep == ASSUME Types, Shapes, add_entry_commit PROVE Alike
<1>1. PICK i \in Ids :
        /\ proc[i].state = "inserted"
        /\ \/ /\ db' = commit(i) /\ writer' = 0 /\ row' = 0
              /\ Becomes(i, [Answers(proc[i], 302) EXCEPT !.session = flash(proc[i].session, i),
                                                          !.modified = TRUE])
              /\ UNCHANGED <<init, epoch>>
           \/ /\ Becomes(i, [Answers(proc[i], 500) EXCEPT !.state = "done"])
              /\ UNCHANGED Database
  <2>1. \A p \in Process : Answers(p, 302).session = p.session
    <3>1. 302 \in Statuses
      BY DEF Statuses
    <3> QED
      BY <3>1, Refused DEF SameData
  <2>2. PICK i \in Ids :
        /\ proc[i].state = "inserted"
        /\ \/ /\ db' = commit(i) /\ writer' = 0 /\ row' = 0
              /\ Becomes(i, [Answers(proc[i], 302) EXCEPT
                               !.session = flash(Answers(proc[i], 302).session, i),
                               !.modified = TRUE])
              /\ UNCHANGED <<init, epoch>>
           \/ /\ Becomes(i, [Answers(proc[i], 500) EXCEPT !.state = "done"])
              /\ UNCHANGED Database
    BY Zenon DEF add_entry_commit
  <2>3. Answers(proc[i], 302).session = proc[i].session
    BY <2>1, Typing
  <2> QED
    BY <2>2, <2>3
<1> DEFINE p == proc[i]
<1>2. p \in Process /\ p.state = "inserted" /\ p.session \in Session
      /\ p.session.flashes \in Seq(Ids) /\ p.session.logged_in \in BOOLEAN
  BY <1>1, Typing
<1>3. epoch' = epoch
  BY <1>1 DEF Database
<1>4. writer = i
  BY <1>1 DEF Shapes, Shape
<1> HIDE DEF p
<1>5. CASE /\ db' = commit(i) /\ writer' = 0 /\ row' = 0
           /\ Becomes(i, [Answers(proc[i], 302) EXCEPT !.session = flash(proc[i].session, i),
                                                       !.modified = TRUE])
           /\ UNCHANGED <<init, epoch>>
  <2> DEFINE s == flash(p.session, i)
             q == Redirected(p, s)
  <2>1. s \in Session /\ s.logged_in = p.session.logged_in
        /\ s.flashes = Append(p.session.flashes, i)
    BY <1>2, FlashFacts
  <2>2. Becomes(i, q)
    BY <1>5 DEF p, Redirected
  <2> HIDE DEF s
  <2>3. q \in Process /\ Kept(p, q) /\ Finishes(i, p, q) /\ q.session = s
    <3>1. p \in Process /\ s \in Session /\ s.flashes = Append(p.session.flashes, i)
      BY <1>2, <2>1
    <3> QED
      BY <3>1, Finished, Zenon
  <2> HIDE DEF q
  <2>4. db' \in [table : BOOLEAN, rows : Seq(Ids)] /\ db'.rows = Append(db.rows, i)
    <3>1. db' = [db EXCEPT !.rows = Append(db.rows, i)]
      BY <1>4, <1>5 DEF Types, commit
    <3> QED
      BY <3>1, StoreFacts DEF Types
  <2>5. Commits(i, p, q)
    BY <1>2, <1>5, <2>1, <2>3, <2>4 DEF Commits
  <2>6. Works /\ proc' \in [Ids -> Process] /\ cookie' = cookie /\ asked' = asked
    BY <2>2, <2>3, <2>5, <1>3, Worked DEF p
  <2>7. Types'
    BY <2>4, <2>6, <1>3, <1>5 DEF Types
  <2> QED
    BY <2>6, <2>7 DEF Alike
<1>6. CASE Becomes(i, [Answers(proc[i], 500) EXCEPT !.state = "done"]) /\ UNCHANGED Database
  <2> DEFINE a == Answers(p, 500)
             q == [a EXCEPT !.state = "done"]
  <2>1. 500 \in Statuses /\ "done" \in States /\ SameFile
    BY <1>6 DEF Statuses, States, Database, SameFile
  <2>2. a \in Process /\ Kept(p, a) /\ SameData(p, a) /\ a.status = 500
    BY <1>2, <2>1, Refused
  <2>3. Becomes(i, q)
    BY <1>6 DEF p
  <2> HIDE DEF a
  <2>4. q \in Process /\ Kept(a, q) /\ SameData(a, q) /\ q.state = "done" /\ q.status = 500
    BY <2>1, <2>2, Moved
  <2> HIDE DEF q
  <2>5. Kept(p, q) /\ SameData(p, q)
    BY <2>2, <2>4 DEF Kept, SameData
  <2>6. Sticks(p, q)
    BY <1>2, <2>1, <2>4, <2>5 DEF Sticks
  <2>7. Becomes(i, q) /\ Kept(proc[i], q) /\ Sticks(proc[i], q)
    BY <2>3, <2>5, <2>6 DEF p
  <2> QED
    BY <2>4, <2>7, <1>3, <1>6, Worked, SameStore DEF Alike
<1> QED
  BY <1>1, <1>5, <1>6

LEMMA SameSession ==
  ASSUME Types, NEW i \in Ids
  PROVE  Answers(proc[i], 302).session = proc[i].session
<1>1. 302 \in Statuses
  BY DEF Statuses
<1> QED
  BY <1>1, Typing, Refused DEF SameData

LEMMA LoginFacts ==
  ASSUME NEW s \in Session, NEW v \in BOOLEAN, NEW i \in Ids
  PROVE  /\ flash([s EXCEPT !.logged_in = v], i) \in Session
         /\ flash([s EXCEPT !.logged_in = v], i).logged_in = v
         /\ flash([s EXCEPT !.logged_in = v], i).flashes = Append(s.flashes, i)
<1> DEFINE u == [s EXCEPT !.logged_in = v]
<1>1. u \in Session /\ u.logged_in = v /\ u.flashes = s.flashes
  BY DEF Session
<1> HIDE DEF u
<1>2. flash(u, i) \in Session /\ flash(u, i).logged_in = u.logged_in
      /\ flash(u, i).flashes = Append(u.flashes, i)
  BY <1>1, FlashFacts
<1> QED
  BY <1>1, <1>2 DEF u

LEMMA LoginStep == ASSUME Types, login PROVE Alike
<1>1. PICK i \in Ids :
        /\ At(i, "login")
        /\ \/ Becomes(i, Redirected(proc[i], flash([proc[i].session EXCEPT !.logged_in = TRUE], i)))
           \/ Becomes(i, rendered(proc[i], <<>>))
        /\ UNCHANGED Database
  <2>1. PICK i \in Ids :
          /\ At(i, "login")
          /\ \/ Becomes(i, [Answers(proc[i], 302) EXCEPT
                 !.session = flash([Answers(proc[i], 302).session EXCEPT !.logged_in = TRUE], i),
                 !.modified = TRUE])
             \/ Becomes(i, rendered(proc[i], <<>>))
          /\ UNCHANGED Database
    BY Zenon DEF login
  <2> QED
    BY <2>1, SameSession DEF Redirected
<1> DEFINE p == proc[i]
<1>2. p \in Process /\ p.state = "view" /\ p.route = "login" /\ p.session \in Session
  BY <1>1, Typing DEF At
<1>3. epoch' = epoch /\ SameFile
  BY <1>1 DEF Database, SameFile
<1> HIDE DEF p
<1>4. CASE Becomes(i, Redirected(proc[i], flash([proc[i].session EXCEPT !.logged_in = TRUE], i)))
  <2> DEFINE s == flash([p.session EXCEPT !.logged_in = TRUE], i)
             q == Redirected(p, s)
  <2>1. s \in Session /\ s.logged_in = TRUE /\ s.flashes = Append(p.session.flashes, i)
    BY <1>2, LoginFacts
  <2>2. Becomes(i, q)
    BY <1>4 DEF p
  <2> HIDE DEF s
  <2>3. q \in Process /\ Kept(p, q) /\ Finishes(i, p, q) /\ q.session = s
    BY <1>2, <2>1, Finished, Zenon
  <2> HIDE DEF q
  <2>4. LogsIn(i, p, q)
    BY <1>2, <1>3, <2>1, <2>3 DEF LogsIn
  <2>5. Becomes(i, q) /\ Kept(proc[i], q) /\ LogsIn(i, proc[i], q)
    BY <2>2, <2>3, <2>4 DEF p
  <2> QED
    BY <2>3, <2>5, <1>1, <1>3, Worked, SameStore DEF Alike
<1>5. CASE Becomes(i, rendered(proc[i], <<>>))
  <2> DEFINE e == <<>>
             q == rendered(p, e)
  <2>0. e \in Seq(Ids)
    OBVIOUS
  <2>5. Becomes(i, q)
    BY <1>5 DEF p
  <2>6. e = <<>>
    OBVIOUS
  <2> HIDE DEF e
  <2>3. /\ q \in Process /\ Kept(p, q) /\ q.state = "closed" /\ q.status = 200
        /\ q.shown = p.session.flashes /\ q.session.flashes = <<>>
        /\ q.session.logged_in = p.session.logged_in /\ q.entries = e
        /\ q.modified = (p.modified \/ p.session.flashes # <<>>)
    <3>1. p \in Process /\ p.state = "view"
      BY <1>2
    <3> QED
      BY <2>0, <3>1, Shown
  <2> HIDE DEF q
  <2>4. p.route # "show" /\ p.route \in {"show", "login"}
    BY <1>2
  <2>1. q \in Process /\ Kept(p, q) /\ Shows(p, q)
    BY <2>3, <2>4, <2>6, <1>2, <1>3 DEF Shows
  <2>2. Becomes(i, q) /\ Kept(proc[i], q) /\ Shows(proc[i], q)
    BY <2>5, <2>1 DEF p
  <2> QED
    BY <2>1, <2>2, <1>1, <1>3, Worked, SameStore DEF Alike
<1> QED
  BY <1>1, <1>4, <1>5

LEMMA LogoutStep == ASSUME Types, logout PROVE Alike
<1>1. PICK i \in Ids :
        /\ At(i, "logout")
        /\ Becomes(i, Redirected(proc[i], flash([proc[i].session EXCEPT !.logged_in = FALSE], i)))
        /\ UNCHANGED Database
  <2>1. PICK i \in Ids :
          /\ At(i, "logout")
          /\ Becomes(i, [Answers(proc[i], 302) EXCEPT
                 !.session = LoggedOut(Answers(proc[i], 302).session, i), !.modified = TRUE])
          /\ UNCHANGED Database
    BY Zenon DEF logout
  <2> QED
    BY <2>1, SameSession DEF Redirected, LoggedOut
<1> DEFINE p == proc[i]
<1>2. p \in Process /\ p.state = "view" /\ p.route = "logout" /\ p.session \in Session
  BY <1>1, Typing DEF At
<1>3. epoch' = epoch /\ SameFile
  BY <1>1 DEF Database, SameFile
<1> HIDE DEF p
<1> DEFINE s == flash([p.session EXCEPT !.logged_in = FALSE], i)
           q == Redirected(p, s)
<1>4. s \in Session /\ s.logged_in = FALSE /\ s.flashes = Append(p.session.flashes, i)
  BY <1>2, LoginFacts
<1>5. Becomes(i, q)
  BY <1>1 DEF p
<1> HIDE DEF s
<1>6. q \in Process /\ Kept(p, q) /\ Finishes(i, p, q) /\ q.session = s
  BY <1>2, <1>4, Finished, Zenon
<1> HIDE DEF q
<1>7. LogsOut(i, p, q)
  BY <1>2, <1>3, <1>4, <1>6 DEF LogsOut
<1>8. Becomes(i, q) /\ Kept(proc[i], q) /\ LogsOut(i, proc[i], q)
  BY <1>5, <1>6, <1>7 DEF p
<1> QED
  BY <1>6, <1>8, <1>1, <1>3, Worked, SameStore DEF Alike

\* teardown_request and Kill let go of the file.
LEMMA EndStep ==
  ASSUME Types, NEW i \in Ids, NEW st \in States,
         \/ proc[i].state = "done" /\ st = "closed"
         \/ proc[i].state \in {"view", "inserted", "done", "closed"} /\ st = "killed",
         Becomes(i, [proc[i] EXCEPT !.state = st]), db' = db, writer' = Released(i),
         row' = (IF writer = i THEN 0 ELSE row), epoch' = epoch
  PROVE  Alike
<1> DEFINE p == proc[i]
           q == [p EXCEPT !.state = st]
<1>1. p \in Process
  BY Typing
<1>2. Becomes(i, q)
  OBVIOUS
<1> HIDE DEF p
<1>3. q \in Process /\ Kept(p, q) /\ SameData(p, q) /\ q.state = st /\ q.status = p.status
  BY <1>1, Moved
<1> HIDE DEF q
<1>4. Ends(i, p, q)
  BY <1>3 DEF Ends, p
<1>5. Works /\ proc' \in [Ids -> Process] /\ cookie' = cookie /\ asked' = asked
  BY <1>2, <1>3, <1>4, Worked DEF p
<1>6. Types'
  BY <1>5 DEF Types, Released
<1> QED
  BY <1>5, <1>6 DEF Alike

LEMMA TeardownStep == ASSUME Types, teardown_request PROVE Alike
<1>1. "closed" \in States
  BY DEF States
<1>2. PICK i \in Ids :
        /\ proc[i].state = "done" /\ Becomes(i, [proc[i] EXCEPT !.state = "closed"])
        /\ db' = db /\ writer' = Released(i) /\ row' = (IF writer = i THEN 0 ELSE row)
        /\ epoch' = epoch
  BY DEF teardown_request, Closed
<1> QED
  BY <1>1, <1>2, EndStep

LEMMA KillStep == ASSUME Types, Kill PROVE Alike
<1>1. "killed" \in States
  BY DEF States
<1>2. PICK i \in Ids :
        /\ Live(i) /\ Becomes(i, [proc[i] EXCEPT !.state = "killed"])
        /\ db' = db /\ writer' = Released(i) /\ row' = (IF writer = i THEN 0 ELSE row)
        /\ epoch' = epoch
  BY DEF Kill
<1>3. proc[i].state \in {"view", "inserted", "done", "closed"}
  BY <1>2, Typing DEF Live, States
<1> QED
  BY <1>1, <1>2, <1>3, EndStep

\* A request: the next process, in its view, with the browser's cookie.
Asks(b, i) ==
  /\ b \in Browsers /\ i \in Ids /\ i = asked + 1 /\ asked' = i
  /\ Cardinality(Pending(b)) < Parallel[b]
  /\ proc'[i].state = "view" /\ proc'[i].browser = b /\ proc'[i].session = cookie[b]
  /\ proc'[i].status = 0 /\ ~proc'[i].modified /\ proc'[i].entries = <<>>
  /\ proc'[i].shown = <<>> /\ proc'[i].epoch = epoch
  /\ \A j \in Ids \ {i} : proc'[j] = proc[j]
  /\ cookie' = cookie /\ SameFile /\ epoch' = epoch

LEMMA NoProcFacts ==
  /\ NoProc \in Process /\ NoProc.state = "none" /\ NoProc.status = 0 /\ NoProc.modified = FALSE
  /\ NoProc.entries = <<>> /\ NoProc.shown = <<>> /\ NoProc.epoch = 0 /\ NoProc.route = "show"
<1>1. NoSession \in Session
  BY DEF NoSession, Session
<1>2. "none" \in States /\ "show" \in Routes /\ 0 \in Statuses
  BY DEF States, Statuses, Routes
<1>3. <<>> \in Seq(Ids) /\ "" \in Browsers \union {""} /\ FALSE \in BOOLEAN /\ 0 \in Nat
  OBVIOUS
<1>4. NoProc \in Process
  BY <1>1, <1>2, <1>3, Zenon DEF NoProc, Process
<1> QED
  BY <1>4, Zenon DEF NoProc

LEMMA NewProcess ==
  ASSUME NEW b \in Browsers, NEW k \in Routes, epoch \in Nat, cookie[b] \in Session
  PROVE  LET q == before_request(b, k)
         IN /\ q \in Process /\ q.state = "view" /\ q.browser = b /\ q.session = cookie[b]
            /\ q.status = 0 /\ ~q.modified /\ q.entries = <<>> /\ q.shown = <<>>
            /\ q.epoch = epoch
<1> DEFINE n1 == [NoProc EXCEPT !.state = "view"]
           n2 == [n1 EXCEPT !.browser = b]
           n3 == [n2 EXCEPT !.route = k]
           n4 == [n3 EXCEPT !.session = cookie[b]]
           n5 == [n4 EXCEPT !.epoch = epoch]
           Blank(q) == /\ q.status = 0 /\ q.modified = FALSE /\ q.entries = <<>>
                       /\ q.shown = <<>> /\ q.state = "view"
<1>0. before_request(b, k) = n5
  BY DEF before_request
<1>1. n1 \in Process /\ n1.status = 0 /\ n1.modified = FALSE /\ n1.entries = <<>>
      /\ n1.shown = <<>> /\ n1.state = "view"
  BY NoProcFacts DEF Process, States
<1> HIDE DEF n1
<1>2. n2 \in Process /\ Blank(n2) /\ n2.browser = b
  BY <1>1 DEF Process
<1> HIDE DEF n2
<1>3. n3 \in Process /\ Blank(n3) /\ n3.browser = b
  BY <1>2 DEF Process
<1> HIDE DEF n3
<1>4. n4 \in Process /\ Blank(n4) /\ n4.browser = b /\ n4.session = cookie[b]
  BY <1>3 DEF Process
<1> HIDE DEF n4
<1>5. n5 \in Process /\ Blank(n5) /\ n5.browser = b /\ n5.session = cookie[b] /\ n5.epoch = epoch
  BY <1>4 DEF Process
<1> QED
  BY <1>0, <1>5

LEMMA AskStep == ASSUME Types, Ask PROVE Types' /\ \E b, i : Asks(b, i)
<1>1. PICK b \in Browsers, k \in Kinds :
        /\ Cardinality(Pending(b)) < Parallel[b]
        /\ proc' = [proc EXCEPT ![asked + 1] = before_request(b, k)]
        /\ asked < MaxRequests /\ asked' = asked + 1 /\ UNCHANGED <<cookie, trouble, Database>>
  BY Zenon DEF Ask
<1> DEFINE i == asked + 1
           q == before_request(b, k)
<1>2. i \in Ids /\ i \in 0..MaxRequests /\ k \in Routes /\ epoch \in Nat /\ cookie[b] \in Session
  BY <1>1, FlaskrAssumption DEF Types, Ids
<1>4. /\ q \in Process /\ q.state = "view" /\ q.browser = b /\ q.session = cookie[b]
      /\ q.status = 0 /\ ~q.modified /\ q.entries = <<>> /\ q.shown = <<>> /\ q.epoch = epoch
  BY <1>2, NewProcess
<1>6. proc' = [proc EXCEPT ![i] = q]
  BY <1>1
<1> HIDE DEF q
<1>7. proc' \in [Ids -> Process] /\ proc'[i] = q /\ \A j \in Ids \ {i} : proc'[j] = proc[j]
  BY <1>2, <1>4, <1>6 DEF Types
<1>8. cookie' = cookie /\ SameFile /\ row' = row /\ epoch' = epoch /\ asked' = i
  BY <1>1 DEF Database, SameFile
<1>9. Types'
  BY <1>2, <1>7, <1>8 DEF Types, SameFile
<1>10. Asks(b, i)
  BY <1>1, <1>2, <1>4, <1>7, <1>8 DEF Asks
<1> QED
  BY <1>9, <1>10

\* An answer arrives.
Receives(i) ==
  /\ i \in Ids /\ proc[i].state = "closed" /\ proc'[i].state = "answered"
  /\ Kept(proc[i], proc'[i]) /\ SameData(proc[i], proc'[i])
  /\ proc'[i].status = proc[i].status
  /\ \A j \in Ids \ {i} : proc'[j] = proc[j]
  /\ \A b \in Browsers :
       cookie'[b] = IF proc[i].modified /\ b = proc[i].browser THEN proc[i].session ELSE cookie[b]
  /\ asked' = asked /\ SameFile /\ epoch' = epoch

LEMMA ReceiveStep == ASSUME Types, Receive PROVE Types' /\ \E i : Receives(i)
<1>1. PICK i \in Ids :
        /\ proc[i].state = "closed"
        /\ proc' = [proc EXCEPT ![i].state = "answered"]
        /\ cookie' = IF proc[i].modified
                       THEN [cookie EXCEPT ![proc[i].browser] = proc[i].session] ELSE cookie
        /\ UNCHANGED <<asked, trouble, Database>>
  BY Zenon DEF Receive
<1> DEFINE p == proc[i]
           q == [p EXCEPT !.state = "answered"]
<1>2. p \in Process /\ p.session \in Session /\ "answered" \in States
  BY Typing DEF States
<1>3. proc' = [proc EXCEPT ![i] = q]
  BY <1>1
<1> HIDE DEF p
<1>4. q \in Process /\ Kept(p, q) /\ SameData(p, q) /\ q.state = "answered" /\ q.status = p.status
  BY <1>2, Moved
<1> HIDE DEF q
<1>5. proc' \in [Ids -> Process] /\ proc'[i] = q /\ \A j \in Ids \ {i} : proc'[j] = proc[j]
  BY <1>3, <1>4 DEF Types
<1>6. /\ cookie' \in [Browsers -> Session]
      /\ \A b \in Browsers :
           cookie'[b] = IF p.modified /\ b = p.browser THEN p.session ELSE cookie[b]
  <2>1. cookie' = IF p.modified THEN [cookie EXCEPT ![p.browser] = p.session] ELSE cookie
    BY <1>1 DEF p
  <2> QED
    BY <1>2, <2>1 DEF Types
<1>7. SameFile /\ row' = row /\ epoch' = epoch /\ asked' = asked
  BY <1>1 DEF Database, SameFile
<1>8. Types'
  BY <1>5, <1>6, <1>7 DEF Types, SameFile
<1>9. Receives(i)
  BY <1>1, <1>4, <1>5, <1>6, <1>7 DEF Receives, p
<1> QED
  BY <1>8, <1>9

\* The administrator drops the table, or makes it again.
Administers ==
  /\ proc' = proc /\ cookie' = cookie /\ asked' = asked /\ writer' = writer
  /\ \/ epoch' = epoch + 1 /\ db'.rows = <<>>
     \/ epoch' = epoch /\ db'.rows = db.rows

LEMMA InitDbStep == ASSUME Types, init_db PROVE Types' /\ Administers
<1>1. UNCHANGED <<writer, row, cookie, proc, asked>>
  BY DEF init_db
<1>2. CASE epoch' = epoch + 1 /\ db' = [table |-> FALSE, rows |-> <<>>]
  <2>1. db' \in [table : BOOLEAN, rows : Seq(Ids)] /\ db'.rows = <<>>
    <3>1. <<>> \in Seq(Ids)
      OBVIOUS
    <3> QED
      BY <1>2, <3>1
  <2> QED
    BY <1>1, <1>2, <2>1 DEF Types, Administers
<1>3. CASE epoch' = epoch /\ db' = [db EXCEPT !.table = TRUE]
  <2>1. db' \in [table : BOOLEAN, rows : Seq(Ids)] /\ db'.rows = db.rows
    BY <1>3 DEF Types
  <2> QED
    BY <1>1, <1>3, <2>1 DEF Types, Administers
<1> QED
  BY <1>2, <1>3 DEF init_db

Stays ==
  proc' = proc /\ cookie' = cookie /\ asked' = asked /\ SameFile /\ epoch' = epoch

Moves ==
  Works \/ (\E b, i : Asks(b, i)) \/ (\E i : Receives(i)) \/ Administers \/ Stays

LEMMA Steps == ASSUME Types, Shapes, [Next]_vars PROVE Types' /\ Moves
<1>1. CASE Work
  BY <1>1, ShowStep, RefuseStep, InsertStep, CommitStep, LoginStep, LogoutStep, TeardownStep,
     ReceiveStep DEF Work, Alike, Moves
<1>2. CASE UNCHANGED vars
  BY <1>2 DEF vars, Types, Stays, SameFile, Moves
<1> QED
  BY <1>1, <1>2, AskStep, KillStep, InitDbStep DEF Next, Alike, Moves

----------------------------------------------------------------------------
(* Each part of the invariant is kept. *)

\* What a turn of process i leaves of the others, and what it can make of its own fields.
LEMMA TurnFacts ==
  ASSUME Types, Types', Shapes, NEW i \in Ids, Turn(i, proc[i], proc'[i])
  PROVE  /\ Live(i) /\ i <= asked
         /\ proc'[i].state \in {"inserted", "done", "closed", "killed"}
         /\ proc[i].status = 302 => proc'[i].status = 302
         /\ proc'[i].status = 302 /\ proc[i].status # 302 => Finishes(i, proc[i], proc'[i])
<1>1. proc[i].state \in {"view", "inserted", "done", "closed"}
      /\ proc'[i].state \in {"inserted", "done", "closed", "killed"}
  BY DEF Turn, Shows, Refuses, Inserts, Commits, LogsIn, LogsOut, Sticks, Ends, Finishes
<1>2. Live(i) /\ i <= asked
  BY <1>1 DEF Shapes, Shape, Live, Types, Ids
<1>3. proc[i].status = 302 => proc[i].state = "closed"
  BY <1>1 DEF Shapes, Shape
<1>4. /\ proc[i].status = 302 => proc'[i].status = 302
      /\ proc'[i].status = 302 /\ proc[i].status # 302 => Finishes(i, proc[i], proc'[i])
  BY <1>1, <1>3 DEF Turn, Shows, Refuses, Inserts, Commits, LogsIn, LogsOut, Sticks, Ends
<1> QED
  BY <1>1, <1>2, <1>4

LEMMA ShapesStep == ASSUME Types, Types', Shapes, Moves PROVE Shapes'
<1>1. CASE Works
  <2>1. PICK i \in Ids : Turn(i, proc[i], proc'[i])
    BY <1>1 DEF Works
  <2>2. asked' = asked /\ epoch' = epoch /\ Kept(proc[i], proc'[i]) /\ Live(i) /\ i <= asked
    BY <2>1, TurnFacts DEF Turn
  <2>3. /\ proc'[i].state \in {"inserted", "done"} <=> writer' = i
        /\ \A j \in Ids \ {i} : writer' = j <=> writer = j
    BY <2>1, SMTT(60) DEF Turn, Shows, Refuses, Inserts, Commits, LogsIn, LogsOut, Sticks, Ends,
       SameFile, Finishes, Released, Shapes, Shape, Types, Ids
  <2>4. /\ proc'[i].state # "none" /\ proc'[i].state # "view"
        /\ proc'[i].state = "inserted" =>
             proc'[i].status = 0 /\ ~proc'[i].modified /\ proc'[i].shown = <<>>
             /\ proc'[i].entries = <<>>
        /\ proc'[i].state = "done" =>
             proc'[i].status = 500 /\ ~proc'[i].modified /\ proc'[i].shown = <<>>
        /\ proc'[i].state \in {"inserted", "done"} => proc'[i].route = "add"
        /\ proc'[i].state = "inserted" => proc'[i].session.logged_in
    BY <2>1 DEF Turn, Shows, Refuses, Inserts, Commits, LogsIn, LogsOut, Sticks, Ends,
       SameData, Finishes, Kept, Shapes, Shape
  <2>5. Shape(i)'
    BY <2>2, <2>3, <2>4 DEF Shapes, Shape, Kept, Types, Ids
  <2>6. ASSUME NEW j \in Ids \ {i} PROVE Shape(j)'
    <3>1. proc'[j] = proc[j] /\ Shape(j)
      BY <2>1 DEF Turn, Shapes
    <3> QED
      BY <2>2, <2>3, <3>1 DEF Shape
  <2> QED
    BY <2>5, <2>6 DEF Shapes
<1>2. CASE \E b, i : Asks(b, i)
  <2>1. PICK b, i : Asks(b, i)
    BY <1>2
  <2>2. Shape(i)'
    BY <2>1 DEF Asks, SameFile, Shapes, Shape, Types, Ids
  <2>3. ASSUME NEW j \in Ids \ {i} PROVE Shape(j)'
    <3>1. proc'[j] = proc[j] /\ Shape(j) /\ epoch' = epoch /\ writer' = writer
          /\ (j > asked <=> j > asked') /\ (j <= asked <=> j <= asked')
      BY <2>1 DEF Asks, Shapes, SameFile, Types, Ids
    <3> QED
      BY <3>1 DEF Shape
  <2> QED
    BY <2>2, <2>3 DEF Shapes
<1>3. CASE \E i : Receives(i)
  <2>1. PICK i : Receives(i)
    BY <1>3
  <2>2. Shape(i)'
    BY <2>1 DEF Receives, SameFile, SameData, Kept, Shapes, Shape
  <2>3. ASSUME NEW j \in Ids \ {i} PROVE Shape(j)'
    BY <2>1 DEF Receives, SameFile, Shapes, Shape
  <2> QED
    BY <2>2, <2>3 DEF Shapes
<1>4. CASE Administers
  <2>1. SUFFICES ASSUME NEW i \in Ids PROVE Shape(i)'
    BY DEF Shapes
  <2>2. proc[i].epoch \in Nat /\ epoch \in Nat /\ proc[i].epoch <= epoch
    BY Typing DEF Types, Shapes, Shape
  <2>3. proc'[i].epoch <= epoch'
    BY <1>4, <2>2 DEF Administers
  <2> QED
    BY <1>4, <2>3 DEF Administers, Shapes, Shape
<1>5. CASE Stays
  BY <1>5 DEF Stays, Shapes, Shape, SameFile
<1> QED
  BY <1>1, <1>2, <1>3, <1>4, <1>5 DEF Moves

LEMMA AloneStep == ASSUME Types, Types', Shapes, Alone, Moves PROVE Alone'
<1>1. CASE Works
  <2>1. PICK i \in Ids : Turn(i, proc[i], proc'[i])
    BY <1>1 DEF Works
  <2>2. asked' = asked /\ Kept(proc[i], proc'[i]) /\ Live(i)
        /\ \A j \in Ids \ {i} : proc'[j] = proc[j]
    BY <2>1, TurnFacts DEF Turn
  <2> QED
    BY <2>2 DEF Alone, Kept, Live, Sequential
<1>2. CASE \E b, i : Asks(b, i)
  <2>1. PICK b, i : Asks(b, i)
    BY <1>2
  <2>2. /\ b \in Browsers /\ i \in Ids /\ i = asked + 1 /\ asked' = i
        /\ proc'[i].state = "view" /\ proc'[i].browser = b
        /\ \A j \in Ids \ {i} : proc'[j] = proc[j]
    BY <2>1 DEF Asks
  <2>3. ASSUME b \in Sequential PROVE Pending(b) = {}
    <3>1. Pending(b) \subseteq Ids /\ IsFiniteSet(Ids)
      BY FS_Interval, FlaskrAssumption DEF Pending, Ids
    <3>2. IsFiniteSet(Pending(b))
      BY <3>1, FS_Subset
    <3>3. Cardinality(Pending(b)) \in Nat /\ Cardinality(Pending(b)) < 1
      BY <2>1, <2>3, <3>2, FS_CardinalityType DEF Asks, Sequential
    <3> QED
      BY <3>2, <3>3, FS_EmptySet
  <2>4. SUFFICES ASSUME NEW k \in Ids, NEW j \in Ids, Live(k)', proc'[k].browser \in Sequential,
                        j <= asked', proc'[j].browser = proc'[k].browser
                 PROVE  j <= k
    BY DEF Alone, Sequential
  <2>5. CASE k = i
    BY <2>2, <2>4, <2>5
  <2>6. CASE k # i /\ j = i
    <3>1. k \in Pending(b)
      BY <2>2, <2>4, <2>6 DEF Pending, Live
    <3> QED
      BY <2>2, <2>3, <2>4, <2>6, <3>1
  <2>7. CASE k # i /\ j # i
    <3>1. j <= asked /\ Live(k) /\ proc[k].browser \in Sequential
          /\ proc[j].browser = proc[k].browser
      BY <2>2, <2>4, <2>7 DEF Live, Types, Ids
    <3> QED
      BY <3>1 DEF Alone
  <2> QED
    BY <2>5, <2>6, <2>7
<1>3. CASE \E i : Receives(i)
  BY <1>3 DEF Receives, Alone, Live, Kept, Sequential
<1>4. CASE Administers
  BY <1>4 DEF Administers, Alone, Live, Sequential
<1>5. CASE Stays
  BY <1>5 DEF Stays, Alone, Live, Sequential
<1> QED
  BY <1>1, <1>2, <1>3, <1>4, <1>5 DEF Moves

\* What was once answered stays.
LEMMA Stable ==
  ASSUME Types, Types', Shapes, Moves
  PROVE  /\ asked <= asked'
         /\ \A j \in Ids : j <= asked =>
              /\ Kept(proc[j], proc'[j])
              /\ proc[j].status = 302 => proc'[j].status = 302
              /\ Answered(j) => proc'[j] = proc[j]
<1>1. CASE Works
  <2>1. PICK i \in Ids : Turn(i, proc[i], proc'[i])
    BY <1>1 DEF Works
  <2>2. Live(i) /\ asked' = asked /\ (proc[i].status = 302 => proc'[i].status = 302)
        /\ Kept(proc[i], proc'[i]) /\ \A j \in Ids \ {i} : proc'[j] = proc[j]
    BY <2>1, TurnFacts DEF Turn
  <2> QED
    BY <2>2 DEF Kept, Live, Answered, Types
<1>2. CASE \E b, i : Asks(b, i)
  BY <1>2 DEF Asks, Kept, Types, Ids
<1>3. CASE \E i : Receives(i)
  BY <1>3 DEF Receives, Kept, Types, Answered
<1>4. CASE Administers
  BY <1>4 DEF Administers, Kept, Types
<1>5. CASE Stays
  BY <1>5 DEF Stays, Kept, Types
<1> QED
  BY <1>1, <1>2, <1>3, <1>4, <1>5 DEF Moves

LEMMA Redirects ==
  ASSUME Types, Shapes, NEW i \in Ids, proc[i].status = 302
  PROVE  i <= asked
  BY DEF Types, Shapes, Shape, Ids

\* The only step that writes a row.
LEMMA Writing ==
  ASSUME Types, Types', Shapes, NEW i \in Ids, Turn(i, proc[i], proc'[i])
  PROVE  \/ /\ db'.rows = Append(db.rows, i) /\ proc[i].status = 0 /\ proc'[i].status = 302
            /\ proc'[i].route = "add"
         \/ /\ db'.rows = db.rows
            /\ proc'[i].route = "add" /\ proc'[i].status = 302 => proc[i].status = 302
<1>1. CASE Commits(i, proc[i], proc'[i])
  BY <1>1 DEF Turn, Kept, Commits, Finishes, Shapes, Shape
<1>2. CASE Shows(proc[i], proc'[i])
  BY <1>2 DEF Shows, SameFile
<1>3. CASE Refuses(proc[i], proc'[i])
  BY <1>3 DEF Refuses, SameFile
<1>4. CASE Inserts(i, proc[i], proc'[i])
  BY <1>4 DEF Inserts
<1>5. CASE LogsIn(i, proc[i], proc'[i]) \/ LogsOut(i, proc[i], proc'[i])
  BY <1>5 DEF LogsIn, LogsOut, SameFile, Turn, Kept
<1>6. CASE Sticks(proc[i], proc'[i])
  BY <1>6 DEF Sticks, SameFile
<1>7. CASE Ends(i, proc[i], proc'[i])
  BY <1>7 DEF Ends
<1> QED
  BY <1>1, <1>2, <1>3, <1>4, <1>5, <1>6, <1>7 DEF Turn

LEMMA StoredStep == ASSUME Types, Types', Shapes, Alone, Stored, Moves PROVE Stored'
<1>0. db.rows \in Seq(Ids) /\ db'.rows \in Seq(Ids)
  BY DEF Types
<1>1. \A k \in DOMAIN db.rows : db.rows[k] \in Ids
  BY <1>0
<1>2. \A k \in DOMAIN db.rows : db.rows[k] <= asked
  BY <1>1, Redirects DEF Stored
\* Steps that write no row: the rows stay, and nobody answers another redirect.
<1>3. ASSUME db'.rows = db.rows, epoch' = epoch,
             \A i \in Ids : proc'[i].route = "add" /\ proc'[i].status = 302 =>
                            proc[i].status = 302
      PROVE  Stored'
  <2>1. \A k \in DOMAIN db.rows : Kept(proc[db.rows[k]], proc'[db.rows[k]])
                                 /\ proc'[db.rows[k]].status = 302
    BY <1>1, <1>2, Stable DEF Stored
  <2>2. \A k \in DOMAIN db'.rows : proc'[db'.rows[k]].route = "add" /\ proc'[db'.rows[k]].status = 302
    BY <1>3, <2>1 DEF Stored, Kept
  <2>3. ASSUME NEW i \in Ids, proc'[i].route = "add", proc'[i].status = 302, proc'[i].epoch = epoch'
        PROVE  \E k \in DOMAIN db'.rows : db'.rows[k] = i
    <3>1. proc[i].status = 302 /\ Kept(proc[i], proc'[i])
      BY <1>3, <2>3, Redirects, Stable
    <3> QED
      BY <1>3, <2>3, <3>1 DEF Stored, Kept
  <2>4. /\ \A k1, k2 \in DOMAIN db'.rows : db'.rows[k1] = db'.rows[k2] => k1 = k2
        /\ \A k1, k2 \in DOMAIN db'.rows :
             k1 < k2 /\ proc'[db'.rows[k1]].browser \in Sequential
             /\ proc'[db'.rows[k1]].browser = proc'[db'.rows[k2]].browser =>
               db'.rows[k1] < db'.rows[k2]
    BY <1>3, <2>1 DEF Stored, Kept
  <2> QED
    BY <2>2, <2>3, <2>4 DEF Stored, Sequential
<1>4. CASE Works
  <2>1. PICK i \in Ids : Turn(i, proc[i], proc'[i])
    BY <1>4 DEF Works
  <2>2. epoch' = epoch /\ \A j \in Ids \ {i} : proc'[j] = proc[j]
    BY <2>1 DEF Turn
  <2>3. CASE /\ db'.rows = Append(db.rows, i) /\ proc[i].status = 0 /\ proc'[i].status = 302
             /\ proc'[i].route = "add"
    <3> DEFINE n == Len(db.rows)
    <3>1. /\ n \in Nat /\ DOMAIN db.rows = 1..n /\ DOMAIN db'.rows = 1..(n + 1)
          /\ db'.rows[n + 1] = i /\ \A k \in 1..n : db'.rows[k] = db.rows[k]
      BY <1>0, <2>3
    <3>2. /\ Live(i) /\ asked' = asked
          /\ Kept(proc[i], proc'[i])
      BY <2>1, TurnFacts DEF Turn
    <3>3. \A k \in 1..n : db.rows[k] # i /\ db.rows[k] \in Ids /\ db.rows[k] <= asked
                         /\ proc'[db.rows[k]] = proc[db.rows[k]]
                         /\ proc[db.rows[k]].route = "add" /\ proc[db.rows[k]].status = 302
      BY <1>1, <1>2, <2>2, <2>3, <3>1 DEF Stored
    <3> HIDE DEF n
    <3>4. \A k \in DOMAIN db'.rows : k = n + 1 \/ k \in 1..n
      BY <3>1
    <3>5. \A k \in DOMAIN db'.rows : proc'[db'.rows[k]].route = "add" /\ proc'[db'.rows[k]].status = 302
      BY <2>3, <3>1, <3>3, <3>4
    <3>6. ASSUME NEW j \in Ids, proc'[j].route = "add", proc'[j].status = 302, proc'[j].epoch = epoch'
          PROVE  \E k \in DOMAIN db'.rows : db'.rows[k] = j
      <4>1. CASE j = i
        <5>1. n + 1 \in DOMAIN db'.rows
          BY <3>1
        <5> QED
          BY <3>1, <4>1, <5>1
      <4>2. CASE j # i
        <5>1. PICK k \in DOMAIN db.rows : db.rows[k] = j
          BY <2>2, <3>6, <4>2 DEF Stored
        <5>2. k \in 1..n /\ k \in DOMAIN db'.rows
          BY <3>1, <5>1
        <5> QED
          BY <3>1, <5>1, <5>2
      <4> QED
        BY <4>1, <4>2
    <3>7. \A k1, k2 \in DOMAIN db'.rows : db'.rows[k1] = db'.rows[k2] => k1 = k2
      BY <3>1, <3>3, <3>4 DEF Stored
    <3>8. ASSUME NEW k1 \in DOMAIN db'.rows, NEW k2 \in DOMAIN db'.rows, k1 < k2,
                 proc'[db'.rows[k1]].browser \in Sequential,
                 proc'[db'.rows[k1]].browser = proc'[db'.rows[k2]].browser
          PROVE  db'.rows[k1] < db'.rows[k2]
      <4>1. k1 \in 1..n
        BY <3>1, <3>4, <3>8
      <4>2. CASE k2 \in 1..n
        BY <3>1, <3>3, <3>8, <4>1, <4>2 DEF Stored
      <4>3. CASE k2 = n + 1
        <5>1. db'.rows[k1] = db.rows[k1] /\ db'.rows[k2] = i
          BY <3>1, <4>1, <4>3
        <5>2. db.rows[k1] <= asked /\ db.rows[k1] # i /\ db.rows[k1] \in Ids
              /\ proc[db.rows[k1]].browser = proc[i].browser /\ proc[i].browser \in Sequential
          BY <3>2, <3>3, <3>8, <4>1, <5>1 DEF Kept
        <5>3. db.rows[k1] <= i
          BY <3>2, <5>2 DEF Alone
        <5> QED
          BY <5>1, <5>2, <5>3 DEF Ids
      <4> QED
        BY <3>4, <4>2, <4>3
    <3> QED
      BY <3>5, <3>6, <3>7, <3>8 DEF Stored, Sequential
  <2>4. CASE /\ db'.rows = db.rows
             /\ proc'[i].route = "add" /\ proc'[i].status = 302 => proc[i].status = 302
    BY <1>3, <2>2, <2>4
  <2> QED
    BY <2>1, <2>3, <2>4, Writing
<1>5. CASE \E b, i : Asks(b, i)
  <2>1. db'.rows = db.rows /\ epoch' = epoch
        /\ \A i \in Ids : proc'[i].status = 302 => proc[i].status = 302
    BY <1>5 DEF Asks, SameFile
  <2> QED
    BY <1>3, <2>1
<1>6. CASE \E i : Receives(i)
  <2>1. db'.rows = db.rows /\ epoch' = epoch
        /\ \A i \in Ids : proc'[i].status = 302 => proc[i].status = 302
    BY <1>6 DEF Receives, SameFile
  <2> QED
    BY <1>3, <2>1
<1>7. CASE Administers
  <2>1. CASE epoch' = epoch + 1 /\ db'.rows = <<>>
    <3>1. \A i \in Ids : proc'[i].epoch # epoch'
      <4>1. \A i \in Ids : proc[i].epoch \in Nat /\ epoch \in Nat /\ proc[i].epoch <= epoch
        BY Typing DEF Types, Shapes, Shape
      <4> QED
        BY <1>7, <2>1, <4>1 DEF Administers
    <3>2. \A k \in DOMAIN db'.rows : FALSE
      BY <2>1
    <3> QED
      BY <3>1, <3>2 DEF Stored
  <2>2. CASE epoch' = epoch /\ db'.rows = db.rows
    BY <1>3, <1>7, <2>2 DEF Administers
  <2> QED
    BY <1>7, <2>1, <2>2 DEF Administers
<1>8. CASE Stays
  BY <1>3, <1>8 DEF Stays, SameFile
<1> QED
  BY <1>4, <1>5, <1>6, <1>7, <1>8 DEF Moves

\* A page stays as it was: its process keeps it, and whoever posts since then comes later.
LEMMA PageStays ==
  ASSUME Types, Types', Shapes, Alone, Pages, Moves, epoch' = epoch, NEW i \in Ids, i <= asked,
         proc'[i].entries = proc[i].entries,
         proc'[i].route = "show" /\ proc'[i].status = 200 => proc[i].status = 200,
         \A j \in Ids : proc'[j].status = 302 => proc[j].status = 302 \/ Live(j)
  PROVE  Page(i)'
<1> DEFINE e == proc[i].entries
<1>0. e \in Seq(Ids) /\ Page(i) /\ Kept(proc[i], proc'[i])
  BY Typing, Stable DEF Pages
<1>1. \A k \in DOMAIN e : e[k] \in Ids
  BY <1>0
<1>2. \A k \in DOMAIN e : proc[e[k]].status = 302
  BY <1>0 DEF Page
<1> HIDE DEF e
<1>3. \A k \in DOMAIN e : proc'[e[k]].status = 302 /\ Kept(proc[e[k]], proc'[e[k]])
  BY <1>1, <1>2, Redirects, Stable
<1>4. \A k1, k2 \in DOMAIN e :
        k1 < k2 /\ proc'[e[k1]].browser \in Sequential
        /\ proc'[e[k1]].browser = proc'[e[k2]].browser => e[k2] < e[k1]
  BY <1>0, <1>3 DEF Page, Kept, e
<1>5. ASSUME NEW j \in Ids,
             proc'[i].route = "show", proc'[i].status = 200, proc'[i].epoch = epoch,
             proc'[i].browser \in Sequential, j < i, proc'[j].browser = proc'[i].browser,
             proc'[j].route = "add", proc'[j].status = 302, proc'[j].epoch = epoch
      PROVE  \E k \in DOMAIN e : e[k] = j
  <2>1. proc[i].status = 200 /\ proc[i].route = "show" /\ proc[i].epoch = epoch
        /\ proc[i].browser \in Sequential /\ proc[i].browser = proc'[i].browser
    BY <1>0, <1>5 DEF Kept
  <2>2. j <= asked
    BY <1>5 DEF Types, Ids
  <2>3. proc[j].browser = proc[i].browser /\ proc[j].route = "add" /\ proc[j].epoch = epoch
    BY <1>5, <2>1, <2>2, Stable DEF Kept
  <2>4. ~Live(j)
    BY <1>5, <2>1, <2>3 DEF Alone, Ids
  <2>5. proc[j].status = 302
    BY <1>5, <2>4
  <2> QED
    BY <1>0, <1>5, <2>1, <2>3, <2>5 DEF Page, e
<1> QED
  BY <1>3, <1>4, <1>5 DEF Page, Sequential, e

\* A page is made of the rows.
LEMMA PageMade ==
  ASSUME Types, Types', Shapes, Stored, Moves, epoch' = epoch, NEW i \in Ids, proc[i].status # 302,
         proc'[i].entries = Reverse(db.rows),
         \A j \in Ids \ {i} : proc'[j] = proc[j], proc'[i].status # 302
  PROVE  Page(i)'
<1> DEFINE n == Len(db.rows)
           e == Reverse(db.rows)
           m(k) == n - k + 1
<1>0. db.rows \in Seq(Ids)
  BY DEF Types
<1>1. /\ n \in Nat /\ DOMAIN db.rows = 1..n /\ DOMAIN e = 1..n
      /\ \A k \in 1..n : e[k] = db.rows[m(k)]
  BY <1>0, ReverseFacts
<1>6. \A k \in 1..n : db.rows[k] \in Ids
  BY <1>0
<1> HIDE DEF n, e
<1>7. /\ \A k \in 1..n : m(k) \in 1..n /\ m(m(k)) = k
      /\ \A k1, k2 \in 1..n : k1 < k2 => m(k2) < m(k1)
  BY <1>1
<1> HIDE DEF m
<1>2. \A k \in 1..n : db.rows[k] # i /\ proc'[db.rows[k]] = proc[db.rows[k]]
                     /\ proc[db.rows[k]].status = 302
  BY <1>1, <1>6 DEF Stored
<1>3. \A k \in DOMAIN e : proc'[e[k]].status = 302
  BY <1>1, <1>2, <1>7
<1>4. ASSUME NEW k1 \in DOMAIN e, NEW k2 \in DOMAIN e, k1 < k2, proc'[e[k1]].browser \in Sequential,
             proc'[e[k1]].browser = proc'[e[k2]].browser
      PROVE  e[k2] < e[k1]
  <2>1. /\ m(k1) \in 1..n /\ m(k2) \in 1..n /\ m(k2) < m(k1)
        /\ e[k1] = db.rows[m(k1)] /\ e[k2] = db.rows[m(k2)]
    BY <1>1, <1>4, <1>7
  <2>2. proc[db.rows[m(k1)]].browser \in Sequential
        /\ proc[db.rows[m(k2)]].browser = proc[db.rows[m(k1)]].browser
    BY <1>2, <1>4, <2>1
  <2> QED
    BY <1>1, <2>1, <2>2 DEF Stored
<1>5. ASSUME NEW j \in Ids, j < i, proc'[j].route = "add", proc'[j].status = 302,
             proc'[j].epoch = epoch
      PROVE  \E k \in DOMAIN e : e[k] = j
  <2>1. proc'[j] = proc[j]
    BY <1>5 DEF Ids
  <2>2. PICK l \in 1..n : db.rows[l] = j
    BY <1>1, <1>5, <2>1 DEF Stored
  <2> QED
    BY <1>1, <1>7, <2>2
<1> QED
  BY <1>3, <1>4, <1>5 DEF Page, Sequential, e

LEMMA PagesStep == ASSUME Types, Types', Shapes, Alone, Stored, Pages, Moves PROVE Pages'
\* A process that has not asked yet has no page.
<1>0. ASSUME NEW i \in Ids, proc'[i].entries = <<>>, proc'[i].status # 200 \/ proc'[i].route # "show"
      PROVE  Page(i)'
  BY <1>0 DEF Page
<1>1. CASE Works
  <2>1. PICK i \in Ids : Turn(i, proc[i], proc'[i])
    BY <1>1 DEF Works
  <2>2. /\ epoch' = epoch /\ Live(i) /\ i <= asked /\ asked' = asked
        /\ \A j \in Ids \ {i} : proc'[j] = proc[j]
    BY <2>1, TurnFacts DEF Turn
  <2>3. ASSUME NEW j \in Ids \ {i} PROVE Page(j)'
    <3>1. CASE j <= asked
      BY <2>2, <3>1, PageStays
    <3>2. CASE j > asked
      <4>1. proc[j].entries = <<>> /\ proc[j].status = 0
        BY <3>2 DEF Shapes, Shape
      <4> QED
        BY <1>0, <2>2, <4>1
    <3> QED
      BY <3>1, <3>2 DEF Types, Ids
  <2>4. CASE Shows(proc[i], proc'[i])
    <3>1. proc[i].status = 0 /\ proc'[i].status = 200 /\ Kept(proc[i], proc'[i])
      BY <2>1, <2>4 DEF Shows, Shapes, Shape, Turn
    <3>2. CASE proc[i].route = "show"
      <4>1. Page(i)'
        BY <2>2, <2>4, <3>1, <3>2, PageMade DEF Shows
      <4> QED
        BY <2>3, <4>1 DEF Pages
    <3>3. CASE proc[i].route = "login"
      <4>1. Page(i)'
        BY <1>0, <2>4, <3>1, <3>3 DEF Shows, Kept
      <4> QED
        BY <2>3, <4>1 DEF Pages
    <3> QED
      BY <2>4, <3>2, <3>3 DEF Shows
  <2>5. CASE ~Shows(proc[i], proc'[i])
    <3>1. /\ proc'[i].entries = proc[i].entries
          /\ proc'[i].status = 200 => proc[i].status = 200
      BY <2>1, <2>5, SMTT(60) DEF Turn, Refuses, Inserts, Commits, LogsIn, LogsOut, Sticks, Ends,
         SameData, Finishes
    <3>2. Page(i)'
      BY <2>2, <3>1, PageStays
    <3> QED
      BY <2>3, <3>2 DEF Pages
  <2> QED
    BY <2>4, <2>5
<1>2. CASE \E b, i : Asks(b, i)
  <2>1. PICK b, i : Asks(b, i)
    BY <1>2
  <2>2. i \in Ids /\ epoch' = epoch /\ proc'[i].entries = <<>> /\ proc'[i].status = 0
        /\ \A j \in Ids \ {i} : proc'[j] = proc[j]
    BY <2>1 DEF Asks
  <2>3. Page(i)'
    BY <1>0, <2>2
  <2>4. ASSUME NEW j \in Ids \ {i} PROVE Page(j)'
    <3>1. CASE j <= asked
      BY <2>2, <3>1, PageStays
    <3>2. CASE j > asked
      <4>1. proc[j].entries = <<>> /\ proc[j].status = 0
        BY <3>2 DEF Shapes, Shape
      <4> QED
        BY <1>0, <2>2, <4>1
    <3> QED
      BY <3>1, <3>2 DEF Types, Ids
  <2> QED
    BY <2>3, <2>4 DEF Pages
<1>3. ASSUME epoch' = epoch,
             \A i \in Ids : /\ proc'[i].entries = proc[i].entries /\ proc'[i].status = proc[i].status
      PROVE  Pages'
  <2>1. ASSUME NEW j \in Ids PROVE Page(j)'
    <3>1. CASE j <= asked
      BY <1>3, <3>1, PageStays
    <3>2. CASE j > asked
      <4>1. proc[j].entries = <<>> /\ proc[j].status = 0
        BY <3>2 DEF Shapes, Shape
      <4> QED
        BY <1>0, <1>3, <4>1
    <3> QED
      BY <3>1, <3>2 DEF Types, Ids
  <2> QED
    BY <2>1 DEF Pages
<1>4. CASE \E i : Receives(i)
  <2>1. PICK i : Receives(i)
    BY <1>4
  <2>2. \A j \in Ids : proc'[j].entries = proc[j].entries /\ proc'[j].status = proc[j].status
    BY <2>1 DEF Receives, SameData
  <2> QED
    BY <1>3, <2>1, <2>2 DEF Receives
<1>5. CASE Administers
  <2>1. CASE epoch' = epoch
    BY <1>3, <1>5, <2>1 DEF Administers
  <2>2. CASE epoch' = epoch + 1
    <3>1. \A i \in Ids : proc'[i].epoch # epoch'
      <4>1. \A i \in Ids : proc[i].epoch \in Nat /\ epoch \in Nat /\ proc[i].epoch <= epoch
        BY Typing DEF Types, Shapes, Shape
      <4> QED
        BY <1>5, <2>2, <4>1 DEF Administers
    <3>2. proc' = proc
      BY <1>5 DEF Administers
    <3> QED
      BY <3>1, <3>2 DEF Pages, Page, Sequential
  <2> QED
    BY <1>5, <2>1, <2>2 DEF Administers
<1>6. CASE Stays
  BY <1>3, <1>6 DEF Stays
<1> QED
  BY <1>1, <1>2, <1>4, <1>5, <1>6 DEF Moves

LEMMA LoginStays ==
  ASSUME Types, Types', Shapes, Moves, NEW j \in Ids, Changed(j)
  PROVE  Changed(j)' /\ (LoggedIn(j) => LoggedIn(j)') /\ j <= asked /\ proc'[j] = proc[j]
<1>1. j <= asked
  BY Redirects DEF Changed
<1>2. proc'[j] = proc[j]
  BY <1>1, Stable DEF Changed
<1> QED
  BY <1>1, <1>2 DEF Changed, LoggedIn, Answered

\* Only login logs in.
LEMMA TurnSession ==
  ASSUME Types, Types', Shapes, NEW i \in Ids, Turn(i, proc[i], proc'[i])
  PROVE  /\ proc'[i].session.logged_in =>
              \/ proc[i].session.logged_in
              \/ proc[i].route = "login" /\ proc'[i].status = 302
         /\ proc[i].route = "add" /\ proc'[i].status = 302 =>
              \/ proc[i].status = 302 /\ proc'[i].session = proc[i].session
              \/ proc'[i].session.logged_in
<1>1. CASE Shows(proc[i], proc'[i])
  BY <1>1 DEF Shows
<1>2. CASE Refuses(proc[i], proc'[i]) \/ Inserts(i, proc[i], proc'[i]) \/ Sticks(proc[i], proc'[i])
  BY <1>2 DEF Refuses, Inserts, Sticks, SameData, Shapes, Shape
<1>3. CASE Commits(i, proc[i], proc'[i])
  BY <1>3 DEF Commits, Shapes, Shape
<1>4. CASE LogsIn(i, proc[i], proc'[i])
  BY <1>4 DEF LogsIn, Finishes
<1>5. CASE LogsOut(i, proc[i], proc'[i])
  BY <1>5 DEF LogsOut
<1>6. CASE Ends(i, proc[i], proc'[i])
  BY <1>6 DEF Ends, SameData
<1> QED
  BY <1>1, <1>2, <1>3, <1>4, <1>5, <1>6 DEF Turn

LEMMA MembersStep == ASSUME Types, Types', Shapes, Members, Moves PROVE Members'
<1>0. ASSUME cookie' = cookie
      PROVE  \A b \in Browsers : cookie'[b].logged_in => \E j \in Ids : proc'[j].browser = b /\ LoggedIn(j)'
  BY <1>0, LoginStays DEF Members, LoggedIn
\* A process whose session is what it was.
<1>1. ASSUME NEW i \in Ids, i <= asked, proc'[i].session.logged_in, proc[i].session.logged_in
      PROVE  \/ \E j \in Ids : j < i /\ proc'[j].browser = proc'[i].browser /\ LoggedIn(j)'
             \/ proc'[i].route = "login" /\ proc'[i].status = 302
  <2>1. Kept(proc[i], proc'[i]) /\ (proc[i].status = 302 => proc'[i].status = 302)
    BY <1>1, Stable
  <2>2. CASE \E j \in Ids : j < i /\ proc[j].browser = proc[i].browser /\ LoggedIn(j)
    <3>1. PICK j \in Ids : j < i /\ proc[j].browser = proc[i].browser /\ LoggedIn(j)
      BY <2>2
    <3>2. LoggedIn(j)' /\ proc'[j] = proc[j]
      BY <3>1, LoginStays DEF LoggedIn
    <3> QED
      BY <2>1, <3>1, <3>2 DEF Kept
  <2>3. CASE proc[i].route = "login" /\ proc[i].status = 302
    BY <2>1, <2>3 DEF Kept
  <2> QED
    BY <1>1, <2>2, <2>3 DEF Members
\* Steps that leave every session but a new process's.
<1>2. ASSUME asked' = asked,
             \A i \in Ids : /\ proc'[i].route = proc[i].route /\ proc'[i].status = proc[i].status
                            /\ proc'[i].session = proc[i].session
      PROVE  /\ \A i \in Ids : i <= asked' /\ proc'[i].session.logged_in =>
                  \/ \E j \in Ids : j < i /\ proc'[j].browser = proc'[i].browser /\ LoggedIn(j)'
                  \/ proc'[i].route = "login" /\ proc'[i].status = 302
             /\ \A i \in Ids : proc'[i].route = "add" /\ proc'[i].status = 302 =>
                               proc'[i].session.logged_in
  <2>1. \A i \in Ids : i <= asked' /\ proc'[i].session.logged_in =>
                  \/ \E j \in Ids : j < i /\ proc'[j].browser = proc'[i].browser /\ LoggedIn(j)'
                  \/ proc'[i].route = "login" /\ proc'[i].status = 302
    BY <1>1, <1>2
  <2> QED
    BY <1>2, <2>1 DEF Members
<1>3. CASE Works
  <2>1. PICK i \in Ids : Turn(i, proc[i], proc'[i])
    BY <1>3 DEF Works
  <2>2. /\ cookie' = cookie /\ asked' = asked /\ i <= asked /\ Kept(proc[i], proc'[i])
        /\ \A j \in Ids \ {i} : proc'[j] = proc[j]
    BY <2>1, TurnFacts DEF Turn
  <2>3. ASSUME NEW k \in Ids, k <= asked, proc'[k].session.logged_in
        PROVE  \/ \E j \in Ids : j < k /\ proc'[j].browser = proc'[k].browser /\ LoggedIn(j)'
               \/ proc'[k].route = "login" /\ proc'[k].status = 302
    <3>1. CASE k # i
      <4>1. proc[k].session.logged_in
        BY <2>2, <2>3, <3>1
      <4> QED
        BY <1>1, <2>3, <4>1
    <3>2. CASE k = i
      BY <1>1, <2>1, <2>2, <2>3, <3>2, TurnSession DEF Kept
    <3> QED
      BY <3>1, <3>2
  <2>4. ASSUME NEW k \in Ids, proc'[k].route = "add", proc'[k].status = 302
        PROVE  proc'[k].session.logged_in
    <3>1. CASE k # i
      BY <2>2, <2>4, <3>1 DEF Members
    <3>2. CASE k = i
      BY <2>1, <2>2, <2>4, <3>2, TurnSession DEF Members, Kept
    <3> QED
      BY <3>1, <3>2
  <2> QED
    BY <1>0, <2>2, <2>3, <2>4 DEF Members
<1>4. CASE \E b, i : Asks(b, i)
  <2>1. PICK b, i : Asks(b, i)
    BY <1>4
  <2>2. /\ cookie' = cookie /\ b \in Browsers /\ i \in Ids /\ i = asked + 1 /\ asked' = i
        /\ proc'[i].browser = b /\ proc'[i].session = cookie[b] /\ proc'[i].status = 0
        /\ \A j \in Ids \ {i} : proc'[j] = proc[j]
    BY <2>1 DEF Asks
  <2>3. ASSUME NEW k \in Ids, k <= asked', proc'[k].session.logged_in
        PROVE  \/ \E j \in Ids : j < k /\ proc'[j].browser = proc'[k].browser /\ LoggedIn(j)'
               \/ proc'[k].route = "login" /\ proc'[k].status = 302
    <3>1. CASE k # i
      <4>1. proc[k].session.logged_in /\ k <= asked
        BY <2>2, <2>3, <3>1 DEF Types, Ids
      <4> QED
        BY <1>1, <2>3, <4>1
    <3>2. CASE k = i
      <4>1. PICK j \in Ids : proc[j].browser = b /\ LoggedIn(j)
        BY <2>2, <2>3, <3>2 DEF Members
      <4>2. LoggedIn(j)' /\ j <= asked /\ proc'[j] = proc[j]
        BY <4>1, LoginStays DEF LoggedIn
      <4>3. j < k
        BY <2>2, <3>2, <4>2 DEF Types, Ids
      <4> QED
        BY <2>2, <3>2, <4>1, <4>2, <4>3
    <3> QED
      BY <3>1, <3>2
  <2>4. ASSUME NEW k \in Ids, proc'[k].route = "add", proc'[k].status = 302
        PROVE  proc'[k].session.logged_in
    BY <2>2, <2>4 DEF Members
  <2> QED
    BY <1>0, <2>2, <2>3, <2>4 DEF Members
<1>5. CASE \E i : Receives(i)
  <2>1. PICK i : Receives(i)
    BY <1>5
  <2>2. /\ i \in Ids /\ asked' = asked
        /\ \A k \in Ids : /\ proc'[k].route = proc[k].route /\ proc'[k].status = proc[k].status
                          /\ proc'[k].session = proc[k].session
    BY <2>1 DEF Receives, Kept, SameData
  <2>3. i <= asked
    BY <2>1 DEF Receives, Shapes, Shape, Types, Ids
  <2>4. ASSUME NEW b \in Browsers, cookie'[b].logged_in PROVE \E j \in Ids : proc'[j].browser = b /\ LoggedIn(j)'
    <3>1. CASE cookie'[b] = cookie[b]
      BY <2>4, <3>1, LoginStays DEF Members, LoggedIn
    <3>2. CASE proc[i].modified /\ b = proc[i].browser /\ cookie'[b] = proc[i].session
      <4>1. CASE \E j \in Ids : proc[j].browser = b /\ LoggedIn(j)
        BY <4>1, LoginStays DEF LoggedIn
      <4>2. CASE proc[i].route = "login" /\ proc[i].status = 302
        <5>1. proc'[i].browser = b /\ LoggedIn(i)'
          BY <2>1, <2>2, <3>2, <4>2 DEF Receives, LoggedIn, Changed, Answered, Kept
        <5> QED
          BY <2>2, <5>1
      <4> QED
        BY <2>2, <2>3, <2>4, <3>2, <4>1, <4>2 DEF Members
    <3> QED
      BY <2>1, <3>1, <3>2 DEF Receives
  <2> QED
    BY <1>2, <2>2, <2>4 DEF Members
<1>6. CASE Administers \/ Stays
  BY <1>0, <1>2, <1>6 DEF Members, Administers, Stays
<1> QED
  BY <1>3, <1>4, <1>5, <1>6 DEF Moves

\* A message is flashed by the process of its answer, and shown out of the session.
LEMMA TurnFlashes ==
  ASSUME Types, Types', Shapes, NEW i \in Ids, Turn(i, proc[i], proc'[i])
  PROVE  /\ \A f \in Flashes(proc'[i].session) :
              \/ f \in Flashes(proc[i].session)
              \/ f = i /\ proc'[i].status = 302
         /\ \A f \in Range(proc'[i].shown) :
              \/ f \in Range(proc[i].shown)
              \/ f \in Flashes(proc[i].session) /\ proc[i].status # 302
<1>0. proc[i].session.flashes \in Seq(Ids)
  BY Typing
<1>1. CASE Shows(proc[i], proc'[i])
  BY <1>1, RangeEmpty DEF Shows, Flashes, Shapes, Shape
<1>2. CASE SameData(proc[i], proc'[i])
  BY <1>2 DEF SameData
<1>3. CASE Finishes(i, proc[i], proc'[i])
  BY <1>0, <1>3, RangeAppend DEF Finishes, Flashes
<1> QED
  BY <1>1, <1>2, <1>3 DEF Turn, Refuses, Inserts, Commits, LogsIn, LogsOut, Sticks, Ends

LEMMA MessagesStep == ASSUME Types, Types', Shapes, Messages, Moves PROVE Messages'
<1> DEFINE Mine(f, i) == f \in Ids /\ f < i /\ proc[f].browser = proc[i].browser /\ Answered(f)
\* What is said of an earlier answer stays true of it.
<1>0. ASSUME NEW f \in Ids, Answered(f) PROVE f <= asked /\ proc'[f] = proc[f] /\ Answered(f)'
  <2>1. f <= asked
    BY <1>0 DEF Answered, Types, Ids, Shapes, Shape
  <2> QED
    BY <1>0, <2>1, Stable DEF Answered
<1>1. ASSUME NEW i \in Ids, i <= asked, NEW f, Mine(f, i) PROVE Mine(f, i)'
  <2>1. proc'[i].browser = proc[i].browser
    BY <1>1, Stable DEF Kept
  <2> QED
    BY <1>0, <1>1, <2>1
<1>2. ASSUME cookie' = cookie
      PROVE  \A b \in Browsers : \A f \in Flashes(cookie'[b]) :
               f \in Ids /\ proc'[f].browser = b /\ Answered(f)'
  BY <1>0, <1>2 DEF Messages
\* A process keeps its session, and what it has shown.
<1>3. ASSUME NEW i \in Ids, i <= asked,
             proc'[i].session = proc[i].session, proc'[i].shown = proc[i].shown
      PROVE  /\ \A f \in Flashes(proc'[i].session) : Mine(f, i)' \/ (f = i /\ proc'[i].status = 302)
             /\ \A f \in Range(proc'[i].shown) : Mine(f, i)'
  <2>1. /\ \A f \in Flashes(proc[i].session) : Mine(f, i) \/ (f = i /\ proc[i].status = 302)
        /\ \A f \in Range(proc[i].shown) : Mine(f, i)
    BY <1>3 DEF Messages
  <2>2. proc[i].status = 302 => proc'[i].status = 302
    BY <1>3, Stable
  <2> QED
    BY <1>1, <1>3, <2>1, <2>2
<1>4. CASE Works
  <2>1. PICK i \in Ids : Turn(i, proc[i], proc'[i])
    BY <1>4 DEF Works
  <2>2. /\ cookie' = cookie /\ asked' = asked /\ i <= asked
        /\ proc[i].status = 302 => proc'[i].status = 302
        /\ \A j \in Ids \ {i} : proc'[j] = proc[j]
    BY <2>1, TurnFacts DEF Turn
  <2>3. ASSUME NEW k \in Ids, k <= asked'
        PROVE  /\ \A f \in Flashes(proc'[k].session) : Mine(f, k)' \/ (f = k /\ proc'[k].status = 302)
               /\ \A f \in Range(proc'[k].shown) : Mine(f, k)'
    <3>1. CASE k # i
      BY <1>3, <2>2, <2>3, <3>1
    <3>2. CASE k = i
      <4>1. /\ \A f \in Flashes(proc[i].session) : Mine(f, i) \/ (f = i /\ proc[i].status = 302)
            /\ \A f \in Range(proc[i].shown) : Mine(f, i)
        BY <2>2 DEF Messages
      <4>2. \A f \in Flashes(proc'[i].session) : Mine(f, i) \/ (f = i /\ proc'[i].status = 302)
        BY <2>1, <2>2, <4>1, TurnFlashes
      <4>3. \A f \in Range(proc'[i].shown) : Mine(f, i)
        BY <2>1, <4>1, TurnFlashes
      <4> QED
        BY <1>1, <2>2, <3>2, <4>2, <4>3
    <3> QED
      BY <3>1, <3>2
  <2> QED
    BY <1>2, <2>2, <2>3 DEF Messages
<1>5. CASE \E b, i : Asks(b, i)
  <2>1. PICK b, i : Asks(b, i)
    BY <1>5
  <2>2. /\ cookie' = cookie /\ b \in Browsers /\ i \in Ids /\ i = asked + 1 /\ asked' = i
        /\ proc'[i].browser = b /\ proc'[i].session = cookie[b] /\ proc'[i].shown = <<>>
        /\ \A j \in Ids \ {i} : proc'[j] = proc[j]
    BY <2>1 DEF Asks
  <2>3. ASSUME NEW k \in Ids, k <= asked'
        PROVE  /\ \A f \in Flashes(proc'[k].session) : Mine(f, k)' \/ (f = k /\ proc'[k].status = 302)
               /\ \A f \in Range(proc'[k].shown) : Mine(f, k)'
    <3>1. CASE k # i
      <4>1. k <= asked
        BY <2>2, <2>3, <3>1 DEF Types, Ids
      <4> QED
        BY <1>3, <2>2, <3>1, <4>1
    <3>2. CASE k = i
      <4>1. \A f \in Flashes(cookie[b]) : f \in Ids /\ proc[f].browser = b /\ Answered(f)
        BY <2>2 DEF Messages
      <4>2. ASSUME NEW f \in Flashes(cookie[b]) PROVE Mine(f, k)'
        <5>1. f \in Ids /\ f <= asked /\ proc'[f] = proc[f] /\ Answered(f)' /\ proc[f].browser = b
          BY <1>0, <4>1
        <5>2. f < k
          BY <2>2, <3>2, <5>1 DEF Types, Ids
        <5> QED
          BY <2>2, <3>2, <5>1, <5>2
      <4> QED
        BY <2>2, <3>2, <4>2, RangeEmpty
    <3> QED
      BY <3>1, <3>2
  <2> QED
    BY <1>2, <2>2, <2>3 DEF Messages
<1>6. ASSUME asked' = asked,
             \A i \in Ids : proc'[i].session = proc[i].session /\ proc'[i].shown = proc[i].shown
      PROVE  \A k \in Ids : k <= asked' =>
               /\ \A f \in Flashes(proc'[k].session) : Mine(f, k)' \/ (f = k /\ proc'[k].status = 302)
               /\ \A f \in Range(proc'[k].shown) : Mine(f, k)'
  BY <1>3, <1>6
<1>7. CASE \E i : Receives(i)
  <2>1. PICK i : Receives(i)
    BY <1>7
  <2>2. /\ i \in Ids /\ asked' = asked /\ proc[i].state = "closed" /\ Answered(i)'
        /\ proc'[i].browser = proc[i].browser
        /\ \A k \in Ids : proc'[k].session = proc[k].session /\ proc'[k].shown = proc[k].shown
    BY <2>1 DEF Receives, SameData, Answered, Kept
  <2>3. i <= asked
    BY <2>2 DEF Shapes, Shape, Types, Ids
  <2>4. ASSUME NEW b \in Browsers, NEW f \in Flashes(cookie'[b])
        PROVE  f \in Ids /\ proc'[f].browser = b /\ Answered(f)'
    <3>1. CASE cookie'[b] = cookie[b]
      BY <1>0, <2>4, <3>1 DEF Messages
    <3>2. CASE b = proc[i].browser /\ cookie'[b] = proc[i].session
      <4>1. Mine(f, i) \/ f = i
        BY <2>2, <2>3, <2>4, <3>2 DEF Messages
      <4> QED
        BY <1>0, <2>2, <3>2, <4>1
    <3> QED
      BY <2>1, <3>1, <3>2 DEF Receives
  <2> QED
    BY <1>6, <2>2, <2>4 DEF Messages
<1>8. CASE Administers \/ Stays
  <2>1. asked' = asked /\ proc' = proc /\ cookie' = cookie
    BY <1>8 DEF Administers, Stays
  <2> QED
    BY <1>2, <1>6, <2>1 DEF Messages
<1> QED
  BY <1>4, <1>5, <1>7, <1>8 DEF Moves

\* What a turn makes of the cookie its process came with.
LEMMA TurnFresh ==
  ASSUME Types, Types', Shapes, NEW i \in Ids, Turn(i, proc[i], proc'[i]), NEW c \in Session,
         Fresh(i, proc[i], c), proc'[i].state # "killed"
  PROVE  Fresh(i, proc'[i], c)
<1>0. proc[i].session.flashes \in Seq(Ids) /\ Shape(i) /\ Kept(proc[i], proc'[i])
  BY Typing DEF Shapes, Turn
<1>1. CASE Shows(proc[i], proc'[i])
  <2>1. proc[i].session = c /\ proc'[i].state = "closed" /\ proc'[i].status = 200
    BY <1>1 DEF Shows, Fresh
  <2>2. /\ proc'[i].shown = c.flashes /\ proc'[i].session.flashes = <<>>
        /\ proc'[i].session.logged_in <=> c.logged_in
        /\ proc'[i].modified = (proc[i].modified \/ c.flashes # <<>>)
    BY <1>1, <2>1 DEF Shows
  <2>3. Range(proc'[i].shown) = Flashes(c) /\ Flashes(proc'[i].session) = {}
    BY <2>2, RangeEmpty DEF Flashes
  <2>4. Range(proc'[i].shown) # {} => proc'[i].modified
    BY <2>2, RangeEmpty
  <2> QED
    BY <2>1, <2>2, <2>3, <2>4 DEF Fresh
<1>2. CASE Inserts(i, proc[i], proc'[i]) \/ Sticks(proc[i], proc'[i])
  BY <1>2 DEF Inserts, Sticks, SameData, Fresh
<1>3. CASE Refuses(proc[i], proc'[i])
  <2>1. proc[i].session = c /\ proc[i].shown = <<>>
    BY <1>0, <1>3 DEF Refuses, Fresh, Shape
  <2> QED
    BY <1>3, <2>1, RangeEmpty DEF Refuses, SameData, Fresh
<1>4. CASE Ends(i, proc[i], proc'[i])
  <2>1. proc[i].state = "done" /\ proc[i].session = c /\ proc[i].shown = <<>> /\ proc[i].status = 500
        /\ proc'[i].state = "closed"
    BY <1>0, <1>4 DEF Ends, Fresh, Shape
  <2> QED
    BY <1>4, <2>1, RangeEmpty DEF Ends, SameData, Fresh
<1>5. ASSUME Finishes(i, proc[i], proc'[i]), proc[i].state \in {"view", "inserted"}
      PROVE  /\ proc'[i].state = "closed" /\ proc'[i].status = 302 /\ proc'[i].modified
             /\ Range(proc'[i].shown) = {} /\ Flashes(proc'[i].session) = Flashes(c) \union {i}
             /\ proc[i].session = c
  <2>1. proc[i].session = c /\ proc[i].shown = <<>>
    BY <1>0, <1>5 DEF Fresh, Shape
  <2> QED
    BY <1>0, <1>5, <2>1, RangeEmpty, RangeAppend DEF Finishes, Flashes
<1>6. CASE Commits(i, proc[i], proc'[i])
  <2>1. proc'[i].route = "add" /\ (proc'[i].session.logged_in <=> proc[i].session.logged_in)
    BY <1>0, <1>6 DEF Commits, Shape, Kept
  <2> QED
    BY <1>5, <1>6, <2>1 DEF Commits, Fresh
<1>7. CASE LogsIn(i, proc[i], proc'[i])
  <2>1. proc'[i].route = "login" /\ proc'[i].session.logged_in
    BY <1>0, <1>7 DEF LogsIn, Kept
  <2> QED
    BY <1>5, <1>7, <2>1 DEF LogsIn, Fresh
<1>8. CASE LogsOut(i, proc[i], proc'[i])
  <2>1. proc'[i].route = "logout" /\ ~proc'[i].session.logged_in
    BY <1>0, <1>8 DEF LogsOut, Kept
  <2> QED
    BY <1>5, <1>8, <2>1 DEF LogsOut, Fresh
<1> QED
  BY <1>1, <1>2, <1>3, <1>4, <1>6, <1>7, <1>8 DEF Turn

\* Nothing but its own answer reaches a sequential browser with a live process.
LEMMA OnlyLive ==
  ASSUME Types, Shapes, Alone, NEW i \in Ids, NEW k \in Ids, Live(i), Live(k),
         proc[i].browser \in Sequential, proc[k].browser = proc[i].browser
  PROVE  k = i
<1>1. i <= asked /\ k <= asked
  BY DEF Live, Types, Ids, Shapes, Shape
<1> QED
  BY <1>1 DEF Alone, Ids

LEMMA FreshStep == ASSUME Types, Types', Shapes, Alone, AllFresh, Moves PROVE AllFresh'
<1>1. CASE Works
  <2>1. PICK i \in Ids : Turn(i, proc[i], proc'[i])
    BY <1>1 DEF Works
  <2>2. /\ cookie' = cookie /\ Live(i) /\ Kept(proc[i], proc'[i]) /\ i <= asked
        /\ \A j \in Ids \ {i} : proc'[j] = proc[j]
    BY <2>1, TurnFacts DEF Turn
  <2>3. ASSUME NEW k \in Ids, Live(k)', proc'[k].browser \in Sequential
        PROVE  Fresh(k, proc'[k], cookie'[proc'[k].browser])
    <3>1. CASE k # i
      BY <2>2, <2>3, <3>1 DEF AllFresh, Live
    <3>2. CASE k = i
      <4>1. proc'[i].browser = proc[i].browser /\ proc[i].browser \in Sequential
            /\ proc'[i].state # "killed"
        BY <2>2, <2>3, <3>2 DEF Kept, Live
      <4>2. cookie[proc[i].browser] \in Session
        BY <4>1 DEF Types, Sequential
      <4>3. Fresh(i, proc[i], cookie[proc[i].browser])
        BY <2>2, <4>1 DEF AllFresh
      <4> QED
        BY <2>1, <2>2, <3>2, <4>1, <4>2, <4>3, TurnFresh
    <3> QED
      BY <3>1, <3>2
  <2> QED
    BY <2>3 DEF AllFresh, Sequential
<1>2. CASE \E b, i : Asks(b, i)
  <2>1. PICK b, i : Asks(b, i)
    BY <1>2
  <2>2. /\ cookie' = cookie /\ i \in Ids /\ proc'[i].state = "view" /\ proc'[i].browser = b
        /\ proc'[i].session = cookie[b]
        /\ \A j \in Ids \ {i} : proc'[j] = proc[j]
    BY <2>1 DEF Asks
  <2>3. ASSUME NEW k \in Ids, Live(k)', proc'[k].browser \in Sequential
        PROVE  Fresh(k, proc'[k], cookie'[proc'[k].browser])
    <3>1. CASE k # i
      BY <2>2, <2>3, <3>1 DEF AllFresh, Live
    <3>2. CASE k = i
      BY <2>2, <3>2 DEF Fresh
    <3> QED
      BY <3>1, <3>2
  <2> QED
    BY <2>3 DEF AllFresh, Sequential
<1>3. CASE \E i : Receives(i)
  <2>1. PICK i : Receives(i)
    BY <1>3
  <2>2. /\ i \in Ids /\ Live(i) /\ proc'[i].state = "answered"
        /\ \A j \in Ids \ {i} : proc'[j] = proc[j]
        /\ \A b \in Browsers : b # proc[i].browser => cookie'[b] = cookie[b]
    BY <2>1 DEF Receives, Live
  <2>3. ASSUME NEW k \in Ids, Live(k)', proc'[k].browser \in Sequential
        PROVE  Fresh(k, proc'[k], cookie'[proc'[k].browser])
    <3>1. k # i /\ proc'[k] = proc[k]
      BY <2>2, <2>3 DEF Live
    <3>2. Live(k) /\ proc[k].browser \in Sequential
      BY <2>3, <3>1 DEF Live
    <3>3. proc[k].browser # proc[i].browser
      BY <2>2, <3>1, <3>2, OnlyLive
    <3>4. cookie'[proc[k].browser] = cookie[proc[k].browser]
      BY <2>2, <3>2, <3>3 DEF Sequential
    <3> QED
      BY <3>1, <3>2, <3>4 DEF AllFresh
  <2> QED
    BY <2>3 DEF AllFresh, Sequential
<1>4. CASE Administers \/ Stays
  <2>1. proc' = proc /\ cookie' = cookie
    BY <1>4 DEF Administers, Stays
  <2> QED
    BY <2>1 DEF AllFresh, Live, Sequential
<1> QED
  BY <1>1, <1>2, <1>3, <1>4 DEF Moves

LEMMA ShownOnceStep ==
  ASSUME Types, Types', Shapes, Alone, Messages, AllFresh, ShownOnce, Moves
  PROVE  ShownOnce'
\* Nothing is answered.
<1>1. ASSUME cookie' = cookie, \A j \in Ids : Answered(j)' => proc'[j] = proc[j] /\ Answered(j)
      PROVE  ShownOnce'
  BY <1>1 DEF ShownOnce, Sequential
<1>2. CASE Works
  <2>1. PICK i \in Ids : Turn(i, proc[i], proc'[i])
    BY <1>2 DEF Works
  <2>2. /\ cookie' = cookie /\ ~Answered(i)' /\ \A j \in Ids \ {i} : proc'[j] = proc[j]
    BY <2>1, TurnFacts DEF Turn, Answered
  <2> QED
    BY <1>1, <2>2 DEF Answered
<1>3. CASE \E b, i : Asks(b, i)
  <2>1. PICK b, i : Asks(b, i)
    BY <1>3
  <2>2. /\ cookie' = cookie /\ ~Answered(i)' /\ \A j \in Ids \ {i} : proc'[j] = proc[j]
    BY <2>1 DEF Asks, Answered
  <2> QED
    BY <1>1, <2>2 DEF Answered
<1>4. CASE Administers \/ Stays
  BY <1>1, <1>4 DEF Administers, Stays, Answered
<1>5. CASE \E i : Receives(i)
  <2>1. PICK i : Receives(i)
    BY <1>5
  <2>2. /\ i \in Ids /\ Live(i) /\ proc[i].state = "closed" /\ proc'[i].shown = proc[i].shown
        /\ proc'[i].browser = proc[i].browser
        /\ \A j \in Ids \ {i} : proc'[j] = proc[j]
        /\ \A j \in Ids \ {i} : Answered(j)' => Answered(j)
    BY <2>1 DEF Receives, Live, Kept, SameData, Answered
  <2>3. i <= asked /\ proc[i].browser \in Browsers
    BY <2>2 DEF Shapes, Shape, Types, Ids
  <2> DEFINE b == proc[i].browser
             c == cookie[b]
  <2>4. cookie'[b] = IF proc[i].modified THEN proc[i].session ELSE c
    BY <2>1, <2>3 DEF Receives
  <2>5. b \in Sequential => Fresh(i, proc[i], c)
    BY <2>2 DEF AllFresh
  <2> HIDE DEF c, b
  \* The messages of the browser, before and after.
  <2>6. b \in Sequential =>
          /\ Range(proc[i].shown) \subseteq Flashes(c)
          /\ Flashes(cookie'[b]) \subseteq Flashes(c) \union {i}
          /\ Range(proc[i].shown) # {} => Flashes(cookie'[b]) = {}
    BY <2>2, <2>4, <2>5 DEF Fresh
  \* A message shown by an answer before is of a request before that.
  <2>7. ASSUME NEW k \in Ids, Answered(k), proc[k].browser \in Sequential, NEW f \in Range(proc[k].shown)
        PROVE  /\ f \notin Flashes(cookie[proc[k].browser])
               /\ proc[k].browser = b => f # i /\ f \notin Flashes(c)
    <3>1. f \notin Flashes(cookie[proc[k].browser])
      BY <2>7 DEF ShownOnce
    <3>2. k <= asked
      BY <2>7 DEF Answered, Shapes, Shape, Types, Ids
    <3>3. f \in Ids /\ f < k
      BY <2>7, <3>2 DEF Messages
    <3>4. ASSUME proc[k].browser = b PROVE f # i
      <4>1. k <= i
        BY <2>2, <2>7, <3>2, <3>4 DEF Alone, b
      <4> QED
        BY <3>3, <4>1 DEF Ids
    <3> QED
      BY <3>1, <3>4 DEF c
  <2>8. ASSUME NEW k \in Ids, Answered(k)', proc'[k].browser \in Sequential, NEW f \in Range(proc'[k].shown)
        PROVE  f \notin Flashes(cookie'[proc'[k].browser])
    <3>1. CASE k = i
      BY <2>2, <2>6, <2>8, <3>1 DEF b
    <3>2. CASE k # i /\ proc[k].browser = b
      <4>1. Answered(k) /\ proc'[k] = proc[k]
        BY <2>2, <2>8, <3>2
      <4> QED
        BY <2>6, <2>7, <2>8, <3>2, <4>1
    <3>3. CASE k # i /\ proc[k].browser # b
      <4>1. Answered(k) /\ proc'[k] = proc[k]
        BY <2>2, <2>8, <3>3
      <4>2. cookie'[proc[k].browser] = cookie[proc[k].browser]
        BY <2>1, <2>8, <3>3, <4>1 DEF Receives, Sequential, b
      <4> QED
        BY <2>7, <2>8, <4>1, <4>2
    <3> QED
      BY <3>1, <3>2, <3>3
  \* A message shown again would have been in the cookie, which it had left.
  <2>9. ASSUME NEW k \in Ids, k # i, Answered(k), NEW f \in Range(proc[k].shown), f \in Range(proc[i].shown),
               proc[k].browser \in Sequential \/ b \in Sequential
        PROVE  FALSE
    <3>1. k <= asked
      BY <2>9 DEF Answered, Shapes, Shape, Types, Ids
    <3>2. proc[f].browser = proc[k].browser /\ proc[f].browser = b
      BY <2>2, <2>9, <2>3, <3>1 DEF Messages, b
    <3> QED
      BY <2>6, <2>7, <2>9, <3>2
  <2>10. ASSUME NEW k \in Ids, NEW j \in Ids, NEW f \in Ids, Answered(k)', Answered(j)',
                proc'[k].browser \in Sequential, f \in Range(proc'[k].shown), f \in Range(proc'[j].shown)
         PROVE  k = j
    <3>1. CASE k # i /\ j # i
      BY <2>2, <2>10, <3>1 DEF ShownOnce
    <3>2. CASE k = i /\ j # i
      BY <2>2, <2>9, <2>10, <3>2 DEF b
    <3>3. CASE k # i /\ j = i
      BY <2>2, <2>9, <2>10, <3>3
    <3> QED
      BY <3>1, <3>2, <3>3
  <2> QED
    BY <2>8, <2>10 DEF ShownOnce, Sequential
<1> QED
  BY <1>2, <1>3, <1>4, <1>5 DEF Moves

LEMMA FollowsStep ==
  ASSUME Types, Types', Shapes, Alone, AllFresh, Follows, Moves
  PROVE  Follows'
\* A browser whose cookie says the same and that was answered no login or logout.
<1>1. ASSUME NEW b \in Sequential, cookie'[b].logged_in <=> cookie[b].logged_in,
             \A k \in Ids : proc'[k].browser = b /\ Changed(k)' => Changed(k)
      PROVE  cookie'[b].logged_in <=>
               \E j \in Ids : /\ proc'[j].browser = b /\ LoggedIn(j)'
                              /\ \A k \in Ids : proc'[k].browser = b /\ Changed(k)' => k <= j
  <2>1. \A k \in Ids : Changed(k) => Changed(k)' /\ (LoggedIn(k) <=> LoggedIn(k)')
                                    /\ proc'[k].browser = proc[k].browser
    BY LoginStays DEF LoggedIn
  <2>2. \A k \in Ids : (proc'[k].browser = b /\ Changed(k)') <=> (proc[k].browser = b /\ Changed(k))
    BY <1>1, <2>1
  <2>3. \A k \in Ids : (proc'[k].browser = b /\ LoggedIn(k)') <=> (proc[k].browser = b /\ LoggedIn(k))
    BY <1>1, <2>1, <2>2 DEF LoggedIn
  <2> QED
    BY <1>1, <2>2, <2>3 DEF Follows
<1>2. ASSUME cookie' = cookie, \A k \in Ids : Changed(k)' => Changed(k) PROVE Follows'
  BY <1>1, <1>2 DEF Follows, Sequential
<1>3. CASE Works
  <2>1. PICK i \in Ids : Turn(i, proc[i], proc'[i])
    BY <1>3 DEF Works
  <2>2. /\ cookie' = cookie /\ ~Answered(i)' /\ \A j \in Ids \ {i} : proc'[j] = proc[j]
    BY <2>1, TurnFacts DEF Turn, Answered
  <2> QED
    BY <1>2, <2>2 DEF Changed, Answered
<1>4. CASE \E b, i : Asks(b, i)
  <2>1. PICK b, i : Asks(b, i)
    BY <1>4
  <2>2. /\ cookie' = cookie /\ ~Answered(i)' /\ \A j \in Ids \ {i} : proc'[j] = proc[j]
    BY <2>1 DEF Asks, Answered
  <2> QED
    BY <1>2, <2>2 DEF Changed, Answered
<1>5. CASE Administers \/ Stays
  BY <1>2, <1>5 DEF Administers, Stays, Changed, Answered
<1>6. CASE \E i : Receives(i)
  <2>1. PICK i : Receives(i)
    BY <1>6
  <2>2. /\ i \in Ids /\ Live(i) /\ proc[i].state = "closed" /\ Answered(i)'
        /\ proc'[i].browser = proc[i].browser /\ proc'[i].route = proc[i].route
        /\ proc'[i].status = proc[i].status
        /\ \A j \in Ids \ {i} : proc'[j] = proc[j]
    BY <2>1 DEF Receives, Live, Kept, Answered
  <2>3. i <= asked /\ proc[i].browser \in Browsers
    BY <2>2 DEF Shapes, Shape, Types, Ids
  <2>4. SUFFICES ASSUME NEW b \in Sequential
                 PROVE  cookie'[b].logged_in <=>
                          \E j \in Ids : /\ proc'[j].browser = b /\ LoggedIn(j)'
                              /\ \A k \in Ids : proc'[k].browser = b /\ Changed(k)' => k <= j
    BY DEF Follows, Sequential
  <2>5. CASE b # proc[i].browser
    <3>1. cookie'[b] = cookie[b]
      BY <2>1, <2>5 DEF Receives, Sequential
    <3>2. \A k \in Ids : proc'[k].browser = b /\ Changed(k)' => Changed(k)
      BY <2>2, <2>5 DEF Changed, Answered
    <3> QED
      BY <1>1, <3>1, <3>2
  <2>6. CASE b = proc[i].browser
    <3>1. Fresh(i, proc[i], cookie[b])
      BY <2>2, <2>6 DEF AllFresh
    <3>2. cookie'[b] = IF proc[i].modified THEN proc[i].session ELSE cookie[b]
      BY <2>1, <2>3, <2>6 DEF Receives
    <3>3. CASE proc[i].status = 302 /\ proc[i].route \in {"login", "logout"}
      <4>1. cookie'[b].logged_in <=> proc[i].route = "login"
        BY <2>2, <3>1, <3>2, <3>3 DEF Fresh
      <4>2. Changed(i)' /\ (LoggedIn(i)' <=> proc[i].route = "login") /\ proc'[i].browser = b
        BY <2>2, <2>6, <3>3 DEF Changed, LoggedIn
      <4>3. ASSUME NEW k \in Ids, proc'[k].browser = b, Changed(k)' PROVE k <= i
        <5>1. CASE k = i
          BY <5>1 DEF Ids
        <5>2. CASE k # i
          <6>1. proc[k].browser = b /\ proc[k].status = 302
            BY <2>2, <4>3, <5>2 DEF Changed
          <6>2. k <= asked
            BY <6>1, Redirects
          <6> QED
            BY <2>2, <2>6, <6>1, <6>2 DEF Alone
        <5> QED
          BY <5>1, <5>2
      <4>4. ASSUME NEW j \in Ids, proc'[j].browser = b, LoggedIn(j)',
                   \A k \in Ids : proc'[k].browser = b /\ Changed(k)' => k <= j
            PROVE  proc[i].route = "login"
        <5>1. j <= i /\ i <= j
          BY <2>2, <4>2, <4>3, <4>4 DEF LoggedIn
        <5>2. j = i
          BY <2>2, <5>1 DEF Ids
        <5> QED
          BY <4>2, <4>4, <5>2
      <4> QED
        BY <2>2, <4>1, <4>2, <4>3, <4>4
    <3>4. CASE ~(proc[i].status = 302 /\ proc[i].route \in {"login", "logout"})
      <4>1. cookie'[b].logged_in <=> cookie[b].logged_in
        BY <2>2, <3>1, <3>2, <3>4 DEF Fresh
      <4>2. \A k \in Ids : proc'[k].browser = b /\ Changed(k)' => Changed(k)
        BY <2>2, <3>4 DEF Changed, Answered
      <4> QED
        BY <1>1, <4>1, <4>2
    <3> QED
      BY <3>3, <3>4
  <2> QED
    BY <2>5, <2>6
<1> QED
  BY <1>3, <1>4, <1>5, <1>6 DEF Moves

----------------------------------------------------------------------------
(* The inductive invariant. *)

LEMMA InitIInv == ASSUME Init PROVE IInv
<1>0. /\ db = [table |-> TRUE, rows |-> <<>>] /\ writer = 0 /\ row = 0 /\ asked = 0 /\ epoch = 0
      /\ cookie = [b \in Browsers |-> NoSession] /\ proc = [i \in Ids |-> NoProc]
  BY DEF Init
<1>1. NoSession \in Session /\ NoSession.logged_in = FALSE /\ Flashes(NoSession) = {}
  BY RangeEmpty DEF NoSession, Session, Flashes
<1>2. /\ \A i \in Ids : proc[i] = NoProc /\ proc[i].state = "none" /\ i > asked /\ i # 0
      /\ \A b \in Browsers : cookie[b] = NoSession
  BY <1>0, NoProcFacts DEF Ids
<1>3. Types
  <2>1. db \in [table : BOOLEAN, rows : Seq(Ids)] /\ db.rows = <<>>
    <3>1. <<>> \in Seq(Ids)
      OBVIOUS
    <3> QED
      BY <1>0, <3>1
  <2>2. 0 \in 0..MaxRequests
    BY FlaskrAssumption
  <2> QED
    BY <1>0, <1>1, <2>1, <2>2, NoProcFacts DEF Types
<1>4. Shapes
  BY <1>0, <1>2, NoProcFacts DEF Shapes, Shape, Ids
<1>5. Alone /\ AllFresh /\ ShownOnce
  BY <1>2 DEF Alone, AllFresh, ShownOnce, Live, Answered
<1>6. Stored /\ Pages
  BY <1>0, <1>2, NoProcFacts DEF Stored, Pages, Page
<1>7. Members /\ Follows
  <2>1. \A b \in Browsers : ~cookie[b].logged_in
    BY <1>1, <1>2, Zenon
  <2>2. \A i \in Ids : ~LoggedIn(i) /\ proc[i].status # 302 /\ ~(i <= asked)
    BY <1>0, <1>2, NoProcFacts DEF LoggedIn, Changed, Answered, Ids
  <2> QED
    BY <2>1, <2>2 DEF Members, Follows, Sequential
<1>8. Messages
  <2>1. \A i \in Ids : ~(i <= asked)
    BY <1>0, <1>2 DEF Ids
  <2> QED
    BY <1>1, <1>2, <2>1 DEF Messages
<1> QED
  BY <1>3, <1>4, <1>5, <1>6, <1>7, <1>8 DEF IInv

LEMMA Inductive == ASSUME IInv, [Next]_vars PROVE IInv'
<1>1. Types' /\ Moves
  BY Steps DEF IInv
<1> QED
  BY <1>1, ShapesStep, AloneStep, StoredStep, PagesStep, MembersStep, MessagesStep, FreshStep,
     ShownOnceStep, FollowsStep DEF IInv

LEMMA Invariance == Spec => []IInv
  BY InitIInv, Inductive, PTL DEF Spec

----------------------------------------------------------------------------
(* What it implies. *)

LEMMA MaxIs ==
  ASSUME NEW S, NEW n \in Nat, S \subseteq 0..n, S # {}
  PROVE  Max(S) \in S /\ \A y \in S : Max(S) >= y
<1>1. \E x \in S : \A y \in S : x >= y
  <2>1. PICK x \in S : \A y \in S : y <= x
    BY GreatestBelow
  <2> QED
    BY <2>1
<1> QED
  BY <1>1 DEF Max

LEMMA MinIs ==
  ASSUME NEW S, NEW n \in Nat, S \subseteq 0..n, S # {}
  PROVE  Min(S) \in S /\ \A y \in S : Min(S) <= y
<1>1. \E x \in S : \A y \in S : x <= y
  <2>1. S \subseteq Nat
    OBVIOUS
  <2> QED
    BY <2>1, LeastNat
<1> QED
  BY <1>1 DEF Min

LEMMA AnsweredAsked ==
  ASSUME IInv, NEW i \in Ids, Answered(i) PROVE i <= asked
  BY DEF IInv, Answered, Shapes, Shape, Types, Ids

\* The types are the program's, and the lock and the row that waits for its commit are a
\* live process's.
THEOREM TypeCorrect == Spec => []TypeOK
<1>1. ASSUME IInv PROVE TypeOK
  <2>1. /\ \A b \in Browsers : cookie[b] \in [logged_in : BOOLEAN, flashes : Seq(Ids)]
        /\ asked \in 0..MaxRequests /\ writer = row
    BY <1>1 DEF IInv, Types, Session
  <2>2. ASSUME NEW i \in Ids
        PROVE  /\ proc[i].state \in {"none", "view", "inserted", "done", "closed",
                                      "answered", "killed"}
               /\ proc[i].status \in {0, 200, 302, 400, 401, 500}
               /\ Range(proc[i].entries) \union Range(proc[i].shown) \subseteq Ids
    <3>1. proc[i].state \in States /\ proc[i].status \in Statuses
          /\ proc[i].entries \in Seq(Ids) /\ proc[i].shown \in Seq(Ids)
      BY <1>1, Typing DEF IInv
    <3>2. Range(proc[i].entries) \subseteq Ids /\ Range(proc[i].shown) \subseteq Ids
      BY <3>1, RangeTyped
    <3> QED
      BY <3>1, <3>2 DEF States, Statuses
  <2>3. Range(db.rows) \subseteq Ids
    BY <1>1, RangeTyped DEF IInv, Types
  <2>4. writer # 0 => Live(writer)
    BY <1>1 DEF IInv, Types, Shapes, Shape, Live
  <2> QED
    BY <2>1, <2>2, <2>3, <2>4 DEF TypeOK
<1> QED
  BY <1>1, Invariance, PTL

\* Whatever the other processes do to the database, an answer tells whether the entry is
\* there.
THEOREM AnswersTellOutcomes == Spec => []AnswerTellsOutcome
<1>1. ASSUME IInv, NEW i \in Ids, proc[i].route = "add", proc[i].epoch = epoch
      PROVE  /\ Answered(i) => Count(i) = (IF proc[i].status = 302 THEN 1 ELSE 0)
             /\ proc[i].state = "killed" => Count(i) <= 1
  <2> DEFINE K == {k \in DOMAIN db.rows : db.rows[k] = i}
  <2>1. CASE proc[i].status = 302
    <3>1. PICK k \in DOMAIN db.rows : db.rows[k] = i
      BY <1>1, <2>1 DEF IInv, Stored
    <3>2. K = {k}
      BY <1>1, <3>1 DEF IInv, Stored
    <3>3. Cardinality(K) = 1
      BY <3>2, FS_Singleton
    <3> QED
      BY <2>1, <3>3 DEF Count
  <2>2. CASE proc[i].status # 302
    <3>1. K = {}
      BY <1>1, <2>2 DEF IInv, Stored
    <3>2. Cardinality(K) = 0
      BY <3>1, FS_EmptySet
    <3> QED
      BY <2>2, <3>2 DEF Count
  <2> QED
    BY <2>1, <2>2
<1>2. IInv => AnswerTellsOutcome
  BY <1>1 DEF AnswerTellsOutcome
<1> QED
  BY <1>2, Invariance, PTL

\* Every stored entry was asked for by a browser that had been answered a login.
THEOREM MembersPost == Spec => []OnlyMembersPost
<1>1. ASSUME IInv, NEW i \in Range(db.rows)
      PROVE  \E j \in 1..(i - 1) :
               proc[j].browser = proc[i].browser /\ proc[j].route = "login" /\ proc[j].status = 302
               /\ Answered(j)
  <2>1. i \in Ids /\ proc[i].route = "add" /\ proc[i].status = 302
    BY <1>1 DEF IInv, Stored, Types, Range
  <2>2. i <= asked
    BY <1>1, <2>1, Redirects DEF IInv
  <2>3. PICK j \in Ids : j < i /\ proc[j].browser = proc[i].browser /\ LoggedIn(j)
    BY <1>1, <2>1, <2>2 DEF IInv, Members
  <2>4. j \in 1..(i - 1)
    BY <2>1, <2>3 DEF Ids
  <2> QED
    BY <2>3, <2>4 DEF LoggedIn, Changed
<1>2. IInv => OnlyMembersPost
  BY <1>1 DEF OnlyMembersPost
<1> QED
  BY <1>2, Invariance, PTL

\* A browser that waits for its answers is logged in exactly when its last login or logout
\* was a login.
THEOREM SessionFollowsAnswers == Spec => []SessionFollows
<1>1. ASSUME IInv, NEW b \in Sequential
      PROVE  LET changes == {i \in Ids : proc[i].browser = b /\ Answered(i)
                                         /\ proc[i].route \in {"login", "logout"}
                                         /\ proc[i].status = 302}
             IN cookie[b].logged_in <=> changes # {} /\ proc[Max(changes)].route = "login"
  <2> DEFINE changes == {i \in Ids : proc[i].browser = b /\ Answered(i)
                                     /\ proc[i].route \in {"login", "logout"}
                                     /\ proc[i].status = 302}
  <2>1. \A i \in Ids : i \in changes <=> proc[i].browser = b /\ Changed(i)
    BY DEF Changed
  <2>2. changes \subseteq Ids /\ Ids \subseteq 0..MaxRequests /\ MaxRequests \in Nat
    BY FlaskrAssumption DEF Ids
  <2> HIDE DEF changes
  <2>3. cookie[b].logged_in <=>
          \E j \in Ids : /\ proc[j].browser = b /\ LoggedIn(j)
                         /\ \A k \in Ids : proc[k].browser = b /\ Changed(k) => k <= j
    BY <1>1 DEF IInv, Follows
  <2>4. changes # {} => Max(changes) \in changes /\ \A y \in changes : Max(changes) >= y
    BY <2>2, MaxIs
  <2>5. ASSUME changes # {}, proc[Max(changes)].route = "login" PROVE cookie[b].logged_in
    <3>1. /\ Max(changes) \in Ids /\ proc[Max(changes)].browser = b /\ LoggedIn(Max(changes))
          /\ \A k \in Ids : proc[k].browser = b /\ Changed(k) => k <= Max(changes)
      BY <2>1, <2>2, <2>4, <2>5 DEF LoggedIn, Ids
    <3> QED
      BY <2>3, <3>1
  <2>6. ASSUME cookie[b].logged_in PROVE changes # {} /\ proc[Max(changes)].route = "login"
    <3>1. PICK j \in Ids : /\ proc[j].browser = b /\ LoggedIn(j)
                           /\ \A k \in Ids : proc[k].browser = b /\ Changed(k) => k <= j
      BY <2>3, <2>6
    <3>2. j \in changes /\ changes # {} /\ proc[j].route = "login"
      BY <2>1, <3>1 DEF LoggedIn
    <3>3. Max(changes) \in Ids /\ Max(changes) <= j /\ j <= Max(changes)
      BY <2>1, <2>2, <2>4, <3>1, <3>2 DEF Ids
    <3>4. Max(changes) = j
      BY <3>3 DEF Ids
    <3> QED
      BY <3>2, <3>4
  <2> QED
    BY <2>5, <2>6 DEF changes
<1>2. IInv => SessionFollows
  BY <1>1 DEF SessionFollows
<1> QED
  BY <1>2, Invariance, PTL

\* A browser that waits for its answers sees a message once at most, and only its own.
THEOREM FlashesShownOnce == Spec => []FlashedOnce
<1>1. ASSUME IInv, NEW j \in Ids
      PROVE  LET seen == {i \in Ids : Answered(i) /\ j \in Range(proc[i].shown)}
             IN /\ \A i \in seen : proc[i].browser = proc[j].browser /\ j < i
                /\ proc[j].browser \in Sequential => Cardinality(seen) <= 1
  <2> DEFINE seen == {i \in Ids : Answered(i) /\ j \in Range(proc[i].shown)}
  <2>1. \A i \in seen : proc[i].browser = proc[j].browser /\ j < i
    BY <1>1, AnsweredAsked DEF IInv, Messages
  <2>2. ASSUME proc[j].browser \in Sequential PROVE Cardinality(seen) <= 1
    <3>1. \A i, k \in seen : i = k
      BY <1>1, <2>1, <2>2 DEF IInv, ShownOnce
    <3>2. CASE seen = {}
      BY <3>2, FS_EmptySet
    <3>3. CASE seen # {}
      <4>1. PICK i \in seen : TRUE
        BY <3>3
      <4>2. seen = {i}
        BY <3>1, <4>1
      <4> HIDE DEF seen
      <4>3. Cardinality(seen) = 1
        BY <4>2, FS_Singleton
      <4> QED
        BY <4>3
    <3> QED
      BY <3>2, <3>3
  <2> QED
    BY <2>1, <2>2
<1>2. IInv => FlashedOnce
  BY <1>1 DEF FlashedOnce
<1> QED
  BY <1>2, Invariance, PTL

\* A browser that waits for its answers finds the entries it was told are posted, the
\* newer ones first.
THEOREM EntriesRead == Spec => []ReadsOwnEntries
<1>1. ASSUME IInv, NEW i \in Ids, Answered(i), proc[i].route = "show", proc[i].status = 200,
             proc[i].epoch = epoch, proc[i].browser \in Sequential
      PROVE  LET own == {j \in 1..(i - 1) : /\ proc[j].browser = proc[i].browser
                                            /\ proc[j].route = "add" /\ proc[j].status = 302
                                            /\ Answered(j) /\ proc[j].epoch = epoch}
                 place(j) == {k \in DOMAIN proc[i].entries : proc[i].entries[k] = j}
             IN \A j \in own :
                  /\ place(j) # {}
                  /\ \A j2 \in own : j < j2 => Max(place(j2)) < Min(place(j))
  <2> DEFINE own == {j \in 1..(i - 1) : /\ proc[j].browser = proc[i].browser
                                        /\ proc[j].route = "add" /\ proc[j].status = 302
                                        /\ Answered(j) /\ proc[j].epoch = epoch}
             e == proc[i].entries
             place(j) == {k \in DOMAIN e : e[k] = j}
  <2>1. e \in Seq(Ids) /\ DOMAIN e = 1..Len(e) /\ Len(e) \in Nat
    BY <1>1, Typing DEF IInv
  <2>2. Page(i)
    BY <1>1 DEF IInv, Pages
  <2>3. \A j \in own : j \in Ids /\ j < i /\ place(j) # {}
    <3> TAKE j \in own
    <3>1. j \in Ids /\ j < i
      BY FlaskrAssumption DEF Ids
    <3>2. \E k \in DOMAIN e : e[k] = j
      BY <1>1, <2>2, <3>1 DEF Page
    <3> QED
      BY <3>1, <3>2
  <2>4. \A k1, k2 \in DOMAIN e : k1 < k2 /\ e[k1] \in own /\ e[k2] \in own => e[k2] < e[k1]
    BY <1>1, <2>2 DEF Page
  <2> HIDE DEF own, e
  <2>5. ASSUME NEW j \in own, NEW j2 \in own, j < j2 PROVE Max(place(j2)) < Min(place(j))
    <3>1. place(j) \subseteq 0..Len(e) /\ place(j2) \subseteq 0..Len(e)
      BY <2>1
    <3>2. Max(place(j2)) \in place(j2)
      <4> HIDE DEF place
      <4> QED
        BY <2>1, <2>3, <3>1, MaxIs
    <3>3. Min(place(j)) \in place(j)
      <4> HIDE DEF place
      <4> QED
        BY <2>1, <2>3, <3>1, MinIs
    <3> DEFINE m2 == Max(place(j2))
               m == Min(place(j))
    <3>4. m \in DOMAIN e /\ m2 \in DOMAIN e /\ e[m] = j /\ e[m2] = j2
      BY <3>2, <3>3
    <3> HIDE DEF m, m2
    <3>5. m # m2 /\ ~(m < m2)
      BY <2>3, <2>4, <2>5, <3>4 DEF Ids
    <3>6. m2 < m
      BY <2>1, <3>4, <3>5
    <3> QED
      BY <3>6 DEF m, m2
  <2> QED
    BY <2>3, <2>5 DEF own, e
<1>2. IInv => ReadsOwnEntries
  BY <1>1 DEF ReadsOwnEntries
<1> QED
  BY <1>2, Invariance, PTL
=============================================================================
