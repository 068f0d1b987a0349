------------------------------- MODULE Flaskr -------------------------------
(***************************************************************************)
(* src/flaskr/flaskr.py as it is deployed: every request is a process of   *)
(* its own, started by the server's CGI gateway; what they share is the    *)
(* database file, with SQLite's locks, and the session each browser keeps  *)
(* in a signed cookie.                                                     *)
(*                                                                         *)
(* A browser may have several requests under way.  A request carries the   *)
(* cookie the browser had when it sent it, and if the application changed  *)
(* the session, the answer carries a whole new cookie, which replaces the  *)
(* browser's when it comes.                                                *)
(***************************************************************************)
EXTENDS Integers, FiniteSets, SequencesExt, FiniteSetsExt

CONSTANTS
  Browsers,     \* the browsers
  Parallel,     \* how many requests each has under way at most
  Kinds,        \* what they ask: subset of Routes
  MaxRequests,  \* bound on the requests of all browsers together
  Troubles      \* what else may happen: subset of {"kill", "init_db"}, one each time

Routes == {"show", "add", "login", "logout"}
Ids    == 1..MaxRequests

ASSUME FlaskrAssumption ==
  /\ MaxRequests \in Nat /\ Kinds \subseteq Routes
  /\ Parallel \in [Browsers -> Nat \ {0}] /\ Troubles \subseteq {"kill", "init_db"}

VARIABLES
  db,        \* the file: has it the table, its rows in the order of their ids, next id
  writer,    \* the process with the RESERVED lock, or 0
  row,       \* the row it has inserted and not committed
  init,      \* where the administrator's init_db is
  cookie,    \* each browser's session
  proc,      \* the processes, by the number of their request
  asked,     \* how many requests there were
  trouble,   \* the trouble of this behaviour, which happens once at most
  epoch      \* how often the table was dropped (history)

vars == <<db, writer, row, init, cookie, proc, asked, trouble, epoch>>

\* session: logged_in, and the flashed messages not yet shown, named by the request.
Session == [logged_in : BOOLEAN, flashes : Seq(Ids)]
NoSession == [logged_in |-> FALSE, flashes |-> <<>>]

NoProc == [state |-> "none", browser |-> "", route |-> "show", session |-> NoSession,
           modified |-> FALSE, status |-> 0, entries |-> <<>>, shown |-> <<>>, epoch |-> 0]

Init ==
  /\ db = [table |-> TRUE, rows |-> <<>>]
  /\ writer = 0 /\ row = 0
  /\ init = "idle"
  /\ cookie = [b \in Browsers |-> NoSession]
  /\ proc = [i \in Ids |-> NoProc]
  /\ asked = 0
  /\ trouble \in Troubles
  /\ epoch = 0

\* The browsers that wait for an answer before they ask again.
Sequential == {b \in Browsers : Parallel[b] = 1}
Live(i)    == proc[i].state \notin {"none", "answered", "killed"}
Pending(b) == {i \in Ids : proc[i].browser = b /\ Live(i)}
Database   == <<db, writer, row, init, epoch>>

\* What the process of request i becomes; the rest stays.
Becomes(i, p) == proc' = [proc EXCEPT ![i] = p] /\ UNCHANGED <<cookie, asked, trouble>>

\* The view returns, and teardown_request closes a connection that holds no lock.
Answers(p, status) == [p EXCEPT !.state = "closed", !.status = status]

flash(s, i) == [s EXCEPT !.flashes = Append(@, i)]

\* The browser's messages would be shown again.
rendered_Keeps(p, entries) ==
  [Answers(p, 200) EXCEPT !.entries = entries, !.shown = p.session.flashes]
\* render_template: layout.html shows the flashed messages, which takes them from the
\* session.
rendered(p, entries) ==
  [Answers(p, 200) EXCEPT !.entries = entries, !.shown = p.session.flashes,
                          !.session.flashes = <<>>,
                          !.modified = @ \/ p.session.flashes # <<>>]

----------------------------------------------------------------------------
(* The browsers. *)

before_request(b, k) ==
  [NoProc EXCEPT !.state = "view", !.browser = b, !.route = k, !.session = cookie[b],
                 !.epoch = epoch]

\* The server starts the process, which connects; SQLite does not read the file yet.
Ask ==
  /\ asked < MaxRequests
  /\ \E b \in Browsers, k \in Kinds :
       /\ Cardinality(Pending(b)) < Parallel[b]
       /\ proc' = [proc EXCEPT ![asked + 1] = before_request(b, k)]
  /\ asked' = asked + 1
  /\ UNCHANGED <<cookie, trouble, Database>>

\* The answer reaches the browser.
Receive ==
  \E i \in Ids :
    /\ proc[i].state = "closed"
    /\ proc' = [proc EXCEPT ![i].state = "answered"]
    /\ cookie' = IF proc[i].modified
                   THEN [cookie EXCEPT ![proc[i].browser] = proc[i].session] ELSE cookie
    /\ UNCHANGED <<asked, trouble, Database>>

----------------------------------------------------------------------------
(* The application. *)

At(i, route) == proc[i].state = "view" /\ proc[i].route = route

\* select ... order by id desc, all rows fetched: it reads the last commit.  Without the
\* table, or with the file locked for longer than SQLite waits, OperationalError, which in
\* DEBUG mode leaves the application with no answer (status 500).
show_entries ==
  \E i \in Ids :
    /\ At(i, "show")
    /\ \/ /\ db.table
          /\ Becomes(i, rendered(proc[i], Reverse(db.rows)))
       \/ /\ ~db.table \/ writer # 0
          /\ Becomes(i, Answers(proc[i], 500))
    /\ UNCHANGED Database

\* abort(401), and the BadRequest of a form without title or text.
add_entry_refused ==
  \E i \in Ids :
    /\ At(i, "add")
    /\ Becomes(i, Answers(proc[i], IF proc[i].session.logged_in THEN 400 ELSE 401))
    /\ UNCHANGED Database

MayAdd_Anyone(i) == At(i, "add")
MayAdd(i) == At(i, "add") /\ proc[i].session.logged_in

\* insert: begins a transaction and takes the RESERVED lock, or gives up on another's.
add_entry_insert ==
  \E i \in Ids :
    /\ MayAdd(i)
    /\ \/ /\ db.table /\ writer = 0
          /\ writer' = i /\ row' = i
          /\ Becomes(i, [proc[i] EXCEPT !.state = "inserted"])
          /\ UNCHANGED <<db, init, epoch>>
       \/ /\ ~db.table \/ writer # 0
          /\ Becomes(i, Answers(proc[i], 500))
          /\ UNCHANGED Database

commit_First(i) == [db EXCEPT !.rows = <<row>> \o @]
\* The row gets the next id.
commit(i) == [db EXCEPT !.rows = Append(@, row)]

\* commit, flash, redirect.  The commit fails if a reader stays for longer than SQLite
\* waits; the transaction is then still open.
add_entry_commit ==
  \E i \in Ids :
    /\ proc[i].state = "inserted"
    /\ \/ /\ db' = commit(i)
          /\ writer' = 0 /\ row' = 0
          /\ Becomes(i, [Answers(proc[i], 302) EXCEPT !.session = flash(@, i),
                                                      !.modified = TRUE])
          /\ UNCHANGED <<init, epoch>>
       \/ /\ \E j \in Ids \ {i} : proc[j].state = "view" /\ proc[j].route = "show"
          /\ Becomes(i, [Answers(proc[i], 500) EXCEPT !.state = "done"])
          /\ UNCHANGED Database

\* The right name and password, or the form, with the error or without.
login ==
  \E i \in Ids :
    /\ At(i, "login")
    /\ \/ Becomes(i, [Answers(proc[i], 302) EXCEPT
                         !.session = flash([@ EXCEPT !.logged_in = TRUE], i),
                         !.modified = TRUE])
       \/ Becomes(i, rendered(proc[i], <<>>))
    /\ UNCHANGED Database

LoggedOut_KeepsLogin(s, i) == flash(s, i)
\* session.pop('logged_in', None), and the message.
LoggedOut(s, i) == flash([s EXCEPT !.logged_in = FALSE], i)

logout ==
  \E i \in Ids :
    /\ At(i, "logout")
    /\ Becomes(i, [Answers(proc[i], 302) EXCEPT !.session = LoggedOut(@, i),
                                                !.modified = TRUE])
    /\ UNCHANGED Database

Closed_Commits(i) == IF writer = i THEN commit(i) ELSE db
\* What closing a connection makes of the file: an open transaction is rolled back.
Closed(i) == db

Released_Forgets(i) == writer
\* Who holds the lock when process i has let go of the file.
Released(i) == IF writer = i THEN 0 ELSE writer

\* teardown_request closes the connection; after an exception in DEBUG mode the end of the
\* process does.  With it goes the lock.
teardown_request ==
  \E i \in Ids :
    /\ proc[i].state = "done"
    /\ db' = Closed(i)
    /\ writer' = Released(i)
    /\ row' = (IF writer = i THEN 0 ELSE row)
    /\ Becomes(i, [proc[i] EXCEPT !.state = "closed"])
    /\ UNCHANGED <<init, epoch>>

\* The process ends at any point, with the server or its pipe: SQLite rolls back.
Kill ==
  \E i \in Ids :
    /\ trouble = "kill" /\ Live(i) /\ \A j \in Ids : proc[j].state # "killed"
    /\ writer' = Released(i)
    /\ row' = (IF writer = i THEN 0 ELSE row)
    /\ Becomes(i, [proc[i] EXCEPT !.state = "killed"])
    /\ UNCHANGED <<db, init, epoch>>

----------------------------------------------------------------------------
(* The administrator. *)

\* executescript runs schema.sql statement by statement, each its own transaction.
init_db ==
  /\ trouble = "init_db"
  /\ \/ /\ init = "idle" /\ writer = 0
        /\ init' = "script" /\ epoch' = epoch + 1
        /\ db' = [table |-> FALSE, rows |-> <<>>]
     \/ /\ init = "script"
        /\ init' = "over" /\ epoch' = epoch
        /\ db' = [db EXCEPT !.table = TRUE]
  /\ UNCHANGED <<writer, row, cookie, proc, asked, trouble>>

Work == \/ show_entries \/ add_entry_refused \/ add_entry_insert
        \/ add_entry_commit \/ login \/ logout \/ teardown_request \/ Receive
Next == Ask \/ Work \/ Kill \/ init_db

Spec == Init /\ [][Next]_vars

----------------------------------------------------------------------------
(* Properties. *)

\* The types; and a lock, like the row that waits for its commit, is a live process's.
TypeOK ==
  /\ \A b \in Browsers : cookie[b] \in [logged_in : BOOLEAN, flashes : Seq(Ids)]
  /\ \A i \in Ids :
       /\ proc[i].state \in {"none", "view", "inserted", "done", "closed",
                              "answered", "killed"}
       /\ proc[i].status \in {0, 200, 302, 400, 401, 500}
       /\ Range(proc[i].entries) \union Range(proc[i].shown) \subseteq Ids
  /\ Range(db.rows) \subseteq Ids
  /\ writer = row /\ (writer # 0 => Live(writer))
  /\ asked \in 0..MaxRequests

Answered(i) == proc[i].state = "answered"
Count(i)    == Cardinality({k \in DOMAIN db.rows : db.rows[k] = i})

\* add_entry 89-97 with teardown_request 75-79 and the commit: whatever other processes do
\* to the database at the same time, the answer tells whether the entry is there: once
\* after the redirect, not at all after any other answer.  A process that was killed leaves
\* one or none.  (init_db, which drops everything, starts anew.)
AnswerTellsOutcome ==
  \A i \in Ids :
    proc[i].route = "add" /\ proc[i].epoch = epoch =>
      /\ Answered(i) => Count(i) = (IF proc[i].status = 302 THEN 1 ELSE 0)
      /\ proc[i].state = "killed" => Count(i) <= 1

\* The guard of add_entry, 91-92: an entry that is stored was asked for by a browser that
\* had, before that, been answered a successful login.
OnlyMembersPost ==
  \A i \in Range(db.rows) :
    \E j \in 1..(i - 1) :
      proc[j].browser = proc[i].browser /\ proc[j].route = "login" /\ proc[j].status = 302
      /\ Answered(j)

\* show_entries 82-86: a browser that was told that its entries are posted finds them on
\* every page it asks for afterwards, the newer ones first.
ReadsOwnEntries ==
  \A i \in Ids :
    Answered(i) /\ proc[i].route = "show" /\ proc[i].status = 200 /\ proc[i].epoch = epoch
    /\ proc[i].browser \in Sequential =>
      LET own == {j \in 1..(i - 1) : /\ proc[j].browser = proc[i].browser
                                     /\ proc[j].route = "add" /\ proc[j].status = 302
                                     /\ Answered(j) /\ proc[j].epoch = epoch}
          place(j) == {k \in DOMAIN proc[i].entries : proc[i].entries[k] = j}
      IN \A j \in own :
           /\ place(j) # {}
           /\ \A j2 \in own : j < j2 => Max(place(j2)) < Min(place(j))

\* flash and get_flashed_messages: a browser that waits for its answers sees each message
\* at most once, and only its own.
FlashedOnce ==
  \A j \in Ids :
    LET seen == {i \in Ids : Answered(i) /\ j \in Range(proc[i].shown)}
    IN /\ \A i \in seen : proc[i].browser = proc[j].browser /\ j < i
       /\ proc[j].browser \in Sequential => Cardinality(seen) <= 1

\* login and logout, 100-119: for a browser that waits for its answers the last answer of
\* the two decides whether it is logged in, whatever it asked for since.
SessionFollows ==
  \A b \in Sequential :
    LET changes == {i \in Ids : proc[i].browser = b /\ Answered(i)
                                 /\ proc[i].route \in {"login", "logout"}
                                 /\ proc[i].status = 302}
    IN cookie[b].logged_in <=> changes # {} /\ proc[Max(changes)].route = "login"
=============================================================================
