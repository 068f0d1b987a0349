----------------------------- MODULE WsgiGateway -----------------------------
(***************************************************************************)
(* run_with_cgi of src/flaskr/flaskr.py: one CGI process that runs a WSGI  *)
(* application on its standard input and output.  An application is the    *)
(* sequence of what it does:                                               *)
(*   "read"       takes the next part of the body from wsgi.input          *)
(*   "start"      calls start_response                                     *)
(*   "start_exc"  calls start_response with exc_info                       *)
(*   "write"      calls the write that start_response returned             *)
(*   "return"     returns its iterable; what follows is done as the        *)
(*                iterable is consumed                                     *)
(*   "data"       yields a block of the body, "empty" yields ''            *)
(*   "raise"      raises an exception                                      *)
(***************************************************************************)
EXTENDS Integers, FiniteSets, SequencesExt

Events == {"read", "start", "start_exc", "write", "return", "data", "empty", "raise"}

\* A gateway in the middle of a request: what is left of the application, what the two
\* lists hold, whether there is a result yet and whether it was closed, and what the step
\* just taken has put on standard output.
NewGateway(script) ==
  [script |-> script, headers_set |-> FALSE, headers_sent |-> FALSE,
   result |-> FALSE, closed |-> FALSE, state |-> "running", put |-> <<>>]

\* An exception leaves run_with_cgi: finally closes the result there is, if there is one.
Raised(g) == [g EXCEPT !.state = "raised", !.closed = g.result, !.put = <<>>]

write_NoHeaders(g, data) == [g EXCEPT !.put = data]
\* write: the stored headers go out before the first output.
write(g, data) ==
  IF ~g.headers_set THEN Raised(g)
  ELSE [g EXCEPT !.headers_sent = TRUE,
                 !.put = (IF g.headers_sent THEN <<>> ELSE <<"head">>) \o data]

\* start_response: the headers can be replaced by an error's until they were sent.
start_response(g, exc_info) ==
  IF (exc_info /\ g.headers_sent) \/ (~exc_info /\ g.headers_set) THEN Raised(g)
  ELSE [g EXCEPT !.headers_set = TRUE, !.put = <<>>]

\* The result is used up: the headers of an empty body, then close.
Finished(g) ==
  LET last == IF g.headers_sent THEN [g EXCEPT !.put = <<>>] ELSE write(g, <<>>)
  IN [last EXCEPT !.state = IF last.state = "raised" THEN "raised" ELSE "exited",
                  !.closed = TRUE]

\* The next thing the application does ("read" is the process's own affair).
run_with_cgi(g) ==
  IF g.script = <<>> THEN Finished(g)
  ELSE LET e == Head(g.script)
           h == [g EXCEPT !.script = Tail(g.script), !.put = <<>>]
       IN CASE e = "start"     -> start_response(h, FALSE)
            [] e = "start_exc" -> start_response(h, TRUE)
            [] e \in {"write", "data"} -> write(h, <<"data">>)
            [] e = "return"    -> [h EXCEPT !.result = TRUE]
            [] e = "raise"     -> Raised(h)
            [] OTHER           -> h

\* What the application has done before its i-th step.
HasSet(script, i)  == \E j \in 1..(i - 1) : script[j] \in {"start", "start_exc"}
HasSent(script, i) == \E j \in 1..(i - 1) : script[j] \in {"write", "data"}

\* Steps that end it: headers set twice, or replaced when they are gone, or data without them.
Refused(script, i) ==
  \/ script[i] = "raise"
  \/ script[i] = "start" /\ HasSet(script, i)
  \/ script[i] = "start_exc" /\ HasSent(script, i)
  \/ script[i] \in {"write", "data"} /\ ~HasSet(script, i)
Performed(script) == {i \in DOMAIN script : \A j \in 1..i : ~Refused(script, j)}

\* All an application puts out when nothing is in its way: the headers, once, before the
\* first block or at the end, and a block for every write and every piece of the result.
Output(script) ==
  LET blocks == {i \in Performed(script) : script[i] \in {"write", "data"}}
      ends   == Performed(script) = DOMAIN script /\ HasSet(script, Len(script) + 1)
  IN IF blocks = {} /\ ~ends THEN <<>>
     ELSE [k \in 1..(Cardinality(blocks) + 1) |-> IF k = 1 THEN "head" ELSE "data"]
=============================================================================
