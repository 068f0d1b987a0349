----------------------------- MODULE HttpParser -----------------------------
(***************************************************************************)
(* http_parser.c as pure operators.  A header block is a record that keeps *)
(* what the code tells apart:                                              *)
(*   method     the first token of the request line ("" for an empty line) *)
(*   path       the URI, a key of the document tree                        *)
(*   longUri    the URI has at least MAX_URI_LENGTH characters             *)
(*   version    the third token, "" when it is missing                     *)
(*   headersOk  every header line has the form "name: value"               *)
(*   lenHeader  Content-Length is "absent", a "number" or some other "text"*)
(*   len        its value, as atoi reads it (0 unless lenHeader = "number")*)
(*   close      the block carries "Connection: Close"                      *)
(* A status is the integer the code keeps in request->status; 0 means that *)
(* nothing has been decided yet.                                           *)
(***************************************************************************)
EXTENDS Naturals

METHODLENGTH == 5

\* Bytes of each method name the server knows of, without the final NUL.
MethodBytes == [HEAD |-> 4, GET |-> 3, POST |-> 4, PUT |-> 3, OPTIONS |-> 7,
                DELETE |-> 6, TRACE |-> 5, CONNECT |-> 7, PATCH |-> 5]

Implemented   == {"HEAD", "GET", "POST"}
ValidMethods  == DOMAIN MethodBytes
Versions      == {"HTTP/1.0", "HTTP/1.1"}

\* The tokens that occur: a name the server knows, none, bytes that are no name,
\* what is left of a name that was too long.
MethodTokens  == ValidMethods \cup {"", "garbled", "overrun"}
VersionTokens == Versions \cup {"", "other"}

\* sscanf writes method, uri and version one after the other into adjacent
\* fields of http_request: a name that does not fit in method[METHODLENGTH]
\* with its NUL is run together with the URI written after it, and no longer
\* compares equal to anything.
StoredMethod(m) ==
  IF m \in ValidMethods /\ MethodBytes[m] >= METHODLENGTH THEN "overrun" ELSE m

MethodStatus(m) == IF m \in ValidMethods THEN 501 ELSE 400

\* parse_request_line, started with request->status = s.
ParseRequestLine(r, s) ==
  IF r.method = ""                                      THEN 500
  ELSE IF StoredMethod(r.method) \notin Implemented     THEN MethodStatus(StoredMethod(r.method))
  ELSE IF r.longUri                                     THEN 414
  ELSE s

\* parse_headers: a malformed line overrides whatever the request line said.
ParseHeaders(r, s) == IF r.headersOk THEN s ELSE 400

ParseHttp(r, s) == ParseHeaders(r, ParseRequestLine(r, s))

\* What open(dir, O_RDONLY) finds: the errno classes determine_status tells apart.
OpenOutcomes == {"ok", "EACCES", "ENOENT", "ENOTDIR", "EMFILE"}

OpenStatus(outcome) ==
  IF outcome = "ok"                         THEN 200
  ELSE IF outcome = "EACCES"                THEN 401
  ELSE IF outcome \in {"ENOENT", "ENOTDIR"} THEN 404
  ELSE 500

\* determine_status on the stored method m: a status other than 0 and 200 is final.
DetermineStatus(s, r, m, outcome) ==
  IF s \notin {0, 200}                                  THEN s
  ELSE IF m \notin Implemented                          THEN MethodStatus(m)
  ELSE IF r.version \notin Versions                     THEN 505
  ELSE IF m # "POST"                                    THEN OpenStatus(outcome)
  ELSE IF r.lenHeader = "absent"                        THEN 411
  ELSE IF r.lenHeader = "text"                          THEN 400
  ELSE 200

\* content_length as post_recv_phase and build_response compute it.
ContentLength(r) == IF r.lenHeader = "number" THEN r.len ELSE 0
=============================================================================
