---------------------------- MODULE MCConnection ----------------------------
\* Instances of LisoConnection for TLC: the scripts a client may send.
EXTENDS LisoConnection

Text(m, p, v) == [method |-> m, path |-> p, longUri |-> FALSE, version |-> v,
                  headersOk |-> TRUE, lenHeader |-> "absent", len |-> 0, close |-> FALSE]
WithBody(t, n) == [t EXCEPT !.lenHeader = "number", !.len = n]

MCPaths == {"a", "b", "none"}

Get      == Text("GET", "a", "HTTP/1.1")
GetOther == Text("GET", "b", "HTTP/1.1")
GetOld   == Text("GET", "a", "HTTP/1.0")
GetGone  == Text("GET", "none", "HTTP/1.1")
GetClose == [Get EXCEPT !.close = TRUE]
GetBody  == WithBody(Get, 1)
HeadA    == Text("HEAD", "a", "HTTP/1.1")
Post0    == WithBody(Text("POST", "a", "HTTP/1.1"), 0)
Post2    == WithBody(Text("POST", "a", "HTTP/1.1"), 2)
PostBare == Text("POST", "a", "HTTP/1.1")
Put      == Text("PUT", "a", "HTTP/1.1")
Bad      == [Get EXCEPT !.headersOk = FALSE]

MCDisk  == [p \in MCPaths |-> [open |-> IF p = "none" THEN "ENOENT" ELSE "ok",
                               size |-> IF p = "a" THEN 2 ELSE 0]]
MCDisks == {MCDisk}

NoVersion == Text("GET", "a", "")

Pairs(S) == {<<r, s>> : r \in S, s \in S}

\* Pipelines of two requests of every kind.
PairScripts == Pairs({Get, GetOld, GetGone, GetClose, GetBody, HeadA, Post2, Put, Bad,
                      NoVersion, PostBare})

OneGet  == {<<Get>>}
LongPost == {<<WithBody(Post2, 4)>>}

\* Pipelines of three.
TripleScripts == {<<r, s, t>> : r \in {Get, Post2}, s \in {GetOther, Post0, HeadA},
                                t \in {Post2, Get}}

AllScripts == PairScripts \cup TripleScripts
=============================================================================
