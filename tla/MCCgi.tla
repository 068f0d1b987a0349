------------------------------- MODULE MCCgi -------------------------------
(* Small pipelines of requests for LisoCgi. *)
EXTENDS LisoCgi

Get(script)        == [method |-> "GET", body |-> 0, script |-> script]
Post(body, script) == [method |-> "POST", body |-> body, script |-> script]

Show   == Get(<<"start", "return", "empty", "data", "data", "data">>)
Add    == Post(3, <<"read", "read", "read", "start", "return">>)
Late   == Post(1, <<"read", "start", "start_exc", "write", "return", "data">>)
Fails  == Post(1, <<"read", "start", "return", "data", "start_exc", "data">>)
Dies   == Get(<<"raise">>)
NoHead == Get(<<"return", "data">>)
\* Not careful: an answer before the body is read, a stream, a program that reads on.
Aborts == Post(2, <<"start", "return", "data">>)
Echo   == Post(4, <<"start", "return", "read", "data", "read", "data", "read", "data", "read", "data">>)
Greedy == Post(1, <<"read", "read", "start", "return">>)

MCPipelines ==
  {<<Show, Add, Show>>, <<Add, Add>>, <<Late, Fails, Show>>, <<Dies, NoHead, Late>>,
   <<Aborts, Show>>, <<Echo>>, <<Greedy, Show>>}
=============================================================================
