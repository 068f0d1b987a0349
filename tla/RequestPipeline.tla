--------------------------- MODULE RequestPipeline ---------------------------
(***************************************************************************)
(* What a connection promises to a client that pipelines its requests: a   *)
(* FIFO server.  Requests are submitted one after the other and answered   *)
(* once each, in that order, until the connection fails (a response after  *)
(* which nothing is promised) or is closed.  A submitted request is        *)
(* answered unless one of the two happens.                                 *)
(***************************************************************************)
EXTENDS Naturals, Sequences

VARIABLES submitted,  \* how many requests have been sent in full
          served,     \* the requests answered, in the order of their answers
          mode        \* "serving", "failed" or "closed"

vars == <<submitted, served, mode>>

Init == submitted = 0 /\ served = <<>> /\ mode = "serving"

Submit == /\ submitted' = submitted + 1
          /\ UNCHANGED <<served, mode>>

\* The answer to the oldest request; it may be the last the server gives.
Answer == /\ mode = "serving"
          /\ Len(served) < submitted
          /\ served' = Append(served, Len(served) + 1)
          /\ mode' \in {"serving", "failed", "closed"}
          /\ UNCHANGED submitted

\* The connection fails or is closed.
Stop == /\ mode \in {"serving", "failed"}
        /\ mode' \in {"failed", "closed"}
        /\ UNCHANGED <<submitted, served>>

Next == Submit \/ Answer \/ Stop

Spec == Init /\ [][Next]_vars /\ WF_vars(Answer)
=============================================================================
