------------------------------ MODULE Sessions ------------------------------
(***************************************************************************)
(* What the server promises to its clients, each of which sees only its    *)
(* own session: a request is answered once, a session ends only when the   *)
(* client has left or with the answer to a request, and no step of the     *)
(* server touches two sessions.  A client that waits for an answer gets    *)
(* it, or leaves.                                                          *)
(***************************************************************************)
CONSTANT Clients

VARIABLE session  \* "away", "idle", "waiting" or "leaving", for each client

Move(c, from, to) == session[c] = from /\ session' = [session EXCEPT ![c] = to]

Join(c)   == Move(c, "away", "idle") \/ Move(c, "away", "leaving")
Ask(c)    == Move(c, "idle", "waiting")
Leave(c)  == Move(c, "idle", "leaving") \/ Move(c, "waiting", "leaving")
Answer(c) == Move(c, "waiting", "idle") \/ Move(c, "waiting", "away")
Forget(c) == Move(c, "leaving", "away")

Init == session = [c \in Clients |-> "away"]
Next == \E c \in Clients : Join(c) \/ Ask(c) \/ Leave(c) \/ Answer(c) \/ Forget(c)

Spec == /\ Init /\ [][Next]_session
        /\ \A c \in Clients : WF_session(Answer(c)) /\ WF_session(Forget(c))
=============================================================================
