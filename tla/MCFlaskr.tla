------------------------------ MODULE MCFlaskr ------------------------------
(* A browser that waits for its answers and one that asks two things at a time, for Flaskr. *)
EXTENDS Flaskr

MCBrowsers == {"one", "two"}
MCParallel == [b \in MCBrowsers |-> IF b = "one" THEN 1 ELSE 2]
=============================================================================
