------------------------------ MODULE MCEngine ------------------------------
\* Instances of LisoEngine for TLC.
EXTENDS LisoEngine, TLC

Symmetry == Permutations(Clients)

Static == [uri |-> "static", ok |-> TRUE, close |-> FALSE]
Absent == [uri |-> "static", ok |-> FALSE, close |-> FALSE]
Last   == [uri |-> "static", ok |-> TRUE, close |-> TRUE]
Cgi    == [uri |-> "cgi", ok |-> TRUE, close |-> FALSE]

StaticRequests == {Static, Absent, Last}
LastOnly == {Last}
CgiOnly  == {Cgi}
=============================================================================
