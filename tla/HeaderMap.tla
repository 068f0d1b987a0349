------------------------------ MODULE HeaderMap ------------------------------
(***************************************************************************)
(* What the header table of a request promises: a map from field names to  *)
(* the values given for them, the latest first, and a judgement of a POST  *)
(* by the length it declares.  LisoHash implements it.                     *)
(***************************************************************************)
EXTENDS Sequences

CONSTANTS Keys, Values, LengthKey, Verdict(_)

VARIABLES fields, verdict

vars == <<fields, verdict>>

Empty == [k \in Keys |-> <<>>]

Init == fields = Empty /\ verdict = "none"

Put(k, v) == fields' = [fields EXCEPT ![k] = <<v>> \o @] /\ UNCHANGED verdict

Drop(k) == fields[k] # <<>> /\ fields' = [fields EXCEPT ![k] = Tail(@)] /\ UNCHANGED verdict

\* 411 without a declared length, otherwise what the latest one says.
Judge == /\ verdict' = IF fields[LengthKey] = <<>> THEN "411"
                       ELSE Verdict(Head(fields[LengthKey]))
         /\ UNCHANGED fields

\* The next request of the connection.
Clear == fields' = Empty /\ verdict' = "none"

Next == \/ \E k \in Keys, v \in Values : Put(k, v)
        \/ \E k \in Keys : Drop(k)
        \/ Judge \/ Clear

Spec == Init /\ [][Next]_vars
=============================================================================
