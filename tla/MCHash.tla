------------------------------- MODULE MCHash -------------------------------
(* Names for the instances of LisoHash, with super_fast_hash % 109 of each. *)
EXTENDS LisoHash

MCNames == {"Content-Length", "content-length", "te", "cookie", "accept-charset"}

MCLower == [n \in MCNames |-> IF n = "Content-Length" THEN "content-length" ELSE n]

MCBucket == [n \in MCNames |->
  CASE n = "content-length" -> 53
    [] n = "te"             -> 53
    [] n = "cookie"         -> 86
    [] n = "accept-charset" -> 86
    [] n = "Content-Length" -> 57]

\* The first four bytes of each, least significant first.
MCPacked == [n \in MCNames |->
  CASE n = "content-length" -> 1953394531
    [] n = "te"             -> 25972
    [] n = "cookie"         -> 1802465123
    [] n = "accept-charset" -> 1701012321
    [] n = "Content-Length" -> 1953394499]
=============================================================================
