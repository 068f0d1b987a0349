------------------------------ MODULE LisoHash ------------------------------
(***************************************************************************)
(* liso_hash, the table of a request's header fields: HASHSIZE chains of   *)
(* pairs, the names once more in keys[], and a counter; and its life on a  *)
(* connection, where every request fills it, determine_status and the      *)
(* handlers look fields up, and get_ready_for_pipeline empties it.         *)
(*                                                                         *)
(* Names are spelled as the client spells them; Lower is tolower and       *)
(* Bucket is super_fast_hash modulo HASHSIZE, both given as functions.     *)
(***************************************************************************)
EXTENDS Integers, SequencesExt, FiniteSetsExt

CONSTANTS
  Names,       \* field names, in any spelling
  Lower,       \* string_tolower on Names
  Bucket,      \* super_fast_hash % HASHSIZE on Names
  Packed,      \* the first four bytes of a name, its zero included, as an int
  Values,      \* what a field may say: subset of {"number", "word"}
  NUMHEADERS   \* room in keys[]

Keys      == {Lower[n] : n \in Names}
Buckets   == {Bucket[n] : n \in Names}
LengthKey == "content-length"
NULL      == "NULL"

ASSUME HashAssumption ==
  /\ Lower \in [Names -> Names] /\ \A k \in Keys : Lower[k] = k
  /\ Bucket \in [Names -> Nat] /\ Packed \in [Names -> Nat]
  /\ Values \subseteq {"number", "word"}
  /\ LengthKey \in Keys /\ NULL \notin Names
  /\ NUMHEADERS \in Nat \ {0}

VARIABLES
  hash,         \* the chains, the latest pair first
  keys,         \* keys[], "" where it is zeroed
  num_headers,
  verdict,      \* what determine_status finds of a POST: "none", "411", "400", "ok"
  process       \* "up"; "crashed" through NULL; "overrun", "cleared" behind keys[]

table == <<hash, keys, num_headers>>
vars  == <<hash, keys, num_headers, verdict, process>>

NoKeys   == [i \in 0..(NUMHEADERS - 1) |-> ""]
NoChains == [b \in Buckets |-> <<>>]

Init ==
  /\ hash = NoChains /\ keys = NoKeys /\ num_headers = 0
  /\ verdict = "none" /\ process = "up"

-----------------------------------------------------------------------------
\* Lookups.  They hash and compare the name as it is given.

Positions(chain, name) == {n \in DOMAIN chain : chain[n].key = name}
FirstOf(chain, name)   == Min(Positions(chain, name))

get_value(name) ==
  LET chain == hash[Bucket[name]]
  IN IF num_headers = 0 \/ Positions(chain, name) = {} THEN NULL
     ELSE chain[FirstOf(chain, name)].value

contains_key_AnyField(name) == num_headers # 0
\* Whether the bucket is in use: the pairs in it are not looked at.
contains_key(name) == num_headers # 0 /\ hash[Bucket[name]] # <<>>

-----------------------------------------------------------------------------
Prepended_Raw(name, value) ==
  [hash EXCEPT ![Bucket[name]] = <<[key |-> name, value |-> value]>> \o @]
Prepended_Replaces(name, value) ==
  [hash EXCEPT ![Bucket[Lower[name]]] = <<[key |-> Lower[name], value |-> value]>>]
Prepended_Behind(name, value) ==
  [hash EXCEPT ![Bucket[Lower[name]]] = Append(@, [key |-> Lower[name], value |-> value])]
\* A later field of the same name comes before the earlier ones.
Prepended(name, value) ==
  [hash EXCEPT ![Bucket[Lower[name]]] = <<[key |-> Lower[name], value |-> value]>> \o @]

\* One field of the block, in parse_headers.
hash_add(name, value) ==
  /\ process = "up" /\ verdict = "none" /\ num_headers < NUMHEADERS
  /\ hash' = Prepended(name, value)
  /\ keys' = [keys EXCEPT ![num_headers] = Lower[name]]
  /\ num_headers' = num_headers + 1
  /\ UNCHANGED <<verdict, process>>

\* keys[NUMHEADERS] is the counter: the name is written over it before it is
\* increased, and a longer name over what follows the table.  What the process
\* does with such a counter is not followed further.
hash_add_overruns(name, value) ==
  /\ process = "up" /\ verdict = "none" /\ num_headers = NUMHEADERS
  /\ hash' = Prepended(name, value)
  /\ num_headers' = Packed[Lower[name]] + 1
  /\ process' = "overrun"
  /\ UNCHANGED <<keys, verdict>>

\* remove_key_from_keyset: every occurrence, although only one pair has gone.
Forgotten(name) == [i \in DOMAIN keys |-> IF keys[i] = name THEN "" ELSE keys[i]]

\* The chain without the first pair of that name.
Remaining(chain, name) == RemoveAt(chain, FirstOf(chain, name))

TakesOut(name) ==
  /\ process = "up" /\ verdict = "none"
  /\ get_value(name) # NULL
  /\ hash' = [hash EXCEPT ![Bucket[name]] = Remaining(@, name)]
  /\ keys' = Forgotten(name)
  /\ UNCHANGED verdict

\* Nothing in the server calls it.
hash_remove(name) == TakesOut(name) /\ num_headers' = num_headers - 1 /\ UNCHANGED process

\* The loop over keys[] runs to HASHSIZE: a row behind the table that happens to
\* read as the name is cleared too.  The first of them is the counter; memory
\* that is not the table's is not followed.
hash_remove_overruns(name) ==
  TakesOut(name) /\ num_headers' \in {num_headers - 1, 0} /\ process' = "cleared"

\* atoi of a value that does not start with a digit is 0, and isdigit says no.
LengthVerdict(value) == IF value = "number" THEN "ok" ELSE "400"

\* The part of determine_status that looks at a POST's header fields.
determine_status ==
  /\ process = "up" /\ verdict = "none"
  /\ \/ ~contains_key(LengthKey) /\ verdict' = "411" /\ UNCHANGED process
     \/ /\ contains_key(LengthKey) /\ get_value(LengthKey) # NULL
        /\ verdict' = LengthVerdict(get_value(LengthKey)) /\ UNCHANGED process
     \/ /\ contains_key(LengthKey) /\ get_value(LengthKey) = NULL
        /\ process' = "crashed" /\ UNCHANGED verdict
  /\ UNCHANGED table

\* collapse and init_hash, in get_ready_for_pipeline and for a new connection.
Collapsed == NoChains

get_ready_for_pipeline ==
  /\ process = "up" /\ verdict # "none"
  /\ hash' = Collapsed /\ keys' = NoKeys /\ num_headers' = 0
  /\ verdict' = "none"
  /\ UNCHANGED process

Next ==
  \/ \E n \in Names, v \in Values : hash_add(n, v) \/ hash_add_overruns(n, v)
  \/ \E n \in Names : hash_remove(n) \/ hash_remove_overruns(n)
  \/ determine_status \/ get_ready_for_pipeline

Spec == Init /\ [][Next]_vars

-----------------------------------------------------------------------------
Pair == [key : Keys, value : Values]

\* Types of the state.
TypeOK ==
  /\ hash \in [Buckets -> Seq(Pair)]
  /\ keys \in [0..(NUMHEADERS - 1) -> Keys \cup {""}]
  /\ num_headers \in Nat
  /\ verdict \in {"none", "411", "400", "ok"}
  /\ process \in {"up", "crashed", "overrun", "cleared"}

\* Where the pairs are.
Stored == UNION {{b} \X DOMAIN hash[b] : b \in Buckets}

\* The counter that says where the next name is written in keys[] is the number
\* of pairs in the chains, whatever was added, removed and emptied, up to the
\* field that does not fit, the one after NUMHEADERS, and to no earlier one;
\* and every pair is in the bucket its name hashes to, where the lookups will
\* search.
CounterIsTotal ==
  /\ process \in {"up", "crashed"} => num_headers = Cardinality(Stored)
  /\ process = "overrun" <=> Cardinality(Stored) > NUMHEADERS
  /\ \A b \in Buckets : \A n \in DOMAIN hash[b] : Bucket[hash[b][n].key] = b

\* A length is looked up where there is none, and the process crashes, only if
\* another name that hashes to content-length's bucket is in the table: of the
\* names of the standard, only TE is such a name.
CrashNeedsCollision ==
  process = "crashed" =>
    /\ get_value(LengthKey) = NULL
    /\ \E k \in Keys \ {LengthKey} : Bucket[k] = Bucket[LengthKey] /\ get_value(k) # NULL

-----------------------------------------------------------------------------
\* The values of a name, as a walk along its chain meets them.
ValuesOf(chain, name) ==
  LET From[n \in 1..(Len(chain) + 1)] ==
        IF n > Len(chain) THEN <<>>
        ELSE IF chain[n].key = name THEN <<chain[n].value>> \o From[n + 1]
        ELSE From[n + 1]
  IN From[1]

Promise == INSTANCE HeaderMap WITH
             Verdict <- LengthVerdict, fields <- [k \in Keys |-> ValuesOf(hash[Bucket[k]], k)]

\* The table is a map from lower-case names to the values given, the latest
\* first; the next request starts with an empty one; and a POST is judged by the
\* length it declares, in spite of chains shared by several names.
ImplementsHeaderMap == Promise!Spec
=============================================================================
