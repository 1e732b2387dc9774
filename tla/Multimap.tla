------------------------------ MODULE Multimap -------------------------------
(***************************************************************************)
(* What a program may assume of the hash map: it holds the entries it was  *)
(* given, and a lookup finds one with the key if there is any.  With       *)
(* several of one key it is the newest, until a rehash, which may happen   *)
(* at any put, makes it any of those older than itself.                    *)
(***************************************************************************)
CONSTANTS Entries, Keys, NULL

VARIABLES keyOf,        \* the key of each entry
          given,        \* the entries in the map
          latest,       \* the newest entry of each key since the last rehash
          done          \* the last call that returned, and its result

Init ==
  /\ keyOf \in [Entries -> Keys]
  /\ given = {}
  /\ latest = [k \in Keys |-> NULL]
  /\ done = << "init", NULL, NULL >>

Put(e) ==
  /\ e \notin given
  /\ given' = given \cup {e}
  /\ \/ latest' = [latest EXCEPT ![keyOf[e]] = e]
     \/ latest' = [k \in Keys |-> IF k = keyOf[e] THEN e ELSE NULL]
  /\ done' = << "put", e, NULL >>
  /\ UNCHANGED keyOf

Get(k, result) ==
  /\ IF result = NULL
     THEN \A e \in given : keyOf[e] # k
     ELSE /\ result \in given /\ keyOf[result] = k
          /\ latest[k] \in {NULL, result}
  /\ done' = << "get", k, result >>
  /\ UNCHANGED << keyOf, given, latest >>

Clear ==
  /\ given' = {}
  /\ latest' = [k \in Keys |-> NULL]
  /\ done' = << "free", NULL, NULL >>
  /\ UNCHANGED keyOf

Next ==
  \/ \E e \in Entries : Put(e)
  \/ \E k \in Keys, result \in Entries \cup {NULL} : Get(k, result)
  \/ Clear

Spec == Init /\ [][Next]_<< keyOf, given, latest, done >>
=============================================================================
