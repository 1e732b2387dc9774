------------------------------ MODULE MCHashMap ------------------------------
(* TLC instance of HashMap: four entries of two keys, in tables of 1, 2    *)
(* and 4 buckets, with hashes that always, sometimes or never collide.     *)
EXTENDS HashMap

(* Entries are interchangeable: those of the first key come first. *)
SortedInit == Init /\ \A e, f \in Entries : e < f => keyOf[e] <= keyOf[f]

MCSpec == SortedInit /\ [][Next]_vars /\ WF_vars(Run)
=============================================================================
