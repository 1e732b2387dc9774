----------------------------- MODULE TokenStream -----------------------------
(***************************************************************************)
(* What the parser may assume of its token window: a cursor over the       *)
(* tokens of the source.  Consuming moves it by exactly one token, looking *)
(* n tokens ahead does not move it, and the answers are exact.             *)
(***************************************************************************)
EXTENDS Integers

CONSTANT QueueSize

VARIABLES pos,      \* the current token
          call,     \* the last call: how far it looked, CONSUME if it did not
          answer    \* what the last call returned

CONSUME == -1

Init == pos = 0 /\ call = CONSUME /\ answer = 0

(* The consumed token; the very first call has none and returns token 1.   *)
Consume ==
  /\ pos' = pos + 1
  /\ call' = CONSUME
  /\ answer' = IF pos = 0 THEN 1 ELSE pos

Look(n) ==
  /\ call' = n
  /\ answer' = pos + n + 1
  /\ UNCHANGED pos

Next == Consume \/ \E n \in 0 .. QueueSize - 1 : Look(n)

Spec == Init /\ [][Next]_<< pos, call, answer >>
=============================================================================
