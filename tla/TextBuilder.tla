----------------------------- MODULE TextBuilder -----------------------------
(***************************************************************************)
(* What a string buffer promises: a text that grows by what is appended,   *)
(* and is handed over whole.                                               *)
(***************************************************************************)
EXTENDS Sequences

CONSTANT Texts

VARIABLES text, out     \* the text so far; the one handed over last

Init == text = << >> /\ out = << >>

AppendText(s) == text' = text \o s /\ UNCHANGED out

HandOver == out' = text /\ text' = << >>

Clear == text' = << >> /\ UNCHANGED out

Next == (\E s \in Texts : AppendText(s)) \/ HandOver \/ Clear

Spec == Init /\ [][Next]_<< text, out >>
=============================================================================
