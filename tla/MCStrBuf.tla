------------------------------ MODULE MCStrBuf -------------------------------
(* TLC instance of StrBuf: a size_t of four bits, so that alloc_needed()   *)
(* wraps on the third growth, and texts that are empty, short, and as long *)
(* as the largest object.                                                  *)
EXTENDS StrBuf

CONSTANT Lengths

(* Texts that repeat one character, and one that does not. *)
Runs == {[x \in 1 .. n |-> c] : n \in Lengths, c \in Chars}
=============================================================================
