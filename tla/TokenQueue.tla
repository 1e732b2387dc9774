----------------------------- MODULE TokenQueue ------------------------------
(***************************************************************************)
(* The token window as a machine of its own: a client that calls peek()    *)
(* and advance() of src/src/frontend/parser.c in any order.                *)
(***************************************************************************)
EXTENDS ParserContext

CONSTANT MaxTokens      \* bound: tokens the client makes the lexer produce

ASSUME MaxTokensAssumption == MaxTokens \in Nat

VARIABLES p,            \* the parser context
          call,         \* the last call: the n of peek(), or ADVANCE
          answer        \* what the last call returned

vars == << p, call, answer >>

ADVANCE == -1

Init == p = InitialContext /\ call = ADVANCE /\ answer = UNINIT

(* peek(p, n); the assert n < 4 is the range of n. *)
CallPeek(n) ==
  /\ Peek(p, n).lexed <= MaxTokens
  /\ p' = Peek(p, n)
  /\ call' = n
  /\ answer' = Peeked(p, n)

(* advance(p); it returns the new prev. *)
CallAdvance ==
  /\ Advance(p).lexed <= MaxTokens
  /\ p' = Advance(p)
  /\ call' = ADVANCE
  /\ answer' = Advance(p).prev

Next == CallAdvance \/ \E n \in 0 .. QueueSize - 1 : CallPeek(n)

Spec == Init /\ [][Next]_vars

-----------------------------------------------------------------------------
(* The window is a parser_context whose queue fits the array token_queue.  *)
TypeOK ==
  /\ p \in Context
  /\ Len(p.queue) <= QueueSize
  /\ call \in {ADVANCE} \cup 0 .. QueueSize - 1
  /\ answer \in Nat

(* No token is dropped, duplicated or reordered between the lexer and the  *)
(* parser, whatever mix of peek() and advance() moved the window.          *)
WindowIsContiguous == Contiguous(p)

(* The plain cursor of TokenStream, at the current token of the window.    *)
Stream == INSTANCE TokenStream WITH pos <- p.current

(* peek(p, n) answers with the very token that the (n + 1)-th following    *)
(* advance() makes current: the machine implements the plain cursor.       *)
StreamSpec == Stream!Spec
=============================================================================
