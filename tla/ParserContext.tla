---------------------------- MODULE ParserContext ----------------------------
(***************************************************************************)
(* The token window of struct parser_context (src/src/frontend/parser.h    *)
(* 163-173): the tokens prev and current, the lookahead array token_queue  *)
(* and the functions peek() and advance() of parser.c that move it.        *)
(*                                                                         *)
(* A token is the number of the next_token() call that produced it, so     *)
(* token i is the i-th token of the source; 0 is the TK_UNINIT token that  *)
(* parser_init() leaves in current.  lexed counts the calls made so far.   *)
(***************************************************************************)
EXTENDS Integers, Sequences

CONSTANT QueueSize      \* slots of token_queue: 4 in the code

ASSUME QueueSizeAssumption == QueueSize \in Nat \ {0}

UNINIT == 0

Context == [prev : Nat, current : Nat, queue : Seq(Nat), lexed : Nat]

(* parser_init() on a PARSER_CONTEXT_INIT context. *)
InitialContext ==
  [prev |-> UNINIT, current |-> UNINIT, queue |-> << >>, lexed |-> 0]

(* Mutant of Peek: it lexes n + 1 tokens, whatever the queue holds. *)
PeekLexesAgain(c, n) ==
  [c EXCEPT !.queue = @ \o [k \in 1 .. n + 1 |-> c.lexed + k], !.lexed = @ + n + 1]

(* peek(p, n): lex until the queue holds n + 1 tokens ...                  *)
Peek(c, n) ==
  LET missing == IF Len(c.queue) <= n THEN n + 1 - Len(c.queue) ELSE 0
  IN  [prev    |-> c.prev,
       current |-> c.current,
       queue   |-> c.queue \o [k \in 1 .. missing |-> c.lexed + k],
       lexed   |-> c.lexed + missing]

(* Mutant of Peeked: the head of the queue instead of the n-th slot. *)
PeekedHead(c, n) == Peek(c, n).queue[1]

(* ... and return the n-th of them. *)
Peeked(c, n) == Peek(c, n).queue[n + 1]

(* Mutant of Advance: it lexes a token although the queue has some. *)
AdvancePastQueue(c) ==
  [c EXCEPT !.prev = @ + 1, !.current = c.lexed + 1, !.lexed = @ + 1]

(* advance(p): pop the queue or, when it is empty, lex a token.  The first *)
(* call leaves prev = current instead of the uninitialised token.          *)
Advance(c) ==
  LET pop  == c.queue # << >>
      next == IF pop THEN Head(c.queue) ELSE c.lexed + 1
  IN  [prev    |-> IF c.current = UNINIT THEN next ELSE c.current,
       current |-> next,
       queue   |-> IF pop THEN Tail(c.queue) ELSE << >>,
       lexed   |-> IF pop THEN c.lexed ELSE c.lexed + 1]

(***************************************************************************)
(* The window is contiguous: prev, current and the queue are consecutive   *)
(* tokens of the source, and the queue ends where the lexer stands.        *)
(***************************************************************************)
Contiguous(c) ==
  /\ c.lexed = c.current + Len(c.queue)
  /\ \A i \in 1 .. Len(c.queue) : c.queue[i] = c.current + i
  /\ c.prev = IF c.current <= 1 THEN c.current ELSE c.current - 1

Window == {c \in Context : Contiguous(c)}
=============================================================================
