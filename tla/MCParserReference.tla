-------------------------- MODULE MCParserReference --------------------------
(* TLC instances of ParserReference.  A vocabulary is the tokens of one    *)
(* part of the grammar; where its sentences are too long for every input   *)
(* to be tried, a shape fixes some of the tokens.                          *)
EXTENDS ParserReference, Printer

UpTo(n, vocabulary) == [i \in 1 .. n |-> vocabulary]

Bindings  == {"ID", "DECL", "WALRUS", "COLON", "EQUAL", "SEMICOLON", "RETURN"}
Control   == {"ID", "IF", "ELSE", "LOOP", "LBRACE", "RBRACE", "SEMICOLON", "COLON"}
Functions == {"ID", "LPAREN", "RPAREN", "COLON", "COMMA", "LBRACE", "RBRACE", "SEMICOLON"}
Ranges    == {"NUMBER", "LT", "CMP", "RANGE", "NOT", "SEMICOLON"}

(* if x { } else ..., with an "else if" inside. *)
ElseIf ==
  << {"IF"}, {"ID"}, {"LBRACE"}, {"RBRACE"}, {"ELSE"} >> \o UpTo(6, Control)

(* (x : x ...) x { }; with up to two parameters, or a call after it. *)
Params ==
  << {"LPAREN"}, {"ID"}, {"COLON"}, {"ID"}, {"COMMA", "RPAREN", "LPAREN"},
     Functions \cup {"ERROR"}, {"COLON", "LBRACE"}, {"ID", "RBRACE"}, {"RPAREN", "SEMICOLON", "LPAREN"},
     {"ID", "RPAREN"}, {"LBRACE", "SEMICOLON"}, {"RBRACE"}, {"SEMICOLON"} >>

Sentences ==
  {UpTo(7, Bindings), UpTo(7, Control), UpTo(6, Functions), UpTo(6, Ranges),
   ElseIf, Params}

Infixes    == {"OR", "AND", "LT", "RANGE", "MINUS", "STAR"}
Precedence == Infixes \cup {"NUMBER", "NOT", "SEMICOLON"}
Calls      == {"ID", "LPAREN", "RPAREN", "COMMA", "MINUS", "SEMICOLON"}

(* Four infix operators in a row. *)
LongInfix ==
  [i \in 1 .. 10 |-> IF i = 10 THEN {"SEMICOLON"}
                     ELSE IF i % 2 = 0 THEN Infixes ELSE {"NUMBER"}]

(* A call that goes on: more arguments, groups in them, a call of a call. *)
LongCalls == << {"ID"}, {"LPAREN"} >> \o UpTo(6, Calls)

Expressions == {UpTo(6, Precedence), UpTo(6, Calls), LongInfix, LongCalls}

Programs == Sentences \cup Expressions

TwoParams == {Params}
=============================================================================
