------------------------------ MODULE MCParser -------------------------------
(* TLC instances of Parser.  A vocabulary is the tokens of one part of the *)
(* grammar, so that all short inputs over it stay few.                     *)
EXTENDS ParserInvariant, TLC

UpTo(n, vocabulary) == [i \in 1 .. n |-> vocabulary]

Bindings  == {"ID", "DECL", "WALRUS", "COLON", "EQUAL", "SEMICOLON", "RETURN"}
Control   == {"ID", "IF", "ELSE", "LOOP", "LBRACE", "RBRACE", "SEMICOLON", "COLON"}
Functions == {"ID", "LPAREN", "RPAREN", "COLON", "COMMA", "LBRACE", "RBRACE"}
Operators == {"NUMBER", "LPAREN", "RPAREN", "LT", "RANGE", "MINUS", "SEMICOLON"}
Malformed == {"ID", "TRUE", "ERROR", "COLON", "IF", "LBRACE", "RPAREN", "SEMICOLON"}

AllInputs ==
  {UpTo(6, V) : V \in {Bindings, Control, Functions}} \cup
  {UpTo(5, V) : V \in {Operators, Malformed}}
=============================================================================
