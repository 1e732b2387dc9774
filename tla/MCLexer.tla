------------------------------ MODULE MCLexer --------------------------------
(* TLC instances of Lexer: all sources over the bytes of one part of the   *)
(* lexer at a time.                                                        *)
EXTENDS LexerReference

UpTo(n, bytes) == [i \in 1 .. n |-> bytes]

Comments == {"/", "*", "NL", "SP", "a"}
Strings  == {"DQ", "BS", "x", "a", "NL", "+"}
Chars    == {"SQ", "BS", "x", "a", "0", "NL"}
Numbers  == {"0", "1", "8", "x", "X", "b", "B", "o", "O", ".", "a"}
Dots     == {"0", "8", ".", "x"}
Ops      == {".", ":", "=", "+", "-", "/", "<", ">", "&", "|", "!", "*", "%"}
Single   == {"(", ")", "LBRACE", "RBRACE", "[", "]", "SEMICOLON", "COMMA", "~", "^", "UNDERSCORE", "?", "SP", "1"}
Words    == {"i", "f", "n", "UNDERSCORE", "1", "SP"}

(* Every keyword, and what comes of changing one of its letters. *)
Near(word) ==
  [i \in 1 .. Len(word) + 1 |->
     IF i > Len(word) THEN {"UNDERSCORE"} ELSE {word[i], "a", "SEMICOLON"}]

Sources ==
  {UpTo(6, Comments), << {"/"}, {"*"} >> \o UpTo(6, {"*", "/", "a"}),
   UpTo(5, Strings), UpTo(5, Chars), UpTo(4, Numbers), UpTo(6, Dots),
   UpTo(3, Ops), UpTo(2, Single), UpTo(4, Words)}
  \cup {Near(Keywords[k]) : k \in {"if", "in", "ret", "else", "loop"}}

OneComment == {<< {"/"}, {"*"} >> \o UpTo(4, {"*", "/", "a"})}
OneString  == {UpTo(5, {"DQ", "a", "NL"})}
Unfinished == {UpTo(4, {"DQ", "SQ", "BS", "/", "*", "a"})}
=============================================================================
