--------------------------- MODULE LexerReference ----------------------------
(***************************************************************************)
(* What the lexer's result should be, said without a lexer: which texts    *)
(* are lexemes, and what may lie between two of them.                      *)
(*                                                                         *)
(* The lexemes are those of lexer.c.  They are not quite those that        *)
(* docs/src/grammar.md lists under "Tokens" (126-129): the letter after    *)
(* the 0 of a radix prefix may be a capital, and "_" alone is a token of   *)
(* its own and no ID.  These two are the only differences, for the types   *)
(* that the document defines and the keywords of the lexer (theorem        *)
(* LexemesAreAlmostDocumented).  The document does not define floating,    *)
(* string and character literals.                                          *)
(***************************************************************************)
EXTENDS Lexer, SequencesExt, FiniteSetsExt

All(text, set) == \A i \in 1 .. Len(text) : text[i] \in set

From(text, i) == SubSeq(text, i, Len(text))

Prefixed(text, letters, digits) ==
  /\ Len(text) > 2
  /\ text[1] = "0" /\ text[2] \in letters
  /\ All(From(text, 3), digits)

(* The bytes after a backslash that make an escape. *)
IsEscape(text) ==
  \/ Len(text) = 1 /\ text[1] \in Escapes
  \/ Len(text) \in {2, 3} /\ text[1] = "x" /\ All(From(text, 2), Hex)

IsUnit(text, q) ==
  IF text[1] = "BS" THEN IsEscape(From(text, 2))
                    ELSE Len(text) = 1 /\ text[1] \notin {q, "NUL"}

(* The inside of a string literal is a sequence of units: e[i] says that   *)
(* the bytes from i on are.                                                *)
IsUnits(text, q) ==
  LET e[i \in 1 .. Len(text) + 1] ==
        \/ i = Len(text) + 1
        \/ \E j \in i .. Len(text) : IsUnit(SubSeq(text, i, j), q) /\ e[j + 1]
  IN  e[1]

Quoted(text, q) == Len(text) >= 2 /\ Head(text) = q /\ Last(text) = q

Inside(text) == SubSeq(text, 2, Len(text) - 1)

IsName(text) ==
  /\ text[1] \in Alpha \cup {"UNDERSCORE"}
  /\ All(text, Alnum \cup {"UNDERSCORE"})
  /\ text # << "UNDERSCORE" >>

(* text, followed by the byte after, is a token of this type. *)
IsLexeme(type, text, after) ==
  \/ type = "STRINGLIT" /\ Quoted(text, "DQ") /\ IsUnits(Inside(text), "DQ")
  \/ type = "CHARLIT" /\ Quoted(text, "SQ") /\ Len(text) > 2 /\ IsUnit(Inside(text), "SQ")
  \/ type = "HEX" /\ Prefixed(text, {"x", "X"}, Hex)
  \/ type = "OCTAL" /\ Prefixed(text, {"o", "O"}, Oct)
  \/ type = "BINARY" /\ Prefixed(text, {"b", "B"}, Bin)
  \/ type = "NUMBER" /\ All(text, Digit)
  \/ /\ type = "FLOATING"
     /\ \E i \in 2 .. Len(text) :
          /\ All(SubSeq(text, 1, i - 1), Digit)
          /\ text[i] = "."
          /\ All(From(text, i + 1), Digit)
          /\ i = Len(text) => after # "."
  \/ type = "ID" /\ IsName(text) /\ \A k \in DOMAIN Keywords : Keywords[k] # text
  \/ type \in DOMAIN Keywords /\ text = Keywords[type]
  \/ type \in DOMAIN Punctuators /\ text = Punctuators[type]

(* The lexemes as docs/src/grammar.md 125-129 has them, and the capitals   *)
(* that lexer.c takes as well.  The keywords are those of the lexer: the   *)
(* document's (131) and those it reserves (133), but for "import".         *)
DocumentedTypes == {"NUMBER", "HEX", "OCTAL", "BINARY", "ID"}

IsDocumented(type, text) ==
  \/ type = "NUMBER" /\ All(text, Digit)
  \/ type = "HEX" /\ Prefixed(text, {"x"}, Hex)
  \/ type = "OCTAL" /\ Prefixed(text, {"o"}, Oct)
  \/ type = "BINARY" /\ Prefixed(text, {"b"}, Bin)
  \/ /\ type = "ID"
     /\ text[1] \in Alpha \cup {"UNDERSCORE"}
     /\ All(text, Alnum \cup {"UNDERSCORE"})
     /\ \A k \in DOMAIN Keywords : Keywords[k] # text

HasCapitalPrefix(type, text) ==
  \/ type = "HEX" /\ Prefixed(text, {"X"}, Hex)
  \/ type = "OCTAL" /\ Prefixed(text, {"O"}, Oct)
  \/ type = "BINARY" /\ Prefixed(text, {"B"}, Bin)

Types ==
  {"STRINGLIT", "CHARLIT", "HEX", "OCTAL", "BINARY", "NUMBER", "FLOATING", "ID"}
  \cup DOMAIN Keywords \cup DOMAIN Punctuators

Between(a, b) == SubSeq(mem, a, b)

After(b) == IF b < Len(mem) THEN mem[b + 1] ELSE "NUL"

(* A comment ends at the end of its line, or at the first end after its    *)
(* beginning.                                                              *)
Opens(text, second) == Len(text) >= 2 /\ text[1] = "/" /\ text[2] = second

IsLineComment(text) == Opens(text, "/") /\ \A i \in 1 .. Len(text) : text[i] # "NL"

(* Where a block comment could end. *)
Ends(text) == {i \in 3 .. Len(text) - 1 : text[i] = "*" /\ text[i + 1] = "/"}

IsComment(text) ==
  \/ IsLineComment(text)
  \/ Opens(text, "*") /\ Ends(text) = {Len(text) - 1}

(* The comments of the lexer: it passes the byte after a star with the     *)
(* star, and misses an end whose star comes after another one.             *)
IsPassed(text) ==
  \/ IsLineComment(text)
  \/ /\ Opens(text, "*")
     /\ Len(text) - 1 \in Ends(text)
     /\ \A i \in Ends(text) : i = Len(text) - 1 \/ (i > 3 /\ text[i - 1] = "*")

(* Between two tokens lies noise: blanks and comments. *)
IsNoise(text) ==
  LET e[i \in 1 .. Len(text) + 1] ==
        \/ i = Len(text) + 1
        \/ text[i] \in Blank /\ e[i + 1]
        \/ \E j \in i .. Len(text) : IsPassed(SubSeq(text, i, j)) /\ e[j + 1]
  IN  e[1]

Done == mode = "done"

EndOf(t) == t.at + t.len - 1

(* The lexer reads the source and its terminating NUL and nothing after    *)
(* (what the sanitizer job of .github/workflows/ci.yml checks).            *)
StaysInSource == \A i \in 1 .. cur.at - 1 : mem[i] # "NUL"

Clean == Done /\ diags = << >> /\ StaysInSource

(* Each token of an error-free source is a lexeme of its type, and no      *)
(* longer lexeme of any type starts where it starts: maximal munch, by a   *)
(* lexer that looks two bytes ahead and never goes back.  The lexemes are  *)
(* those of lexer.c, capital prefixes and the lone "_" included.           *)
LongestMatch ==
  Clean =>
    \A i \in 1 .. Len(toks) - 1 :
      LET t == toks[i]
      IN  /\ IsLexeme(t.type, Between(t.at, EndOf(t)), After(EndOf(t)))
          /\ \A b \in EndOf(t) + 1 .. Len(mem) : \A type \in Types :
               ~IsLexeme(type, Between(t.at, b), After(b))

(* Tokens come in source order without overlap, and nothing but noise is   *)
(* skipped between them, after the last and before the first.              *)
NothingIsSkipped ==
  Clean =>
    \A i \in 1 .. Len(toks) :
      LET from == IF i = 1 THEN 1 ELSE EndOf(toks[i - 1]) + 1
      IN  /\ from <= toks[i].at
          /\ IsNoise(Between(from, toks[i].at - 1))

(* A TK_ERROR token only stands where no token could: no lexeme starts     *)
(* there but the "0" of a bare radix prefix and the first sign of "++" and *)
(* "--", which the lexer refuses on purpose.                               *)
ErrorsAreDeserved ==
  Done /\ StaysInSource =>
    \A i \in 1 .. Len(toks) : toks[i].type = "ERROR" =>
      \A b \in toks[i].at .. Len(mem) :
        \A type \in Types \ {"NUMBER", "PLUS", "MINUS", "Increment", "Decrement"} :
          ~IsLexeme(type, Between(toks[i].at, b), After(b))

-----------------------------------------------------------------------------
(* What the documents say and the lexer does not do.                       *)

(* "block comments are skipped" (tests/t0001-lexer.sh 160): a source that  *)
(* is one closed comment is not reported.                                  *)
CommentsAreSkipped ==
  Done /\ IsComment(SubSeq(mem, 1, cur.at - 1)) => diags = << >>

(* The position of a token is where it starts (the expectations of         *)
(* tests/t0001-lexer.sh), for a literal that spans lines too.              *)
TokensPointAtTheirStart == \A i \in 1 .. Len(toks) : Position(mem, toks[i])
=============================================================================
