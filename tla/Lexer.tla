-------------------------------- MODULE Lexer --------------------------------
(***************************************************************************)
(* next_token() of src/src/frontend/lexer.c, one step for each turn of its *)
(* loops, called until it returns TK_EOF (lexer_dump_tokens()).            *)
(*                                                                         *)
(* mem is the memory from the first byte of source_file.src on, revealed   *)
(* as the lexer reads it.  The source ends at its first "NUL"; what lies   *)
(* after that is not the program's and holds anything.  A cursor is a      *)
(* position in mem with the line and col the lexer counts for it.          *)
(***************************************************************************)
EXTENDS Integers, Sequences, FiniteSets

CONSTANT Shapes     \* bound: the memories, each a sequence of sets of bytes;
                    \* nothing but NUL follows

ASSUME ShapesAssumption == \A shape \in Shapes : Len(shape) \in Nat

VARIABLES mem,      \* the bytes revealed so far
          cur,      \* lexer_context: [at, line, col]
          mode,     \* the loop next_token() is in
          start,    \* the cursor at the first byte of the token or comment
          toks,     \* the tokens returned so far, TK_ERROR ones included
          diags     \* the reports of error_token()

vars == << mem, cur, mode, start, toks, diags >>

-----------------------------------------------------------------------------
(* Bytes.  NL, SP (any of space, \t, \r), DQ, SQ, BS (backslash), NUL,     *)
(* LBRACE, RBRACE, SEMICOLON, COMMA and UNDERSCORE have names; ? stands    *)
(* for the bytes that start no token.                                      *)
Bin == {"0", "1"}
Oct == Bin \cup {"2", "3", "4", "5", "6", "7"}
Digit == Oct \cup {"8", "9"}
Hex == Digit \cup {"a", "b", "c", "d", "e", "f", "A", "B", "C", "D", "E", "F"}
Alpha == (Hex \ Digit) \cup
         {"g", "i", "j", "k", "l", "m", "n", "o", "p", "r", "s", "t", "u", "x", "O", "X"}
Alnum == Alpha \cup Digit
Blank == {"SP", "NL"}
Escapes == {"n", "t", "r", "BS", "SQ", "DQ", "0"}

Punctuators ==
  [LPAREN |-> << "(" >>, RPAREN |-> << ")" >>, LBRACE |-> << "LBRACE" >>,
   RBRACE |-> << "RBRACE" >>, LBRACKET |-> << "[" >>, RBRACKET |-> << "]" >>,
   SEMICOLON |-> << "SEMICOLON" >>, COMMA |-> << "COMMA" >>,
   UNDERSCORE |-> << "UNDERSCORE" >>,
   DOT |-> << "." >>, RANGE |-> << ".", "." >>, SPREAD |-> << ".", ".", "." >>,
   TILDE |-> << "~" >>, CARET |-> << "^" >>,
   COLON |-> << ":" >>, DECL |-> << ":", ":" >>, WALRUS |-> << ":", "=" >>,
   MOD |-> << "%" >>, MODEQ |-> << "%", "=" >>,
   STAR |-> << "*" >>, STAREQ |-> << "*", "=" >>,
   SLASH |-> << "/" >>, SLASHEQ |-> << "/", "=" >>,
   PLUS |-> << "+" >>, PLUSEQ |-> << "+", "=" >>, Increment |-> << "+", "+" >>,
   MINUS |-> << "-" >>, MINUSEQ |-> << "-", "=" >>, Decrement |-> << "-", "-" >>,
   EQUAL |-> << "=" >>, CMP |-> << "=", "=" >>,
   NOT |-> << "!" >>, NEQ |-> << "!", "=" >>,
   AMP |-> << "&" >>, AND |-> << "&", "&" >>,
   PIPE |-> << "|" >>, OR |-> << "|", "|" >>,
   LT |-> << "<" >>, LSHIFT |-> << "<", "<" >>, LE |-> << "<", "=" >>,
   GT |-> << ">" >>, RSHIFT |-> << ">", ">" >>, GE |-> << ">", "=" >>]

Keywords ==
  [if |-> << "i", "f" >>, in |-> << "i", "n" >>, ret |-> << "r", "e", "t" >>,
   else |-> << "e", "l", "s", "e" >>, loop |-> << "l", "o", "o", "p" >>,
   true |-> << "t", "r", "u", "e" >>, false |-> << "f", "a", "l", "s", "e" >>,
   break |-> << "b", "r", "e", "a", "k" >>, enum |-> << "e", "n", "u", "m" >>,
   continue |-> << "c", "o", "n", "t", "i", "n", "u", "e" >>,
   obj |-> << "o", "b", "j" >>]

(* The type whose spelling in the table is text, or otherwise default. *)
Spelling(table, text, default) ==
  IF \E type \in DOMAIN table : table[type] = text
  THEN CHOOSE type \in DOMAIN table : table[type] = text
  ELSE default

-----------------------------------------------------------------------------
Byte(i) == mem[i]

(* *lexer->current and lexer->current[1] *)
c == Byte(cur.at)
next == Byte(cur.at + 1)

(* What the step may read is revealed; nothing is read beyond a NUL. *)
Ready ==
  /\ Len(mem) >= cur.at
  /\ Len(mem) = cur.at => c = "NUL"

At(m) == Ready /\ mode = m

(* Mutant of Adv: a newline does not reset the column. *)
AdvWithoutReset(k) ==
  [at |-> k.at + 1, line |-> k.line + (IF Byte(k.at) = "NL" THEN 1 ELSE 0), col |-> k.col + 1]

(* advance() *)
Adv(k) ==
  IF Byte(k.at) = "NL" THEN [at |-> k.at + 1, line |-> k.line + 1, col |-> 0]
                       ELSE [k EXCEPT !.at = @ + 1, !.col = @ + 1]

(* The bytes from the start of the token up to cursor k. *)
Text(k) == SubSeq(mem, start.at, k.at - 1)

Goto(m, k) == mode' = m /\ cur' = k /\ UNCHANGED << start, toks, diags >>

(* Mutant of Return: create_token() with the column where the token ends. *)
ReturnAtEnd(type, k) ==
  /\ toks' = Append(toks, [type |-> type, at |-> start.at, len |-> k.at - start.at,
                           line |-> k.line, col |-> k.col])
  /\ cur' = k
  /\ mode' = "noise"
  /\ UNCHANGED << start, diags >>

(* next_token() returns create_token(type, start, k - start) at cursor k. *)
Return(type, k) ==
  LET len == k.at - start.at
  IN  /\ toks' = Append(toks, [type |-> type, at |-> start.at, len |-> len,
                               line |-> k.line, col |-> k.col - len])
      /\ cur' = k
      /\ mode' = "noise"
      /\ UNCHANGED << start, diags >>

Report(len, line, col) ==
  diags' = Append(diags, [at |-> start.at, len |-> len, line |-> line, col |-> col])

(* ... or error_token(start, len, line, col). *)
ReturnError(len, line, col, k) ==
  /\ toks' = Append(toks, [type |-> "ERROR", at |-> start.at, len |-> len,
                           line |-> line, col |-> col])
  /\ Report(len, line, col)
  /\ cur' = k
  /\ mode' = "noise"
  /\ UNCHANGED start

(* Mutants of ReturnErrorAtStart: the column is counted back over lines;   *)
(* the length includes the byte after.                                     *)
ReturnErrorCountedBack(k) ==
  ReturnError(k.at - start.at, k.line, k.col - (k.at - start.at), k)

ReturnErrorTooLong(k) ==
  ReturnError(k.at - start.at + 1, start.line, start.col, k)

(* error_token() with the start_line and start_col saved before the loop.  *)
ReturnErrorAtStart(k) == ReturnError(k.at - start.at, start.line, start.col, k)

-----------------------------------------------------------------------------
Init ==
  /\ mem = << >>
  /\ cur = [at |-> 1, line |-> 1, col |-> 0]
  /\ start = cur
  /\ mode = "noise"
  /\ toks = << >>
  /\ diags = << >>

Reveal ==
  /\ ~Ready
  /\ mode # "done"
  /\ \/ /\ \E shape \in Shapes :
             /\ Len(mem) < Len(shape)
             /\ \A i \in 1 .. Len(mem) : mem[i] \in shape[i] \cup {"NUL"}
             /\ \E byte \in shape[Len(mem) + 1] : mem' = Append(mem, byte)
     \/ mem' = Append(mem, "NUL")
  /\ UNCHANGED << cur, mode, start, toks, diags >>

(* skip_noise() *)
SkipBlank ==
  /\ At("noise")
  /\ c \in Blank
  /\ Goto("noise", Adv(cur))

(* ... and try_ignore_comments() *)
OpenComment ==
  /\ At("noise")
  /\ c = "/" /\ next \in {"/", "*"}
  /\ start' = cur
  /\ cur' = Adv(Adv(cur))
  /\ mode' = IF next = "/" THEN "line_comment" ELSE "block_comment"
  /\ UNCHANGED << toks, diags >>

LineComment ==
  /\ At("line_comment")
  /\ IF c \in {"NUL", "NL"} THEN Goto("noise", cur) ELSE Goto(mode, Adv(cur))

(* Mutants of BlockComment: a "/" alone ends the comment; the end of the   *)
(* source does not.                                                        *)
BlockCommentEndsAtSlash ==
  /\ At("block_comment")
  /\ CASE c = "NUL" -> /\ Report(2, start.line, start.col)
                       /\ mode' = "noise"
                       /\ UNCHANGED << cur, start, toks >>
       [] c = "/"   -> Goto("noise", Adv(cur))
       [] OTHER     -> Goto(mode, Adv(cur))

BlockCommentWithoutEof ==
  /\ At("block_comment")
  /\ CASE c = "NUL" -> Goto(mode, cur)
       [] c = "*"   -> Goto(IF next = "/" THEN "noise" ELSE mode, Adv(Adv(cur)))
       [] OTHER     -> Goto(mode, Adv(cur))

BlockComment ==
  /\ At("block_comment")
  /\ CASE c = "NUL" -> /\ Report(2, start.line, start.col)
                       /\ mode' = "noise"
                       /\ UNCHANGED << cur, start, toks >>
       [] c = "*"   -> Goto(IF next = "/" THEN "noise" ELSE mode, Adv(Adv(cur)))
       [] OTHER     -> Goto(mode, Adv(cur))

Eof ==
  /\ At("noise")
  /\ c = "NUL"
  /\ toks' = Append(toks, [type |-> "EOF", at |-> cur.at, len |-> 0,
                           line |-> cur.line, col |-> cur.col])
  /\ mode' = "done"
  /\ UNCHANGED << cur, start, diags >>

(* The switch of next_token() on the first byte of a token. *)
Begin ==
  /\ At("noise")
  /\ c \notin Blank \cup {"NUL"}
  /\ c = "/" => next \notin {"/", "*"}
  /\ start' = cur
  /\ cur' = Adv(cur)
  /\ mode' = CASE c \in Alpha -> "word"
               [] c = "UNDERSCORE" /\ next \in Alnum \cup {"UNDERSCORE"} -> "word"
               [] c \in Digit -> "number"
               [] c = "DQ" -> "string"
               [] c = "SQ" -> "char"
               [] OTHER -> "punctuator"
  /\ UNCHANGED << toks, diags >>

(* The follow_next() chains of the switch, and its default case. *)
Punctuator ==
  LET type == Spelling(Punctuators, Text(cur), "none")
  IN
  /\ At("punctuator")
  /\ IF Spelling(Punctuators, Text(Adv(cur)), "none") # "none"
     THEN Goto(mode, Adv(cur))
     ELSE IF type \in {"none", "Increment", "Decrement"}
          THEN LET len == cur.at - start.at
               IN  ReturnError(len, cur.line, cur.col - len, cur)
          ELSE Return(type, cur)

(* token_id() *)
Word ==
  /\ At("word")
  /\ IF c \in Alnum \cup {"UNDERSCORE"} THEN Goto(mode, Adv(cur))
     ELSE Return(Spelling(Keywords, Text(cur), "ID"), cur)

(* token_number() *)
Radix ==
  CASE c \in {"x", "X"} -> "HEX"
    [] c \in {"o", "O"} -> "OCTAL"
    [] c \in {"b", "B"} -> "BINARY"
    [] OTHER            -> "decimal"

Number ==
  /\ At("number")
  /\ IF Byte(start.at) = "0" /\ Radix # "decimal" THEN Goto(Radix, Adv(cur))
                                                  ELSE Goto("decimal", cur)

PrefixedDigits ==
  LET digits == CASE mode = "HEX" -> Hex [] mode = "OCTAL" -> Oct [] OTHER -> Bin
  IN
  /\ Ready /\ mode \in {"HEX", "OCTAL", "BINARY"}
  /\ IF c \in digits THEN Goto(mode, Adv(cur))
     ELSE IF cur.at = start.at + 2
          THEN ReturnError(cur.at - start.at, cur.line, cur.col - 2, cur)
          ELSE Return(mode, cur)

(* Mutant of Decimal: "1..2" is not a range. *)
DecimalTakesAnyDot ==
  /\ At("decimal")
  /\ CASE c \in Digit -> Goto(mode, Adv(cur))
       [] c = "." -> Goto("fraction", Adv(cur))
       [] OTHER -> Return("NUMBER", cur)

Decimal ==
  /\ At("decimal")
  /\ CASE c \in Digit -> Goto(mode, Adv(cur))
       [] c = "." /\ next # "." -> Goto("fraction", Adv(cur))
       [] OTHER -> Return("NUMBER", cur)

Fraction ==
  /\ At("fraction")
  /\ IF c \in Digit THEN Goto(mode, Adv(cur)) ELSE Return("FLOATING", cur)

(* token_stringlit() *)
String ==
  /\ At("string")
  /\ CASE c = "NUL" -> ReturnErrorAtStart(cur)
       [] c = "DQ"  -> Return("STRINGLIT", Adv(cur))
       [] c = "BS"  -> Goto("escape", Adv(cur))
       [] OTHER     -> Goto(mode, Adv(cur))

(* token_charlit() *)
Char ==
  /\ At("char")
  /\ CASE c = "SQ" -> ReturnError(1, start.line, start.col, cur)
       [] c = "BS" -> Goto("escape", Adv(cur))
       [] OTHER    -> Goto("char_end", Adv(cur))

CharEnd ==
  /\ At("char_end")
  /\ IF c = "SQ" THEN Return("CHARLIT", Adv(cur)) ELSE ReturnErrorAtStart(cur)

(* check_valid_escape(), called by both with the quote that started them.  *)
quote == Byte(start.at)

Resume == IF quote = "DQ" THEN "string" ELSE "char_end"

Escape ==
  /\ At("escape")
  /\ CASE c \in Escapes -> Goto(Resume, Adv(cur))
       [] c = "x"       -> Goto("hex_digit", Adv(cur))
       [] OTHER         -> Goto("bad_escape", cur)

HexDigit ==
  /\ At("hex_digit")
  /\ IF c \in Hex THEN Goto("hex_digit_2", Adv(cur)) ELSE Goto("bad_escape", cur)

(* Mutant of HexDigit2: the second digit is not optional. *)
HexDigit2Required ==
  /\ At("hex_digit_2")
  /\ IF c \in Hex THEN Goto(Resume, Adv(cur)) ELSE Goto("bad_escape", cur)

HexDigit2 ==
  /\ At("hex_digit_2")
  /\ Goto(Resume, IF c \in Hex THEN Adv(cur) ELSE cur)

BadEscape ==
  /\ At("bad_escape")
  /\ IF c \in {"NUL", quote} THEN ReturnErrorAtStart(Adv(cur))
                             ELSE Goto(mode, Adv(cur))

Terminated == mode = "done" /\ UNCHANGED vars

Step ==
  \/ SkipBlank \/ OpenComment \/ LineComment \/ BlockComment
  \/ Eof \/ Begin \/ Punctuator \/ Word
  \/ Number \/ PrefixedDigits \/ Decimal \/ Fraction
  \/ String \/ Char \/ CharEnd \/ Escape \/ HexDigit \/ HexDigit2 \/ BadEscape

Next == Reveal \/ (Step /\ UNCHANGED mem) \/ Terminated

Spec == Init /\ [][Next]_vars

(* One thread that never waits. *)
FairSpec == Spec /\ WF_vars(Next)

-----------------------------------------------------------------------------
Modes ==
  {"noise", "line_comment", "block_comment", "punctuator", "word", "number",
   "HEX", "OCTAL", "BINARY", "decimal", "fraction", "string", "char",
   "char_end", "escape", "hex_digit", "hex_digit_2", "bad_escape", "done"}

Cursor == [at : Nat \ {0}, line : Nat \ {0}, col : Nat]

Bytes == {"NUL"} \cup UNION UNION {{shape[i] : i \in 1 .. Len(shape)} : shape \in Shapes}

(* The cursor and every token lie within the memory the lexer has read. *)
TypeOK ==
  /\ mem \in Seq(Bytes)
  /\ mode \in Modes
  /\ cur \in Cursor /\ start \in Cursor
  /\ start.at <= cur.at /\ cur.at <= Len(mem) + 1
  /\ \A i \in 1 .. Len(toks) : toks[i].at + toks[i].len <= cur.at

(* k is a true position of memory m: its line is one more than the         *)
(* newlines before it and its column counts from the byte after the last.  *)
Position(m, k) ==
  LET line_start == k.at - k.col
  IN  /\ k.line = 1 + Cardinality({i \in 1 .. k.at - 1 : m[i] = "NL"})
      /\ line_start >= 1
      /\ line_start > 1 => m[line_start - 1] = "NL"
      /\ \A i \in line_start .. k.at - 1 : m[i] # "NL"

(* line and col of lexer_context stay true through every way of consuming  *)
(* a byte: comments, literals, escapes and error recovery.                 *)
CursorIsTracked == Position(mem, cur) /\ Position(mem, start)

(* Every report of the lexer points at the source: line_start, which       *)
(* diag_flush() prints from, is the first byte of the reported line.       *)
ReportsPointAtSource == \A i \in 1 .. Len(diags) : Position(mem, diags[i])

(* So does every token that does not span lines. *)
TokenPointsAtSource(m, t) ==
  (\A k \in t.at .. t.at + t.len - 1 : m[k] # "NL") => Position(m, t)

TokensPointAtSource == \A i \in 1 .. Len(toks) : TokenPointsAtSource(mem, toks[i])

(* The lexer returns TK_EOF after finitely many calls. *)
Termination == <>(mode = "done")
=============================================================================
