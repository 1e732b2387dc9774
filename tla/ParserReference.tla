--------------------------- MODULE ParserReference ---------------------------
(***************************************************************************)
(* What the parser's result should be, said without a parser: the language *)
(* of the grammar rules above each function of parser.c, the grouping of   *)
(* the precedence table of docs/src/grammar.md, and the shape of the tree. *)
(* For TLC only: the definitions are recursive over finite inputs.         *)
(***************************************************************************)
EXTENDS Parser, FiniteSetsExt

-----------------------------------------------------------------------------
(* A grammar maps a nonterminal to the set of its right-hand sides.  The   *)
(* rule "expr binop expr" is one rule per precedence level here, whose     *)
(* rest is optional and, for a non-associative level, not repeatable.      *)
Levels ==
  << {"OR"}, {"AND"}, {"CMP", "NEQ", "LT", "GT", "LE", "GE"}, {"RANGE"},
     {"PLUS", "MINUS"}, {"STAR", "SLASH", "MOD"} >>

Atoms == {"ID", "NUMBER", "HEX", "OCTAL", "BINARY", "TRUE", "FALSE"}

(* An optional operator of a level, and the operand after it. *)
Maybe(level, operand) == {<< >>} \cup {<< op, operand >> : op \in Levels[level]}

(* The rules of the comments of parser.c; paramNames may name a param      *)
(* after the first.                                                        *)
Grammar(paramNames) ==
  [sym \in {"program", "stmt", "block", "return", "value", "binding", "is",
            "if", "else", "loop", "var", "expr", "or", "conj", "and", "cmp",
            "than", "range", "to", "sum", "plus", "term", "times", "unary",
            "call", "args", "primary", "fn", "params"} |->
     CASE sym = "program" -> {<< >>, << "stmt", "program" >>}
       [] sym = "stmt"    -> {<< s, "SEMICOLON" >> : s \in
                               {"binding", "return", "if", "loop", "block", "expr"}}
       [] sym = "block"   -> {<< "LBRACE", "program", "RBRACE" >>}
       [] sym = "return"  -> {<< "RETURN", "value" >>}
       [] sym = "value"   -> {<< >>, << "expr" >>}
       [] sym = "binding" -> {<< "ID", "DECL", "expr" >>, << "ID", "WALRUS", "expr" >>,
                              << "ID", "COLON", "expr", "is", "expr" >>}
       [] sym = "is"      -> {<< "EQUAL" >>, << "COLON" >>}
       [] sym = "if"      -> {<< "IF", "expr", "block", "else" >>}
       [] sym = "else"    -> {<< >>, << "ELSE", "if" >>, << "ELSE", "block" >>}
       [] sym = "loop"    -> {<< "LOOP", "var", "value", "block" >>}
       [] sym = "var"     -> {<< >>, << "ID", "COLON" >>}
       [] sym = "expr"    -> {<< "conj", "or" >>}
       [] sym = "or"      -> Maybe(1, "expr")
       [] sym = "conj"    -> {<< "cmp", "and" >>}
       [] sym = "and"     -> Maybe(2, "conj")
       [] sym = "cmp"     -> {<< "range", "than" >>}
       [] sym = "than"    -> Maybe(3, "range")
       [] sym = "range"   -> {<< "sum", "to" >>}
       [] sym = "to"      -> Maybe(4, "sum")
       [] sym = "sum"     -> {<< "term", "plus" >>}
       [] sym = "plus"    -> Maybe(5, "sum")
       [] sym = "term"    -> {<< "unary", "times" >>}
       [] sym = "times"   -> Maybe(6, "term")
       [] sym = "unary"   -> {<< "primary", "call" >>,
                              << "MINUS", "unary" >>, << "NOT", "unary" >>}
       [] sym = "call"    -> {<< >>, << "LPAREN", "RPAREN", "call" >>,
                              << "LPAREN", "expr", "args", "RPAREN", "call" >>}
       [] sym = "args"    -> {<< >>, << "COMMA", "expr", "args" >>}
       [] sym = "primary" -> {<< t >> : t \in Atoms} \cup
                             {<< "LPAREN", "expr", "RPAREN" >>, << "fn" >>}
       [] sym = "fn"      -> {<< "LPAREN", "RPAREN", "expr", "block" >>,
                              << "LPAREN", "ID", "COLON", "expr", "params",
                                 "RPAREN", "expr", "block" >>}
       [] sym = "params"  -> {<< >>} \cup
                             {<< "COMMA", name, "COLON", "expr", "params" >> : name \in paramNames}]

Documented == Grammar({"ID"})

(* parse_param() takes any token for the name of a later param.            *)
GrammarOfParser == Grammar(Terminals)

(* Where a derivation of sym, or of all of rhs, from position a can end.   *)
(* Where s may go on (more) the rest of a derivation is anything, since    *)
(* every symbol derives something.                                         *)
RECURSIVE Ends(_, _, _, _, _), EndsOfAll(_, _, _, _, _)
Ends(rules, s, more, sym, a) ==
  IF more /\ a = Len(s) + 1 THEN {a}
  ELSE IF sym \in DOMAIN rules
  THEN UNION {EndsOfAll(rules, s, more, rhs, a) : rhs \in rules[sym]}
  ELSE IF a <= Len(s) /\ s[a] = sym THEN {a + 1} ELSE {}
EndsOfAll(rules, s, more, rhs, a) ==
  IF rhs = << >> THEN {a}
  ELSE UNION {EndsOfAll(rules, s, more, Tail(rhs), b) :
                b \in Ends(rules, s, more, Head(rhs), a)}

Derives(rules, s) == Len(s) + 1 \in Ends(rules, s, FALSE, "program", 1)

Begins(rules, s) == Len(s) + 1 \in Ends(rules, s, TRUE, "program", 1)

(* Some sentence begins with the tokens read so far, TK_EOF included.      *)
Viable(rules) ==
  IF ctx.win.lexed > Len(input) THEN Derives(rules, input)
  ELSE Begins(rules, SubSeq(input, 1, ctx.win.lexed))

(* The parser, as opposed to the lexer, has reported something. *)
Refused == \E i \in 1 .. Len(ctx.diags) : ctx.diags[i].what # "lexical"

Accepted == Done /\ ctx.diags = << >>

(* The parser makes a first report only where no sentence begins with the  *)
(* tokens read so far, and makes one before it returns on an input that is *)
(* no sentence: its language is that of the grammar in the comments of     *)
(* parser.c, the chaining rule of parse_expr_internal() included, except   *)
(* that any token may name a later param (see AcceptsOnlyDocumented).      *)
AcceptsGrammar ==
  [][/\ ~ Refused /\ Refused' => ~ Viable(GrammarOfParser)'
     /\ Done' /\ ~ Done /\ ~ Refused' => Derives(GrammarOfParser, input)']_vars

(* "param = ID ':' expr" (parser.c 232, docs/src/grammar.md 33): what the  *)
(* parser accepts is in the language as documented.                        *)
AcceptsOnlyDocumented == Accepted => Derives(Documented, input)

-----------------------------------------------------------------------------
(* The grouping of an expression, by splitting it at the operator that     *)
(* applies last.  a .. b are the positions of its tokens.                  *)
DepthAt(s, a, i) ==
  Cardinality({k \in a .. i - 1 : s[k] = "LPAREN"})
  - Cardinality({k \in a .. i : s[k] = "RPAREN"})

TopLevel(s, a, b, types) ==
  {i \in a .. b : s[i] \in types /\ DepthAt(s, a, i) = 0}

(* An operator between operands, as opposed to a prefix. *)
Splits(s, a, b, level) ==
  {i \in TopLevel(s, a, b, Levels[level]) :
     i > a /\ s[i - 1] \in Atoms \cup {"RPAREN"}}

RECURSIVE Tree(_, _, _), Arguments(_, _, _)
Tree(s, a, b) ==
  LET levels == {k \in 1 .. Len(Levels) : Splits(s, a, b, k) # {}}
      opens  == TopLevel(s, a, b, {"LPAREN"}) \ {a}
  IN CASE levels # {} ->
            LET i == Max(Splits(s, a, b, Min(levels)))
            IN  Node("BINARY", i, << Tree(s, a, i - 1), Tree(s, i + 1, b) >>)
       [] levels = {} /\ s[a] \in {"MINUS", "NOT"} ->
            Node("UNARY", a, << Tree(s, a + 1, b) >>)
       [] levels = {} /\ a = b ->
            Node(CASE s[a] = "ID" -> "ID" [] s[a] \in {"TRUE", "FALSE"} -> "BOOL"
                   [] OTHER -> "NUMBER", a, << >>)
       [] levels = {} /\ a < b /\ s[a] \notin {"MINUS", "NOT"} /\ opens # {} ->
            LET q == Max(opens)
            IN  Node("CALL", q, << Tree(s, a, q - 1) >> \o Arguments(s, q + 1, b - 1))
       [] OTHER -> Tree(s, a + 1, b - 1)
Arguments(s, a, b) ==
  IF a > b THEN << >>
  ELSE LET commas == TopLevel(s, a, b, {"COMMA"})
           i      == IF commas = {} THEN b + 1 ELSE Min(commas)
       IN  << Tree(s, a, i - 1) >> \o Arguments(s, i + 1, b)

RECURSIVE ExprStmts(_, _)
ExprStmts(s, a) ==
  IF a > Len(s) THEN << >>
  ELSE LET b == Min({i \in a .. Len(s) : s[i] = "SEMICOLON"})
       IN  << Node("EXPR_STMT", a, << Tree(s, a, b - 1) >>) >> \o ExprStmts(s, b + 1)

OnlyExpressions ==
  \A i \in 1 .. Len(input) :
    input[i] \in Atoms \cup UNION {Levels[k] : k \in 1 .. Len(Levels)} \cup
                 {"NOT", "LPAREN", "RPAREN", "COMMA", "SEMICOLON"}

(* On a program of expression statements, the Pratt loop and its two       *)
(* tables group every operator, prefix and call as the precedence table of *)
(* the documentation says.                                                 *)
GroupsByPrecedence ==
  Accepted /\ OnlyExpressions =>
    top.node = Node("PROGRAM", UNINIT, ExprStmts(input, 1))

-----------------------------------------------------------------------------
(* The nodes of a tree in source order of their tokens; an expression      *)
(* statement has no token but that of its expression.                      *)
RECURSIVE InOrder(_), InOrderAll(_)
InOrder(n) ==
  CASE n.type = "NULL" -> << >>
    [] n.type = "EXPR_STMT" -> InOrderAll(n.kids)
    [] n.type \in {"BINARY", "CALL"} ->
         InOrder(n.kids[1]) \o << n >> \o InOrderAll(Tail(n.kids))
    [] OTHER -> << n >> \o InOrderAll(n.kids)
InOrderAll(kids) ==
  IF kids = << >> THEN << >> ELSE InOrder(Head(kids)) \o InOrderAll(Tail(kids))

(* No token is claimed twice and children never swap: the tokens of the    *)
(* nodes increase in source order.  After an error a node may stand on a   *)
(* token it did not consume, so that they only do not decrease.            *)
SourceOrder ==
  Done => LET nodes == InOrder(top.node)
          IN  \A i \in 1 .. Len(nodes) - 1 :
                \/ nodes[i].tok < nodes[i + 1].tok
                \/ ~Accepted /\ nodes[i].tok = nodes[i + 1].tok

(* The table of the four forms of a binding (parser.h 85-92), read back    *)
(* from the tokens: the separator of a declared range is the last "=" or   *)
(* ":" before the first node of the initialiser.                           *)
BindingForms ==
  Accepted =>
    LET nodes == InOrder(top.node)
    IN  \A i \in 1 .. Len(nodes) : nodes[i].type = "BINDING" =>
          LET n  == nodes[i]
              op == input[n.tok + 1]
              separator == Max({q \in 1 .. Head(InOrder(n.kids[2])).tok - 1 :
                                  input[q] \in {"COLON", "EQUAL"}})
          IN  /\ Len(n.kids) = 2
              /\ n.kids[2].type # "NULL"
              /\ (n.kids[1].type = "NULL") <=> (op # "COLON")
              /\ n.is_const <=> \/ op = "DECL"
                                \/ op = "COLON" /\ input[separator] = "COLON"

=============================================================================
