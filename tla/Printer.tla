------------------------------- MODULE Printer -------------------------------
(***************************************************************************)
(* The dump of the tree by parser_print() (parser.c 593-699): one line for *)
(* each node and for each mark between them, indented by its depth.  A     *)
(* line is its depth, the word in brackets, and of the node what else is   *)
(* printed of it.  For TLC only: the definitions are recursive.            *)
(***************************************************************************)
EXTENDS Parser, SequencesExt

-----------------------------------------------------------------------------
(* The node types whose line has the lexeme of their token. *)
Named == {"PARAM", "BINDING", "BINARY", "UNARY", "ID", "NUMBER", "BOOL", "ERROR"}

Line(depth, n) ==
  [depth |-> depth, word |-> n.type, is_const |-> n.is_const,
   tok |-> IF n.type \in Named THEN n.tok ELSE UNINIT]

Marks == {"COND", "THEN", "ELSE", "RET", "ANN"}

Mark(depth, word) == << Line(depth, Node(word, UNINIT, << >>)) >>

(* print_node(); a null pointer prints nothing.  The lines of kid k of n   *)
(* stand one level below those of n, or two, below a mark.                 *)
RECURSIVE print_node(_, _)

(* Mutant of Optional: the kid stands where its mark would. *)
OptionalWithoutMark(word, n, depth) == print_node(n, depth + 1)

Marked(word, n, depth) == Mark(depth + 1, word) \o print_node(n, depth + 2)

Optional(word, n, depth) == IF n = NULL THEN << >> ELSE Marked(word, n, depth)

Below(n, depth) ==
  LET kid(k) == n.kids[k]
      last   == Len(n.kids)
  IN CASE n.type = "LOOP" ->
            print_node(kid(1), depth + 1) \o Optional("COND", kid(2), depth)
              \o print_node(kid(3), depth + 1)
       [] n.type = "IF" ->
            Marked("COND", kid(1), depth) \o Marked("THEN", kid(2), depth)
              \o Optional("ELSE", kid(3), depth)
       [] n.type = "BINDING" ->
            Optional("ANN", kid(1), depth) \o print_node(kid(2), depth + 1)
       [] OTHER ->
            FlattenSeq([k \in 1 .. last |->
              IF n.type = "FN" /\ k = last - 1 THEN Optional("RET", kid(k), depth)
              ELSE print_node(kid(k), depth + 1)])

print_node(n, depth) ==
  IF n = NULL THEN << >> ELSE << Line(depth, n) >> \o Below(n, depth)

parser_print(program) == print_node(program, 0)

-----------------------------------------------------------------------------
(* The tree that a reader of the dump makes of it: a line and those below  *)
(* it that are deeper are a node or a marked kid.                          *)
Heads(lines) == {k \in 2 .. Len(lines) : lines[k].depth = lines[1].depth + 1}

Group(lines, k) ==
  SubSeq(lines, k, Min({j - 1 : j \in {h \in Heads(lines) : h > k}} \cup {Len(lines)}))

Groups(lines) ==
  LET heads == SetToSortSeq(Heads(lines), <)
  IN  [k \in DOMAIN heads |-> Group(lines, heads[k])]

RECURSIVE Read(_)
Read(lines) ==
  IF lines = << >> THEN NULL
  ELSE
  LET plain    == SelectSeq(Groups(lines), LAMBDA g : g[1].word \notin Marks)
      kids     == [k \in DOMAIN plain |-> Read(plain[k])]
      of(word) == Read(FlattenSeq([k \in DOMAIN Groups(lines) |->
                    IF Groups(lines)[k][1].word = word
                    THEN Tail(Groups(lines)[k]) ELSE << >>]))
      orNull   == IF kids = << >> THEN << NULL >> ELSE kids
      type     == lines[1].word
  IN  [Node(type, lines[1].tok,
         CASE type = "LOOP" ->
                (IF Len(kids) = 2 THEN << kids[1] >> ELSE << NULL >>)
                  \o << of("COND"), Last(kids) >>
           [] type = "IF" -> << of("COND"), of("THEN"), of("ELSE") >>
           [] type = "BINDING" -> << of("ANN") >> \o kids
           [] type = "FN" -> Front(kids) \o << of("RET"), Last(kids) >>
           [] type = "RETURN" -> orNull
           [] OTHER -> kids)
       EXCEPT !.is_const = lines[1].is_const]

(* What can be seen of a tree: without the tokens that are not printed. *)
RECURSIVE Visible(_)
Visible(n) ==
  [n EXCEPT !.tok  = IF n.type \in Named THEN @ ELSE UNINIT,
            !.kids = [k \in DOMAIN @ |-> Visible(@[k])]]

(* The dump tells trees apart, those of programs with errors included: it  *)
(* can be read back, with every optional part in its place.                *)
DumpIsFaithful == Done => Read(parser_print(top.node)) = Visible(top.node)
=============================================================================
