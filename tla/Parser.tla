------------------------------- MODULE Parser --------------------------------
(***************************************************************************)
(* The recursive-descent and Pratt parser of src/src/frontend/parser.c as  *)
(* an explicit-stack machine.  A frame of the stack is an activation of a  *)
(* parse_*() function: at is where it stands, node what it is building and *)
(* min the min_binding of parse_expr_internal().  A call pushes the frame  *)
(* of the callee; returning a node pops it and appends the node to the     *)
(* node of the caller.                                                     *)
(*                                                                         *)
(* The lexer is external here: Reveal stands for the answers of its        *)
(* next_token(), chosen as late as possible.  Token i is the i-th answer.  *)
(* A TK_ERROR token comes with the report of error_token(); so does the    *)
(* TK_EOF after a block comment that does not end, which the lexer reports *)
(* and skips.                                                              *)
(***************************************************************************)
EXTENDS ParserContext

CONSTANTS Shapes,         \* bound: the inputs, each a sequence of sets of
                          \* token types; an input is a prefix of a member
          ErrorTokens     \* bound: tokens of an input with a reported error

ASSUME ShapesAssumption == Shapes \subseteq Seq(SUBSET STRING)

VARIABLES input,          \* the types of the tokens revealed so far
          closed,         \* the source ends after them
          comment,        \* it ends in an unterminated block comment
          ctx,            \* [win: the token window, diags: the reports so far]
          stack           \* the call stack, top first

vars == << input, closed, comment, ctx, stack >>

-----------------------------------------------------------------------------
(* Tokens and reports. *)
TypeOf(i) == CASE i = UNINIT     -> "UNINIT"
               [] i > Len(input) -> "EOF"
               [] OTHER          -> input[i]

Cur(c) == TypeOf(c.win.current)

Emit(c, what, tok) ==
  [c EXCEPT !.diags = Append(@, [what |-> what, tok |-> tok])]

(* Is token i lexed with a report? *)
Reported(i) ==
  \/ TypeOf(i) = "ERROR"
  \/ comment /\ i = Len(input) + 1

(* c with its window moved to w, which lexed at most one token more. *)
Lexed(c, w) ==
  IF w.lexed > c.win.lexed /\ Reported(w.lexed)
  THEN [Emit(c, "lexical", w.lexed) EXCEPT !.win = w]
  ELSE [c EXCEPT !.win = w]

Advanced(c) == Lexed(c, Advance(c.win))

(* Mutant of Looked: one token too far. *)
LookedTwo(c) == Lexed(c, Peek(c.win, 1))

Looked(c) == Lexed(c, Peek(c.win, 0))

NextType(c) == TypeOf(Peeked(c.win, 0))

(* Mutant of Expected: the report points at a token not read yet. *)
ExpectedAtNext(c, type) ==
  IF Cur(c) = type THEN Advanced(c) ELSE Emit(c, type, c.win.current + 1)

Expected(c, type) ==
  IF Cur(c) = type THEN Advanced(c) ELSE Emit(c, type, c.win.prev)

(* The tables.  A token type is a binary operator iff it has a row. *)
(* Mutant of Left: operators of a level group to the right. *)
LeftAsRight(n) == [left |-> n, right |-> n]

Left(n) == [left |-> n, right |-> n + 1]

binding_table ==
  [OR  |-> Left(1), AND |-> Left(3),
   CMP |-> Left(5), NEQ |-> Left(5), LT |-> Left(5), GT |-> Left(5),
   LE  |-> Left(5), GE  |-> Left(5), RANGE |-> Left(7),
   PLUS |-> Left(9), MINUS |-> Left(9),
   STAR |-> Left(11), SLASH |-> Left(11), MOD |-> Left(11)]

PREFIX_BINDING == 13
CALL_BINDING == 15

is_binop(type) == type \in DOMAIN binding_table

is_non_assoc(type) ==
  type \in {"CMP", "NEQ", "LT", "GT", "LE", "GE", "RANGE"}

(* Mutant of is_binding_op: an operator parse_binding() does not know. *)
is_binding_op_or_equal(type) == type \in {"DECL", "WALRUS", "COLON", "EQUAL"}

is_binding_op(type) == type \in {"DECL", "WALRUS", "COLON"}

stmt_vtable ==
  [type \in {"RETURN", "LBRACE", "IF", "LOOP"} |->
     CASE type = "RETURN" -> "return" [] type = "LBRACE" -> "block"
       [] type = "IF"     -> "if"     [] type = "LOOP"   -> "loop"]

-----------------------------------------------------------------------------
(* Nodes and frames. *)
Node(type, tok, kids) ==
  [type |-> type, tok |-> tok, kids |-> kids, is_const |-> FALSE]

NULL == Node("NULL", UNINIT, << >>)

Adopt(node, kid) == [node EXCEPT !.kids = Append(@, kid)]

Frame(at, node) == [at |-> at, node |-> node, min |-> 0]

(* Calls: the frames a call of each function pushes. *)
Call(at) == << Frame(at, NULL) >>

(* parse_expr_internal(p, min): parse_prefix() runs first. *)
ExprCall(min) ==
  << Frame("prefix", NULL), [Frame("infix", NULL) EXCEPT !.min = min] >>

top == Head(stack)

(* The lexer has revealed the two tokens a step may need. *)
Ready == closed \/ Len(input) >= ctx.win.lexed + 2

At(label) == Ready /\ top.at = label

(* The running function moves to frame and calls callee. *)
Continue(frame, callee) == stack' = callee \o << frame >> \o Tail(stack)

(* The running function returns node to its caller. *)
Return(node) ==
  LET caller == Head(Tail(stack))
  IN  stack' = << [caller EXCEPT !.node = Adopt(@, node)] >> \o Tail(Tail(stack))

-----------------------------------------------------------------------------
Init ==
  /\ input = << >>
  /\ closed = FALSE /\ comment = FALSE
  /\ ctx = [win |-> InitialContext, diags |-> << >>]
  /\ stack = << Frame("start", Node("PROGRAM", UNINIT, << >>)) >>

(* The lexer: the source has one more token, or ends, the last of it being *)
(* a comment that does not end, perhaps.                                   *)
Reveal ==
  /\ ~Ready
  /\ \/ /\ ctx.diags # << >> => Len(input) < ErrorTokens
        /\ \E shape \in Shapes :
             /\ Len(input) < Len(shape)
             /\ \A i \in 1 .. Len(input) : input[i] \in shape[i]
             /\ \E type \in shape[Len(input) + 1] : input' = Append(input, type)
        /\ UNCHANGED << closed, comment >>
     \/ /\ closed' = TRUE /\ comment' \in BOOLEAN
        /\ comment' => Len(input) < ErrorTokens
        /\ UNCHANGED input
  /\ UNCHANGED << ctx, stack >>

(* parse_program() *)
Start ==
  /\ At("start")
  /\ ctx' = Advanced(ctx)
  /\ Continue([top EXCEPT !.at = "program"], << >>)

(* Mutant of Program: the loop goes on at TK_EOF, with nothing to parse. *)
ProgramWithoutExit ==
  /\ At("program")
  /\ Continue(top, IF Cur(ctx) # "EOF" THEN Call("stmt") ELSE << >>)
  /\ UNCHANGED ctx

Program ==
  /\ At("program")
  /\ IF Cur(ctx) # "EOF" THEN Continue(top, Call("stmt"))
                         ELSE Continue([top EXCEPT !.at = "done"], << >>)
  /\ UNCHANGED ctx

(* Mutant of Stmt: it peeks at the second token of every statement. *)
StmtPeeksAlways ==
  LET type == Cur(ctx)
      rest == Frame("stmt_end", Node("STMT", ctx.win.current, << >>))
  IN
  /\ At("stmt")
  /\ ctx' = Looked(ctx)
  /\ Continue(rest, Call(
       IF type \in DOMAIN stmt_vtable THEN stmt_vtable[type]
       ELSE IF type = "ID" /\ is_binding_op(NextType(ctx)) THEN "binding"
       ELSE "expr_stmt"))

(* parse_stmt(): the frame remembers the first token. *)
Stmt ==
  LET type   == Cur(ctx)
      rest   == Frame("stmt_end", Node("STMT", ctx.win.current, << >>))
  IN
  /\ At("stmt")
  /\ ctx' = IF type = "ID" THEN Looked(ctx) ELSE ctx
  /\ Continue(rest, Call(
       IF type \in DOMAIN stmt_vtable THEN stmt_vtable[type]
       ELSE IF type = "ID" /\ is_binding_op(NextType(ctx)) THEN "binding"
       ELSE "expr_stmt"))

StmtEnd ==
  /\ At("stmt_end")
  /\ ctx' = Expected(ctx, "SEMICOLON")
  /\ Return(Head(top.node.kids))

(* Every parse function that ends in "return node" with nothing left to do. *)
Build ==
  /\ At("build")
  /\ Return(top.node)
  /\ UNCHANGED ctx

(* parse_block() *)
Block ==
  /\ At("block")
  /\ ctx' = Expected(ctx, "LBRACE")
  /\ Continue(Frame("stmts", Node("BLOCK", ctx.win.current, << >>)), << >>)

BlockStmts ==
  /\ At("stmts")
  /\ IF Cur(ctx) \notin {"RBRACE", "EOF"}
     THEN Continue(top, Call("stmt")) /\ UNCHANGED ctx
     ELSE Return(top.node) /\ ctx' = Expected(ctx, "RBRACE")

(* parse_return() *)
ReturnStmt ==
  LET c    == Expected(ctx, "RETURN")
      node == Node("RETURN", ctx.win.current, << >>)
  IN
  /\ At("return")
  /\ ctx' = c
  /\ IF Cur(c) = "SEMICOLON" THEN Return(Adopt(node, NULL))
                             ELSE Continue(Frame("build", node), ExprCall(0))

(* parse_binding() *)
Binding ==
  LET c    == Advanced(Advanced(ctx))
      op   == TypeOf(c.win.prev)
      node == Node("BINDING", ctx.win.current, << >>)
  IN
  /\ At("binding")
  /\ ctx' = c
  /\ Continue(
       CASE op = "COLON"  -> Frame("binding_ann", node)
         [] op = "DECL"   -> Frame("build", Adopt([node EXCEPT !.is_const = TRUE], NULL))
         [] op = "WALRUS" -> Frame("build", Adopt(node, NULL))
         [] OTHER         -> Frame("BUG", node),
       IF is_binding_op(op) THEN ExprCall(0) ELSE << >>)

(* Mutant of BindingAnn: "a : b : c" declares a variable. *)
BindingAnnVariable ==
  /\ At("binding_ann")
  /\ ctx' = IF Cur(ctx) = "COLON" THEN Advanced(ctx) ELSE Expected(ctx, "EQUAL")
  /\ Continue(Frame("build", top.node), ExprCall(0))

BindingAnn ==
  LET const == Cur(ctx) = "COLON"
  IN
  /\ At("binding_ann")
  /\ ctx' = IF const THEN Advanced(ctx) ELSE Expected(ctx, "EQUAL")
  /\ Continue(Frame("build", [top.node EXCEPT !.is_const = const]), ExprCall(0))

(* parse_expr_stmt() *)
ExprStmt ==
  /\ At("expr_stmt")
  /\ Continue(Frame("build", Node("EXPR_STMT", ctx.win.current, << >>)), ExprCall(0))
  /\ UNCHANGED ctx

(* Mutant of Param: the node takes the token before its name. *)
ParamAtPrev ==
  /\ At("param")
  /\ ctx' = Expected(Advanced(ctx), "COLON")
  /\ Continue(Frame("build", Node("PARAM", ctx.win.prev, << >>)), ExprCall(0))

(* parse_param() *)
Param ==
  /\ At("param")
  /\ ctx' = Expected(Advanced(ctx), "COLON")
  /\ Continue(Frame("build", Node("PARAM", ctx.win.current, << >>)), ExprCall(0))

(* parse_fn(), called with its "(" consumed: another param, or the end of  *)
(* the list and the return type; then the body.                            *)
FnParams ==
  LET first == top.node.kids = << >>
      more  == IF first THEN Cur(ctx) # "RPAREN" ELSE Cur(ctx) = "COMMA"
  IN
  /\ At("fn_params")
  /\ ctx' = IF ~more THEN Expected(ctx, "RPAREN")
            ELSE IF first THEN ctx ELSE Advanced(ctx)
  /\ IF more THEN Continue(top, Call("param"))
             ELSE Continue([top EXCEPT !.at = "fn_body"], ExprCall(0))

FnBody ==
  /\ At("fn_body")
  /\ Continue([top EXCEPT !.at = "build"], Call("block"))
  /\ UNCHANGED ctx

(* parse_prefix() *)
Literal ==
  LET type == Cur(ctx)
      node == CASE type = "ID" -> "ID"
                [] type \in {"NUMBER", "HEX", "OCTAL", "BINARY"} -> "NUMBER"
                [] type \in {"TRUE", "FALSE"} -> "BOOL"
                [] OTHER -> "NULL"
  IN
  /\ At("prefix")
  /\ node # "NULL"
  /\ ctx' = Advanced(ctx)
  /\ Return(Node(node, ctx.win.current, << >>))

Paren ==
  LET c    == Advanced(ctx)
      d    == IF Cur(c) = "ID" THEN Looked(c) ELSE c
      isFn == Cur(c) = "RPAREN" \/ (Cur(c) = "ID" /\ NextType(c) = "COLON")
  IN
  /\ At("prefix")
  /\ Cur(ctx) = "LPAREN"
  /\ ctx' = d
  /\ IF isFn THEN Continue(Frame("fn_params", Node("FN", d.win.prev, << >>)), << >>)
             ELSE Continue(Frame("group", NULL), ExprCall(0))

GroupEnd ==
  /\ At("group")
  /\ ctx' = Expected(ctx, "RPAREN")
  /\ Return(Head(top.node.kids))

(* Mutant of Unary: the operator is not consumed. *)
UnaryInPlace ==
  /\ At("prefix")
  /\ Cur(ctx) \in {"MINUS", "NOT"}
  /\ Continue(Frame("build", Node("UNARY", ctx.win.current, << >>)),
              ExprCall(PREFIX_BINDING))
  /\ UNCHANGED ctx

Unary ==
  /\ At("prefix")
  /\ Cur(ctx) \in {"MINUS", "NOT"}
  /\ ctx' = Advanced(ctx)
  /\ Continue(Frame("build", Node("UNARY", ctx.win.current, << >>)),
              ExprCall(PREFIX_BINDING))

(* Mutant of NoPrefix: the offending token is never consumed. *)
NoPrefixInPlace ==
  /\ At("prefix")
  /\ Cur(ctx) \notin {"ID", "NUMBER", "HEX", "OCTAL", "BINARY", "TRUE", "FALSE",
                      "LPAREN", "MINUS", "NOT"}
  /\ ctx' = Emit(ctx, "prefix", ctx.win.current)
  /\ Return(Node("ERROR", ctx.win.current, << >>))

NoPrefix ==
  LET c == Emit(ctx, "prefix", ctx.win.current)
  IN
  /\ At("prefix")
  /\ Cur(ctx) \notin {"ID", "NUMBER", "HEX", "OCTAL", "BINARY", "TRUE", "FALSE",
                      "LPAREN", "MINUS", "NOT"}
  /\ ctx' = IF Cur(ctx) \in {"SEMICOLON", "EOF"} THEN c ELSE Advanced(c)
  /\ Return(Node("ERROR", ctx.win.current, << >>))

(* parse_expr_internal(): the loop after parse_prefix(); lhs is the one    *)
(* kid of the frame.                                                       *)
Infix ==
  LET type == Cur(ctx)
      lhs  == Head(top.node.kids)
      node(kind) == Node(kind, ctx.win.current, << lhs >>)
  IN
  /\ At("infix")
  /\ \/ /\ type = "LPAREN" /\ CALL_BINDING >= top.min
        /\ ctx' = Expected(ctx, "LPAREN")
        /\ Continue([top EXCEPT !.node = NULL],
                    << Frame("call_args", node("CALL")) >>)
     \/ /\ is_binop(type) /\ binding_table[type].left >= top.min
        /\ ctx' = Advanced(ctx)
        /\ Continue([top EXCEPT !.at = "rhs", !.node = node("BINARY")],
                    ExprCall(binding_table[type].right))
     \/ /\ IF type = "LPAREN" THEN CALL_BINDING < top.min
           ELSE is_binop(type) => binding_table[type].left < top.min
        /\ Return(lhs)
        /\ UNCHANGED ctx

(* Mutant of Chained: the levels are not compared. *)
ChainedAtAnyLevel(op, next) == is_non_assoc(op) /\ is_binop(next)

Chained(op, next) ==
  /\ is_non_assoc(op)
  /\ is_binop(next)
  /\ binding_table[next].left = binding_table[op].left

(* Mutant of Rhs: the report points at the first of the chained operators. *)
RhsReportsFirst ==
  /\ At("rhs")
  /\ ctx' = IF Chained(TypeOf(top.node.tok), Cur(ctx))
            THEN Emit(ctx, "chained", top.node.tok) ELSE ctx
  /\ Continue([top EXCEPT !.at = "infix", !.node = Adopt(NULL, top.node)], << >>)

Rhs ==
  /\ At("rhs")
  /\ ctx' = IF Chained(TypeOf(top.node.tok), Cur(ctx))
            THEN Emit(ctx, "chained", ctx.win.current) ELSE ctx
  /\ Continue([top EXCEPT !.at = "infix", !.node = Adopt(NULL, top.node)], << >>)

(* parse_call(), its "(" consumed; kid 1 is the callee. *)
CallArgs ==
  LET first == Len(top.node.kids) = 1
      more  == IF first THEN Cur(ctx) # "RPAREN" ELSE Cur(ctx) = "COMMA"
  IN
  /\ At("call_args")
  /\ ctx' = IF ~more THEN Expected(ctx, "RPAREN")
            ELSE IF first THEN ctx ELSE Advanced(ctx)
  /\ IF more THEN Continue(top, ExprCall(0)) ELSE Return(top.node)

(* parse_if() *)
If ==
  /\ At("if")
  /\ ctx' = Advanced(ctx)
  /\ Continue(Frame("if_then", Node("IF", ctx.win.current, << >>)), ExprCall(0))

IfThen ==
  /\ At("if_then")
  /\ Continue([top EXCEPT !.at = "if_else"], Call("block"))
  /\ UNCHANGED ctx

IfElse ==
  LET c == Advanced(ctx)
  IN
  /\ At("if_else")
  /\ IF Cur(ctx) = "ELSE"
     THEN /\ ctx' = c
          /\ Continue([top EXCEPT !.at = "build"],
                      Call(IF Cur(c) = "IF" THEN "if" ELSE "block"))
     ELSE Return(Adopt(top.node, NULL)) /\ UNCHANGED ctx

(* parse_loop() *)
Loop ==
  /\ At("loop")
  /\ ctx' = Advanced(ctx)
  /\ Continue(Frame("loop_var", Node("LOOP", ctx.win.current, << >>)), << >>)

LoopVar ==
  LET isId == Cur(ctx) = "ID"
      var  == isId /\ NextType(ctx) = "COLON"
  IN
  /\ At("loop_var")
  /\ ctx' = IF var THEN Advanced(Advanced(Looked(ctx)))
            ELSE IF isId THEN Looked(ctx) ELSE ctx
  /\ Continue([top EXCEPT !.at = "loop_cond",
                 !.node = Adopt(@, IF var THEN Node("ID", ctx.win.current, << >>) ELSE NULL)],
              << >>)

LoopCond ==
  /\ At("loop_cond")
  /\ IF Cur(ctx) # "LBRACE"
     THEN Continue([top EXCEPT !.at = "loop_block"], ExprCall(0))
     ELSE Continue(Frame("build", Adopt(top.node, NULL)), Call("block"))
  /\ UNCHANGED ctx

LoopBlock ==
  /\ At("loop_block")
  /\ Continue([top EXCEPT !.at = "build"], Call("block"))
  /\ UNCHANGED ctx

(* parser_parse() has returned: the tree is the node of the only frame. *)
Done == top.at = "done"

Terminated == Done /\ UNCHANGED vars

Step ==
  \/ Start \/ Program \/ Stmt \/ StmtEnd \/ Build \/ Block \/ BlockStmts
  \/ ReturnStmt \/ Binding \/ BindingAnn \/ ExprStmt
  \/ Param \/ FnParams \/ FnBody
  \/ Literal \/ Paren \/ GroupEnd \/ Unary \/ NoPrefix
  \/ Infix \/ Rhs \/ CallArgs
  \/ If \/ IfThen \/ IfElse \/ Loop \/ LoopVar \/ LoopCond \/ LoopBlock

Next == Reveal \/ (Step /\ UNCHANGED << input, closed, comment >>) \/ Terminated

Spec == Init /\ [][Next]_vars

(* Reading a token and the parser's own steps always happen: the program   *)
(* is one thread that never waits.                                         *)
FairSpec == Spec /\ WF_vars(Next)

-----------------------------------------------------------------------------
Terminals == UNION UNION {{shape[i] : i \in 1 .. Len(shape)} : shape \in Shapes}

Labels ==
  {"start", "program", "done", "stmt", "stmt_end", "build", "block", "stmts",
   "return", "binding", "binding_ann", "BUG", "expr_stmt", "param", "fn_params",
   "fn_body", "prefix", "infix", "group", "rhs", "call_args", "if", "if_then",
   "if_else", "loop", "loop_var", "loop_cond", "loop_block"}

(* What a report can point at is a token that was read, or TK_UNINIT;      *)
(* min_binding is 0 or a binding power of the tables.                      *)
TypeOK ==
  /\ input \in Seq(Terminals)
  /\ closed \in BOOLEAN /\ comment \in BOOLEAN
  /\ ctx.win \in Context
  /\ \A i \in 1 .. Len(ctx.diags) : ctx.diags[i].tok \in 0 .. ctx.win.lexed
  /\ \A i \in 1 .. Len(stack) : stack[i].at \in Labels /\ stack[i].min \in 0 .. 13

(* What parse_stmt() saw when it dispatched is still what parse_binding()  *)
(* consumes two advances later: the BUG() of its default case, which kills *)
(* the compiler, is unreachable.                                           *)
NoBug == \A i \in 1 .. Len(stack) : stack[i].at # "BUG"

(* The parser never holds more than one token of look-ahead, a quarter of  *)
(* token_queue, and never loses or reorders a token.                       *)
WindowIsSound ==
  /\ Contiguous(ctx.win)
  /\ Len(ctx.win.queue) <= 1

(* Recursion is paid for with tokens: no chain of calls, error paths       *)
(* included, nests deeper than the tokens consumed so far allow.           *)
DepthIsPaid == Len(stack) <= 2 * ctx.win.current + 4

(* The reports of lexer and parser together are made nearly in source      *)
(* order: one that is late lies at most one token before an earlier one.   *)
(* The lexer's come when a token is read ahead, that of an unterminated    *)
(* comment with TK_EOF.                                                    *)
ReportsNearlyInOrder ==
  \A i, j \in 1 .. Len(ctx.diags) :
    i < j => ctx.diags[i].tok <= ctx.diags[j].tok + 1

(* Every statement, malformed ones included, consumes at least a token:    *)
(* the loops of parse_block() and parse_program() cannot spin.             *)
StmtProgress ==
  [][top.at = "stmt_end" /\ Len(stack') < Len(stack)
       => ctx'.win.current > top.node.tok]_vars

(* parser_parse() returns on every input. *)
Termination == <>Done
=============================================================================
