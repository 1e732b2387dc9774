--------------------------- MODULE ParserInvariant ---------------------------
(***************************************************************************)
(* The inductive invariant of the parser, part by part: what holds of the  *)
(* window, the reports and the call stack of parser.c between two steps.   *)
(***************************************************************************)
EXTENDS Parser

-----------------------------------------------------------------------------
(* The window and the reports. *)

(* A parser context whose window is contiguous and looks at most one token *)
(* ahead.                                                                  *)
Sound(c) ==
  /\ c = [win |-> c.win, diags |-> c.diags]
  /\ c.win \in Window
  /\ Len(c.win.queue) <= 1

Whats == {"lexical", "prefix", "chained", "SEMICOLON", "LBRACE", "RBRACE",
          "LPAREN", "RPAREN", "RETURN", "COLON", "EQUAL"}

(* A report about one of the first n tokens. *)
Report(n) == [what : Whats, tok : 0 .. n]

Ordered(c) ==
  /\ c.diags \in Seq(Report(c.win.lexed))
  /\ \A i, j \in 1 .. Len(c.diags) : i < j => c.diags[i].tok <= c.diags[j].tok + 1

(* The lexer has revealed every token that was read. *)
Known == closed \/ ctx.win.lexed <= Len(input)

-----------------------------------------------------------------------------
(* The frames. *)

(* Where parse_program() stands; its frame is the last of the stack. *)
Bottom == {"start", "program", "done"}

(* Where a function can be while another one runs. *)
Waiting ==
  {"program", "stmt_end", "build", "stmts", "binding_ann", "fn_params",
   "fn_body", "infix", "group", "rhs", "call_args", "if_then", "if_else",
   "loop_block"}

IsNode(v) ==
  v = [type |-> v.type, tok |-> v.tok, kids |-> v.kids, is_const |-> v.is_const]

IsFrame(f) ==
  /\ f = [at |-> f.at, node |-> f.node, min |-> f.min]
  /\ f.at \in Labels \ {"BUG"}
  /\ f.min \in 0 .. 13
  /\ f.at = "stmt_end" => IsNode(f.node)

IsSeq(s) == s \in Seq({s[i] : i \in DOMAIN s})

Frames(s) ==
  /\ IsSeq(s) /\ s # << >>
  /\ \A i \in 1 .. Len(s) :
       /\ IsFrame(s[i])
       /\ i # 1 => s[i].at \in Waiting
       /\ s[i].at \in Bottom <=> i = Len(s)

(* What the running function f may rely on about the tokens: the operator  *)
(* that parse_stmt() saw for parse_binding() is still the next token, and  *)
(* a token has been looked at only after an identifier, in a few places.   *)
Foresees(f, c) ==
  /\ f.at = "binding" => is_binding_op(TypeOf(c.win.current + 1))
  /\ f.at = "stmt" => Cur(c) # "EOF"
  /\ c.win.queue # << >> =>
       /\ Cur(c) = "ID"
       /\ f.at \in {"binding", "expr_stmt", "prefix", "fn_params", "param", "loop_cond"}
       /\ f.at = "fn_params" => f.node.kids = << >>

-----------------------------------------------------------------------------
(* What the depth of the stack is paid with.  When n tokens were consumed, *)
(* the stack from a frame at a label down has no more than 2 * n + its     *)
(* price frames.                                                           *)

(* The tokens at which parse_prefix() fails and stays. *)
Stuck == {"SEMICOLON", "EOF"}

Base(at) ==
  CASE at = "prefix" -> 3
    [] at \in {"infix", "rhs", "param"} -> 2
    [] at \in {"start", "return", "binding", "binding_ann", "if", "loop",
               "expr_stmt", "build", "group", "call_args"} -> 1
    [] at \in {"stmt", "stmt_end"} -> 0
    [] at \in {"if_then", "if_else", "fn_body", "loop_block"} -> -2
    [] OTHER -> -1

(* A block at its brace is about to consume it; on an error path that      *)
(* consumes nothing the functions cost one frame more.                     *)
Bonus(at, t) ==
  IF at = "block" /\ t = "LBRACE" THEN 2
  ELSE IF t \in Stuck /\ at \in {"prefix", "infix", "expr_stmt", "build", "stmt",
            "stmt_end", "stmts", "block", "if_then", "if_else", "fn_body", "loop_block"}
  THEN 1 ELSE 0

Price(at, t) == Base(at) + Bonus(at, t)

(* Frame i is paid for by the expression or the parameter above it, which  *)
(* has yet to consume a token.                                             *)
Pending(s, i, t) ==
  \/ /\ s[i].at \in {"if_then", "fn_body", "loop_block"}
     /\ i = 3 /\ s[1].at = "prefix"
  \/ /\ s[i].at = "fn_params"
     /\ \/ i = 2 /\ s[1].at = "param"
        \/ i = 1 /\ s[1].node.kids = << >> /\ t \in {"ID", "RPAREN"}

Relief(at) == IF at = "fn_params" THEN 1 ELSE -1

(* The stack s is paid for by n tokens, t being the current one. *)
Paid(s, n, t) ==
  \A i \in 1 .. Len(s) :
    \/ Len(s) + 1 - i <= 2 * n + Price(s[i].at, t)
    \/ Pending(s, i, t) /\ Len(s) + 1 - i <= 2 * n + Relief(s[i].at)

-----------------------------------------------------------------------------
(* The statements. *)

(* The statement of frame i is at its first token, and the functions above *)
(* are those that are going to consume it.                                 *)
Early(s, i, t) ==
  \/ i = 1 /\ t = "SEMICOLON"
  \/ i = 2 /\ \/ s[1].at \in {"binding", "if", "loop", "expr_stmt"}
              \/ s[1].at = "block" /\ t = "LBRACE"
              \/ s[1].at = "return" /\ t = "RETURN"
              \/ s[1].at = "build" /\ t = "SEMICOLON"
  \/ i = 3 /\ s[2].at = "build" /\ s[1].at = "infix" /\ t = "SEMICOLON"
  \/ i = 4 /\ s[3].at = "build" /\ s[2].at = "infix" /\ s[1].at = "prefix"

(* Every statement has consumed a token or is about to. *)
Begun(s, n, t) ==
  \A i \in 1 .. Len(s) : s[i].at = "stmt_end" =>
    /\ s[i].node.tok \in Nat
    /\ \/ s[i].node.tok < n
       \/ s[i].node.tok = n /\ t # "EOF" /\ Early(s, i, t)

-----------------------------------------------------------------------------
(* The stack s, with the context c. *)
Good(s, c) ==
  /\ Frames(s)
  /\ Foresees(s[1], c)
  /\ Paid(s, c.win.current, Cur(c))
  /\ Begun(s, c.win.current, Cur(c))

(* Between two steps of the parser each frame of the stack stands where    *)
(* its callee was called, is paid for by the tokens consumed, and belongs  *)
(* to a statement that has consumed a token or is about to.                *)
IInv ==
  /\ input \in Seq(Terminals) /\ closed \in BOOLEAN /\ comment \in BOOLEAN
  /\ Known
  /\ Ordered(ctx)
  /\ Sound(ctx)
  /\ Good(stack, ctx)
=============================================================================
