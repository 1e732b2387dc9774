---------------------------- MODULE ParserProofs -----------------------------
(***************************************************************************)
(* Proofs about the parser, for every set of inputs.                       *)
(*                                                                         *)
(* The lemmas go from the operators to the machine: what advance(), peek() *)
(* and expect_token() do to a context; what replacing the top of the stack *)
(* and returning do to the invariant; then one lemma for each action, in   *)
(* the order of Parser, and the theorems.                                  *)
(***************************************************************************)
EXTENDS ParserInvariant, ParserContextProofs

-----------------------------------------------------------------------------
(* diag_emit() leaves the window alone. *)
LEMMA EmitSound ==
  ASSUME NEW c, Sound(c), NEW what, NEW tok
  PROVE  Sound(Emit(c, what, tok))
<1>. DEFINE reports == Append(c.diags, [what |-> what, tok |-> tok])
<1>1. Emit(c, what, tok) = [win |-> c.win, diags |-> reports]
  <2>1. \A d : [c EXCEPT !.diags = d] = [win |-> c.win, diags |-> d]
    BY DEF Sound
  <2>. QED
    BY <2>1 DEF Emit
<1>. HIDE DEF reports
<1>. QED
  BY <1>1 DEF Sound

(* Moving the window to a sound one reports at most a lexical error. *)
LEMMA LexedSound ==
  ASSUME NEW c, Sound(c), NEW w \in Window, Len(w.queue) <= 1
  PROVE  Sound(Lexed(c, w)) /\ Lexed(c, w).win = w
<1>1. Sound(Emit(c, "lexical", w.lexed))
  BY EmitSound
<1>2. \A d : Sound(d) => /\ Sound([d EXCEPT !.win = w])
                         /\ [d EXCEPT !.win = w].win = w
  <2>. SUFFICES ASSUME NEW d, Sound(d)
                PROVE  /\ Sound([d EXCEPT !.win = w])
                       /\ [d EXCEPT !.win = w].win = w
    OBVIOUS
  <2>1. [d EXCEPT !.win = w] = [win |-> w, diags |-> d.diags]
    BY DEF Sound
  <2>. QED
    BY <2>1 DEF Sound
<1>. QED
  BY <1>1, <1>2 DEF Lexed

(* advance() and peek(p, 0) keep a context sound. *)
LEMMA AdvancedSound ==
  ASSUME NEW c, Sound(c)
  PROVE  Sound(Advanced(c))
<1>1. Advance(c.win) \in Window /\ Len(Advance(c.win).queue) <= Len(c.win.queue)
  BY AdvanceWindow DEF Sound
<1>2. Len(Advance(c.win).queue) \in Nat /\ Len(c.win.queue) \in Nat
  BY <1>1, LenProperties DEF Sound, Window, Context
<1>3. Len(Advance(c.win).queue) <= 1
  BY <1>1, <1>2 DEF Sound
<1>. QED
  BY <1>1, <1>3, LexedSound DEF Advanced

LEMMA LookedSound ==
  ASSUME NEW c, Sound(c)
  PROVE  Sound(Looked(c))
<1>1. /\ Peek(c.win, 0) \in Window
      /\ Len(Peek(c.win, 0).queue) = IF Len(c.win.queue) <= 0 THEN 0 + 1
                                                           ELSE Len(c.win.queue)
  BY PeekWindow DEF Sound
<1>2. Len(Peek(c.win, 0).queue) <= 1
  BY <1>1 DEF Sound
<1>. QED
  BY <1>1, <1>2, LexedSound DEF Looked

(* expect_token() either advances or reports. *)
LEMMA ExpectedSound ==
  ASSUME NEW c, Sound(c), NEW type
  PROVE  Sound(Expected(c, type))
  BY AdvancedSound, EmitSound DEF Expected

-----------------------------------------------------------------------------
(* Every step of the parser keeps its context sound. *)
LEMMA StepSound ==
  ASSUME Sound(ctx), Step
  PROVE  Sound(ctx')
<1>1. /\ Sound(Advanced(ctx))
      /\ Sound(Advanced(Advanced(ctx)))
      /\ Sound(Looked(ctx))
      /\ Sound(Looked(Advanced(ctx)))
      /\ Sound(Advanced(Advanced(Looked(ctx))))
  BY AdvancedSound, LookedSound
<1>2. /\ Sound(Expected(ctx, "SEMICOLON"))
      /\ Sound(Expected(ctx, "LBRACE"))
      /\ Sound(Expected(ctx, "RBRACE"))
      /\ Sound(Expected(ctx, "LPAREN"))
      /\ Sound(Expected(ctx, "RPAREN"))
      /\ Sound(Expected(ctx, "RETURN"))
      /\ Sound(Expected(ctx, "EQUAL"))
  BY ExpectedSound
<1>3. Sound(Expected(Advanced(ctx), "COLON"))
  BY <1>1, ExpectedSound
<1>4. /\ Sound(Emit(ctx, "prefix", ctx.win.current))
      /\ Sound(Emit(ctx, "chained", ctx.win.current))
  BY EmitSound
<1>5. Sound(Advanced(Emit(ctx, "prefix", ctx.win.current)))
  BY <1>4, AdvancedSound
<1>6. CASE Start
  BY <1>6, <1>1 DEF Start
<1>7. CASE Stmt
  BY <1>7, <1>1 DEF Stmt
<1>8. CASE StmtEnd
  BY <1>8, <1>2 DEF StmtEnd
<1>9. CASE Block
  BY <1>9, <1>2 DEF Block
<1>10. CASE BlockStmts
  BY <1>10, <1>2 DEF BlockStmts
<1>11. CASE ReturnStmt
  BY <1>11, <1>2 DEF ReturnStmt
<1>12. CASE Binding
  BY <1>12, <1>1 DEF Binding
<1>13. CASE BindingAnn
  BY <1>13, <1>1, <1>2 DEF BindingAnn
<1>14. CASE Param
  BY <1>14, <1>3 DEF Param
<1>15. CASE FnParams
  BY <1>15, <1>1, <1>2 DEF FnParams
<1>16. CASE Literal
  BY <1>16, <1>1 DEF Literal
<1>17. CASE Paren
  BY <1>17, <1>1 DEF Paren
<1>18. CASE GroupEnd
  BY <1>18, <1>2 DEF GroupEnd
<1>19. CASE Unary
  BY <1>19, <1>1 DEF Unary
<1>20. CASE NoPrefix
  BY <1>20, <1>4, <1>5 DEF NoPrefix
<1>21. CASE Infix
  BY <1>21, <1>1, <1>2 DEF Infix
<1>22. CASE Rhs
  BY <1>22, <1>4 DEF Rhs
<1>23. CASE CallArgs
  BY <1>23, <1>1, <1>2 DEF CallArgs
<1>24. CASE If
  BY <1>24, <1>1 DEF If
<1>25. CASE IfElse
  BY <1>25, <1>1 DEF IfElse
<1>26. CASE Loop
  BY <1>26, <1>1 DEF Loop
<1>27. CASE LoopVar
  BY <1>27, <1>1 DEF LoopVar
<1>28. CASE \/ Program \/ Build \/ ExprStmt \/ FnBody \/ IfThen
            \/ LoopCond \/ LoopBlock
  BY <1>28 DEF Program, Build, ExprStmt, FnBody, IfThen, LoopCond, LoopBlock
<1>. QED
  BY <1>6, <1>7, <1>8, <1>9, <1>10, <1>11, <1>12, <1>13, <1>14, <1>15,
     <1>16, <1>17, <1>18, <1>19, <1>20, <1>21, <1>22, <1>23, <1>24,
     <1>25, <1>26, <1>27, <1>28 DEF Step

-----------------------------------------------------------------------------
(* The numbers of a sound window. *)
LEMMA SoundNumbers ==
  ASSUME NEW c, Sound(c)
  PROVE  /\ c.win.current \in Nat /\ c.win.prev \in Nat /\ c.win.lexed \in Nat
         /\ c.win.lexed \in {c.win.current, c.win.current + 1}
         /\ c.win.lexed = c.win.current <=> c.win.queue = << >>
         /\ c.win.prev = IF c.win.current <= 1 THEN c.win.current
                                               ELSE c.win.current - 1
<1>1. c.win \in Context /\ Contiguous(c.win) /\ Len(c.win.queue) <= 1
  BY DEF Sound, Window
<1>2. /\ c.win.current \in Nat /\ c.win.prev \in Nat /\ c.win.lexed \in Nat
      /\ c.win.queue \in Seq(Nat)
  BY <1>1 DEF Context
<1>3. Len(c.win.queue) \in {0, 1} /\ (Len(c.win.queue) = 0 <=> c.win.queue = << >>)
  <2>. DEFINE n == Len(c.win.queue)
  <2>1. n \in Nat /\ n <= 1
    BY <1>1, <1>2, LenProperties
  <2>2. n = 0 <=> c.win.queue = << >>
    BY <1>2, EmptySeq
  <2>3. \A k \in Nat : k <= 1 => k \in {0, 1}
    OBVIOUS
  <2>. HIDE DEF n
  <2>4. n \in {0, 1} /\ (n = 0 <=> c.win.queue = << >>)
    BY ONLY <2>1, <2>2, <2>3
  <2>. QED
    BY <2>4 DEF n
<1>. QED
  BY <1>1, <1>2, <1>3 DEF Contiguous

(* advance() consumes one token, and reads it if it was not looked at. *)
LEMMA AdvancedMoves ==
  ASSUME NEW c, Sound(c)
  PROVE  /\ Sound(Advanced(c))
         /\ Advanced(c).win.current = c.win.current + 1
         /\ Advanced(c).win.lexed = c.win.current + 1
         /\ Advanced(c).win.prev = IF c.win.current = 0 THEN 1 ELSE c.win.current
<1>1. Sound(Advanced(c))
  BY AdvancedSound
<1>2. Advance(c.win) \in Window /\ Len(Advance(c.win).queue) <= Len(c.win.queue)
  BY AdvanceWindow DEF Sound
<1>3. Len(Advance(c.win).queue) \in Nat /\ Len(c.win.queue) \in Nat
  BY <1>2, LenProperties DEF Sound, Window, Context
<1>4. Len(Advance(c.win).queue) <= 1
  BY <1>2, <1>3 DEF Sound
<1>5. Advanced(c).win = Advance(c.win)
  BY <1>2, <1>4, LexedSound DEF Advanced
<1>6. Advance(c.win).lexed = c.win.current + 1
  <2>1. c.win.current \in Nat /\ c.win.lexed \in {c.win.current, c.win.current + 1}
    BY SoundNumbers
  <2>2. CASE c.win.queue = << >>
    BY <2>1, <2>2, SoundNumbers DEF Advance
  <2>3. CASE c.win.queue # << >>
    BY <2>1, <2>3, SoundNumbers DEF Advance
  <2>. QED
    BY <2>2, <2>3
<1>. QED
  BY <1>1, <1>5, <1>6, AdvanceWindow DEF Sound

(* peek(p, 0) consumes nothing and tells the type of the next token. *)
LEMMA LookedMoves ==
  ASSUME NEW c, Sound(c)
  PROVE  /\ Sound(Looked(c))
         /\ Looked(c).win.current = c.win.current
         /\ Looked(c).win.prev = c.win.prev
         /\ Looked(c).win.lexed = c.win.current + 1
         /\ NextType(c) = TypeOf(c.win.current + 1)
<1>1. Sound(Looked(c))
  BY LookedSound
<1>2. /\ Peek(c.win, 0) \in Window
      /\ Peek(c.win, 0).current = c.win.current
      /\ Peek(c.win, 0).prev = c.win.prev
      /\ Peeked(c.win, 0) = c.win.current + 0 + 1
      /\ Len(Peek(c.win, 0).queue) = IF Len(c.win.queue) <= 0 THEN 0 + 1
                                                             ELSE Len(c.win.queue)
  BY PeekWindow DEF Sound
<1>3. Len(c.win.queue) \in Nat /\ Len(c.win.queue) <= 1 /\ c.win.current \in Nat
  BY SoundNumbers, LenProperties DEF Sound, Window, Context
<1>4. Len(Peek(c.win, 0).queue) = 1 /\ Len(Peek(c.win, 0).queue) <= 1
  <2>. DEFINE n == Len(c.win.queue)
              m == Len(Peek(c.win, 0).queue)
  <2>1. n \in Nat /\ n <= 1 /\ m = IF n <= 0 THEN 0 + 1 ELSE n
    BY <1>2, <1>3
  <2>. HIDE DEF n, m
  <2>2. m = 1
    BY ONLY <2>1
  <2>3. Len(Peek(c.win, 0).queue) = 1
    BY <2>2 DEF m
  <2>4. 1 <= 1
    OBVIOUS
  <2>. QED
    BY <2>3, <2>4, Zenon
<1>5. Looked(c).win = Peek(c.win, 0)
  BY <1>2, <1>4, LexedSound DEF Looked
<1>6. Peek(c.win, 0).lexed = c.win.current + 1
  BY <1>2, <1>4 DEF Window, Contiguous
<1>. QED
  BY <1>1, <1>2, <1>3, <1>5, <1>6 DEF NextType

(* The reports with one more. *)
WithReport(c, what, tok) == Append(c.diags, [what |-> what, tok |-> tok])

(* diag_emit() adds a report and nothing else. *)
LEMMA EmitMoves ==
  ASSUME NEW c, Sound(c), NEW what, NEW tok
  PROVE  /\ Sound(Emit(c, what, tok))
         /\ Emit(c, what, tok) = [win |-> c.win, diags |-> WithReport(c, what, tok)]
         /\ Emit(c, what, tok).win = c.win
<1>1. \A d : [c EXCEPT !.diags = d] = [win |-> c.win, diags |-> d]
  BY DEF Sound
<1>. QED
  BY <1>1, EmitSound DEF Emit, WithReport

(* expect_token() consumes the token or leaves the window alone. *)
LEMMA ExpectedMoves ==
  ASSUME NEW c, Sound(c), NEW type
  PROVE  /\ Sound(Expected(c, type))
         /\ IF Cur(c) = type
            THEN /\ Expected(c, type).win.current = c.win.current + 1
                 /\ Expected(c, type).win.lexed = c.win.current + 1
            ELSE Expected(c, type).win = c.win
  BY AdvancedMoves, EmitMoves, ExpectedSound DEF Expected

(* A report about the last token that was read, or the one before it, is   *)
(* in order.                                                               *)
LEMMA EmitOrdered ==
  ASSUME NEW c, Sound(c), Ordered(c), NEW what \in Whats,
         NEW tok \in 0 .. c.win.lexed, c.win.lexed <= tok + 1
  PROVE  Ordered(Emit(c, what, tok))
<1>. DEFINE r == [what |-> what, tok |-> tok]
            n == c.win.lexed
<1>1. /\ Emit(c, what, tok).win = c.win
      /\ Emit(c, what, tok).diags = Append(c.diags, r)
  BY EmitMoves DEF WithReport
<1>2. n \in Nat /\ r \in Report(n) /\ r.tok = tok
  BY SoundNumbers DEF Report
<1>3. c.diags \in Seq(Report(n))
  BY DEF Ordered
<1>4. /\ Append(c.diags, r) \in Seq(Report(n))
      /\ Len(Append(c.diags, r)) = Len(c.diags) + 1
      /\ Append(c.diags, r)[Len(c.diags) + 1] = r
      /\ \A i \in 1 .. Len(c.diags) : Append(c.diags, r)[i] = c.diags[i]
  BY <1>2, <1>3, AppendProperties
<1>5. /\ Len(c.diags) \in Nat
      /\ \A i \in 1 .. Len(c.diags) : c.diags[i].tok \in 0 .. n
  <2>1. \A i \in 1 .. Len(c.diags) : c.diags[i] \in Report(n)
    BY <1>3, ElementOfSeq
  <2>. QED
    BY <1>3, <2>1, LenProperties DEF Report
<1>. HIDE DEF r, n
<1>6. ASSUME NEW i \in 1 .. Len(c.diags) + 1, NEW j \in 1 .. Len(c.diags) + 1, i < j
      PROVE  Append(c.diags, r)[i].tok <= Append(c.diags, r)[j].tok + 1
  <2>1. i \in 1 .. Len(c.diags) /\ Append(c.diags, r)[i].tok = c.diags[i].tok
    BY <1>4, <1>5, <1>6
  <2>2. CASE j = Len(c.diags) + 1
    BY <1>2, <1>4, <1>5, <2>1, <2>2 DEF n
  <2>3. CASE j \in 1 .. Len(c.diags)
    BY <1>4, <1>6, <2>1, <2>3 DEF Ordered
  <2>. QED
    BY <1>5, <2>2, <2>3
<1>. QED
  BY <1>1, <1>4, <1>6 DEF Ordered, n

(* A window that has read more tokens changes nothing about the reports.   *)
LEMMA WindowOrdered ==
  ASSUME NEW c, Sound(c), Ordered(c), NEW w, w.lexed \in Nat, c.win.lexed <= w.lexed
  PROVE  Ordered([c EXCEPT !.win = w])
<1>. DEFINE m == c.win.lexed
            n == w.lexed
<1>1. c.diags \in Seq(Report(m)) /\ m \in Nat /\ n \in Nat /\ m <= n
  BY SoundNumbers DEF Ordered
<1>2. Report(m) \subseteq Report(n)
  BY <1>1 DEF Report
<1>3. c.diags \in Seq(Report(n))
  <2>. HIDE DEF m, n
  <2>1. Len(c.diags) \in Nat /\ c.diags \in [1 .. Len(c.diags) -> Report(n)]
    BY <1>1, <1>2, LenProperties
  <2>. QED
    BY <2>1, SeqDef
<1>4. [c EXCEPT !.win = w] = [win |-> w, diags |-> c.diags]
  BY DEF Sound
<1>. QED
  BY <1>3, <1>4 DEF Ordered

(* A lexical report is about the last token that was read. *)
LEMMA LexedOrdered ==
  ASSUME NEW c, Sound(c), Ordered(c),
         NEW w \in Window, Len(w.queue) <= 1, c.win.lexed <= w.lexed
  PROVE  Ordered(Lexed(c, w))
<1>. DEFINE d == [c EXCEPT !.win = w]
<1>1. w.lexed \in Nat
  BY DEF Window, Context
<1>2. Ordered(d)
  BY <1>1, WindowOrdered
<1>3. d = [win |-> w, diags |-> c.diags]
  BY DEF Sound
<1>4. d.win = w /\ d.diags = c.diags
  BY <1>3
<1>5. Sound(d)
  BY <1>3, <1>4 DEF Sound
<1>. HIDE DEF d
<1>6. \A what \in Whats : Ordered(Emit(d, what, w.lexed))
  <2>1. w.lexed \in 0 .. d.win.lexed /\ d.win.lexed <= w.lexed + 1
    BY <1>1, <1>4
  <2>. QED
    BY <1>2, <1>5, <2>1, EmitOrdered
<1>7. \A what : [Emit(c, what, w.lexed) EXCEPT !.win = w] = Emit(d, what, w.lexed)
  <2>. SUFFICES ASSUME NEW what
                PROVE  [Emit(c, what, w.lexed) EXCEPT !.win = w] = Emit(d, what, w.lexed)
    OBVIOUS
  <2>1. Emit(c, what, w.lexed) = [win |-> c.win, diags |-> WithReport(c, what, w.lexed)]
    BY EmitMoves
  <2>2. Emit(d, what, w.lexed) = [win |-> w, diags |-> WithReport(c, what, w.lexed)]
    <3>1. WithReport(d, what, w.lexed) = WithReport(c, what, w.lexed)
      BY <1>4 DEF WithReport
    <3>. QED
      BY <1>4, <1>5, <3>1, EmitMoves
  <2>. QED
    BY <2>1, <2>2
<1>8. "lexical" \in Whats
  BY DEF Whats
<1>. QED
  BY <1>2, <1>6, <1>7, <1>8 DEF Lexed, d

(* advance() and peek() keep the reports in order. *)
LEMMA AdvancedOrdered ==
  ASSUME NEW c, Sound(c), Ordered(c)
  PROVE  Ordered(Advanced(c))
<1>1. /\ Advance(c.win) \in Window
      /\ Len(Advance(c.win).queue) <= Len(c.win.queue)
  BY AdvanceWindow DEF Sound
<1>2. Len(Advance(c.win).queue) \in Nat /\ Len(c.win.queue) \in Nat
  BY <1>1, LenProperties DEF Sound, Window, Context
<1>3. Len(Advance(c.win).queue) <= 1
  BY <1>1, <1>2 DEF Sound
<1>4. c.win.lexed <= Advance(c.win).lexed
  BY <1>1, SoundNumbers DEF Advance, Window, Context
<1>. QED
  BY <1>1, <1>3, <1>4, LexedOrdered DEF Advanced

LEMMA LookedOrdered ==
  ASSUME NEW c, Sound(c), Ordered(c)
  PROVE  Ordered(Looked(c))
<1>1. /\ Peek(c.win, 0) \in Window
      /\ Len(Peek(c.win, 0).queue) = IF Len(c.win.queue) <= 0 THEN 0 + 1
                                                             ELSE Len(c.win.queue)
  BY PeekWindow DEF Sound
<1>2. Len(c.win.queue) \in Nat /\ Len(c.win.queue) <= 1
  BY LenProperties DEF Sound, Window, Context
<1>3. Len(Peek(c.win, 0).queue) <= 1
  BY <1>1, <1>2
<1>4. c.win.lexed <= Peek(c.win, 0).lexed
  BY <1>2, SoundNumbers DEF Peek
<1>. QED
  BY <1>1, <1>3, <1>4, LexedOrdered DEF Looked

(* The report of expect_token() points at prev: it is in order if the      *)
(* parser has not looked ahead.                                            *)
LEMMA ExpectedOrdered ==
  ASSUME NEW c, Sound(c), Ordered(c), NEW type \in Whats,
         Cur(c) = type \/ c.win.lexed = c.win.current
  PROVE  Ordered(Expected(c, type))
<1>1. CASE Cur(c) = type
  BY <1>1, AdvancedOrdered DEF Expected
<1>2. CASE Cur(c) # type
  <2>1. c.win.prev \in 0 .. c.win.lexed /\ c.win.lexed <= c.win.prev + 1
    BY <1>2, SoundNumbers
  <2>. QED
    BY <1>2, <2>1, EmitOrdered DEF Expected
<1>. QED
  BY <1>1, <1>2

(* A function at which no caller waits for a token. *)
Idle(at, t) ==
  /\ at \notin {"binding", "if", "loop", "expr_stmt", "prefix", "param", "build", "infix"}
  /\ at = "block" => t # "LBRACE"
  /\ at = "return" => t # "RETURN"

(* fs replaces the top of s. *)
Over(fs, s) == fs \o Tail(s)

(* The elements of a stack whose top was replaced. *)
LEMMA OverSequence ==
  ASSUME NEW s, IsSeq(s), s # << >>, NEW T, NEW fs \in Seq(T), fs # << >>
  PROVE  /\ IsSeq(Over(fs, s))
         /\ Over(fs, s) # << >>
         /\ Len(Over(fs, s)) = Len(fs) + Len(s) - 1
         /\ Len(fs) \in Nat \ {0} /\ Len(s) \in Nat \ {0}
         /\ \A i \in 1 .. Len(fs) : Over(fs, s)[i] = fs[i]
         /\ \A i \in Len(fs) + 1 .. Len(Over(fs, s)) :
              Over(fs, s)[i] = s[i - Len(fs) + 1]
<1>. DEFINE r == fs \o Tail(s)
            S == {s[i] : i \in DOMAIN s}
            U == S \cup T
<1>0. s \in Seq(S)
  BY DEF IsSeq
<1>. HIDE DEF S
<1>1. /\ Tail(s) \in Seq(S) /\ Len(Tail(s)) = Len(s) - 1
      /\ \A i \in 1 .. Len(Tail(s)) : Tail(s)[i] = s[i + 1]
  BY <1>0, HeadTailProperties
<1>2. Len(fs) \in Nat \ {0} /\ Len(s) \in Nat \ {0}
  BY <1>0, EmptySeq, LenProperties
<1>3. Tail(s) \in Seq(U) /\ fs \in Seq(U)
  BY <1>1, SeqMonotonic
<1>4. /\ r \in Seq(U) /\ Len(r) = Len(fs) + Len(Tail(s))
      /\ \A i \in 1 .. Len(fs) + Len(Tail(s)) :
           r[i] = IF i <= Len(fs) THEN fs[i] ELSE Tail(s)[i - Len(fs)]
  BY <1>3, ConcatProperties
<1>. HIDE DEF r, U
<1>5. r # << >>
  BY <1>1, <1>2, <1>4, EmptySeq
<1>6. IsSeq(r)
  <2>1. Len(r) \in Nat /\ DOMAIN r = 1 .. Len(r) /\ r \in [1 .. Len(r) -> U]
    BY <1>4, LenProperties
  <2>2. r = [i \in 1 .. Len(r) |-> r[i]]
    BY <2>1
  <2>. QED
    BY <2>1, <2>2 DEF IsSeq
<1>7. \A i \in 1 .. Len(fs) : r[i] = fs[i]
  BY <1>1, <1>2, <1>4
<1>8. ASSUME NEW i \in Len(fs) + 1 .. Len(r)
      PROVE  r[i] = s[i - Len(fs) + 1]
  <2>1. i - Len(fs) \in 1 .. Len(Tail(s)) /\ i \in 1 .. Len(fs) + Len(Tail(s))
    BY <1>1, <1>2, <1>4
  <2>2. r[i] = Tail(s)[i - Len(fs)]
    BY <1>2, <1>4, <2>1
  <2>. QED
    BY <1>1, <2>1, <2>2
<1>. QED
  BY <1>1, <1>2, <1>4, <1>5, <1>6, <1>7, <1>8 DEF Over, r

(* The frames that replace a top of s. *)
Replaces(fs, s) ==
  \A i \in 1 .. Len(fs) :
    /\ IsFrame(fs[i])
    /\ i # 1 => fs[i].at \in Waiting
    /\ fs[i].at \in Bottom <=> i = Len(fs) /\ s[1].at \in Bottom

(* Replacing the top by sound frames leaves a stack of sound frames. *)
LEMMA OverFrames ==
  ASSUME NEW s, Frames(s), NEW T, NEW fs \in Seq(T), fs # << >>, Replaces(fs, s)
  PROVE  Frames(Over(fs, s))
<1>. DEFINE r == Over(fs, s)
            k == Len(fs)
            n == Len(s)
            m == Len(r)
<1>0. IsSeq(s) /\ s # << >>
  BY DEF Frames
<1>1. /\ IsSeq(r) /\ r # << >>
      /\ m = k + n - 1 /\ k \in Nat \ {0} /\ n \in Nat \ {0}
      /\ \A i \in 1 .. k : r[i] = fs[i]
      /\ \A i \in k + 1 .. m : r[i] = s[i - k + 1]
  BY <1>0, OverSequence
<1>2. s[1].at \in Bottom <=> 1 = n
  <2>1. 1 \in 1 .. n
    BY <1>1
  <2>. QED
    BY <2>1 DEF Frames
<1>. HIDE DEF r, k, m, n
<1>3. ASSUME NEW i \in 1 .. m
      PROVE  /\ IsFrame(r[i])
             /\ i # 1 => r[i].at \in Waiting
             /\ r[i].at \in Bottom <=> i = m
  <2>1. CASE i \in 1 .. k
    <3>1. i = k /\ n = 1 <=> i = m
      BY <1>1, <2>1
    <3>. QED
      BY <1>1, <1>2, <2>1, <3>1 DEF Replaces, k
  <2>2. CASE i \in k + 1 .. m
    <3>1. /\ i - k + 1 \in 1 .. n /\ i - k + 1 # 1 /\ i # 1
          /\ i - k + 1 = n <=> i = m
      BY <1>1, <2>2
    <3>. QED
      BY <1>1, <2>2, <3>1 DEF Frames, n
  <2>. QED
    BY <1>1, <2>1, <2>2
<1>. QED
  BY <1>1, <1>3 DEF Frames, r, m

(* A price never falls by more than a token pays. *)
LEMMA Prices ==
  ASSUME NEW at, NEW t
  PROVE  Base(at) \in -2 .. 3 /\ Bonus(at, t) \in 0 .. 2 /\ Price(at, t) \in Int
<1>1. Base(at) \in -2 .. 3
  BY DEF Base
<1>2. Bonus(at, t) \in 0 .. 2
  BY DEF Bonus
<1>. QED
  BY <1>1, <1>2 DEF Price

(* The step of the running function at consumed a token, or left the       *)
(* tokens alone where no caller waits for one.                             *)
Settled(at, n, t, m, u) ==
  \/ m > n
  \/ /\ m = n /\ u = t
     /\ \/ Idle(at, t)
        \/ at \in {"build", "infix", "expr_stmt"}
        \/ at = "prefix" /\ t \in Stuck

(* The callers are paid for after the step as they were before it. *)
LEMMA TailPaid ==
  ASSUME NEW s, Frames(s), NEW n \in Nat, NEW t, Paid(s, n, t),
         NEW m \in Nat, NEW u, Settled(s[1].at, n, t, m, u),
         NEW i \in 2 .. Len(s)
  PROVE  Len(s) + 1 - i <= 2 * m + Price(s[i].at, u)
<1>. DEFINE h == Len(s) + 1 - i
            at == s[i].at
<1>1. h \in Int /\ Len(s) \in Nat
  BY LenProperties DEF Frames, IsSeq
<1>2. /\ Base(at) \in -2 .. 3 /\ Bonus(at, t) \in 0 .. 2 /\ Bonus(at, u) \in 0 .. 2
      /\ Price(at, t) = Base(at) + Bonus(at, t)
      /\ Price(at, u) = Base(at) + Bonus(at, u)
  BY Prices DEF Price
<1>3. \/ h <= 2 * n + Price(at, t)
      \/ (Pending(s, i, t) /\ h <= 2 * n + Relief(at))
  BY <1>1 DEF Paid
<1>4. CASE m > n
  <2>. DEFINE b == Base(at)
              x == Bonus(at, t)
              y == Bonus(at, u)
              relief == Relief(at)
              owed == Pending(s, i, t)
              p == Price(at, t)
              q == Price(at, u)
  <2>1. /\ b \in Int /\ x \in 0 .. 2 /\ y \in 0 .. 2 /\ p = b + x /\ q = b + y
        /\ relief \in Int /\ (owed => relief <= b + 2)
        /\ h <= 2 * n + p \/ (owed /\ h <= 2 * n + relief)
    <3>1. owed => relief <= b + 2
      BY DEF Pending, Relief, Base
    <3>2. relief \in Int
      BY DEF Relief
    <3>. QED
      BY <1>2, <1>3, <3>1, <3>2
  <2>. HIDE DEF h, b, x, y, p, q, relief, owed
  <2>2. h <= 2 * m + q
    BY <1>1, <1>4, <2>1
  <2>. QED
    BY <2>2 DEF h, q
<1>5. CASE m = n /\ u = t /\ ~Pending(s, i, t)
  BY <1>3, <1>5
<1>6. CASE m = n /\ u = t /\ Pending(s, i, t) /\ ~(m > n)
  <2>1. s[1].at = "prefix" \/ s[1].at = "param"
    BY <1>6 DEF Pending
  <2>2. s[1].at = "prefix" /\ t \in Stuck
    BY <1>6, <2>1 DEF Settled, Idle
  <2>3. at \in {"if_then", "fn_body", "loop_block"}
    BY <1>6, <2>2 DEF Pending
  <2>4. Relief(at) = -1 /\ Price(at, t) = -1
    BY <2>2, <2>3 DEF Relief, Price, Base, Bonus, Stuck
  <2>. QED
    BY <1>3, <1>6, <2>4
<1>. QED
  BY <1>4, <1>5, <1>6 DEF Settled

(* A stack is paid for if the frames that replace its top are. *)
LEMMA OverPaid ==
  ASSUME NEW s, Frames(s), NEW n \in Nat, NEW t, Paid(s, n, t),
         NEW m \in Nat, NEW u, Settled(s[1].at, n, t, m, u),
         NEW T, NEW fs \in Seq(T), fs # << >>,
         \A i \in 1 .. Len(fs) :
           \/ Len(fs) - i + Len(s) <= 2 * m + Price(fs[i].at, u)
           \/ Pending(fs, i, u) /\ Len(fs) - i + Len(s) <= 2 * m + Relief(fs[i].at)
  PROVE  Paid(Over(fs, s), m, u)
<1>. DEFINE r == Over(fs, s)
            k == Len(fs)
            l == Len(r)
<1>0. IsSeq(s) /\ s # << >>
  BY DEF Frames
<1>1. /\ l = k + Len(s) - 1 /\ k \in Nat \ {0} /\ Len(s) \in Nat \ {0}
      /\ \A i \in 1 .. k : r[i] = fs[i]
      /\ \A i \in k + 1 .. l : r[i] = s[i - k + 1]
  BY <1>0, OverSequence
<1>2. \A i \in 2 .. Len(s) : Len(s) + 1 - i <= 2 * m + Price(s[i].at, u)
  BY TailPaid
<1>. HIDE DEF r, l
<1>3. ASSUME NEW i \in 1 .. l
      PROVE  \/ l + 1 - i <= 2 * m + Price(r[i].at, u)
             \/ Pending(r, i, u) /\ l + 1 - i <= 2 * m + Relief(r[i].at)
  <2>1. CASE i \in 1 .. k
    <3>1. r[i] = fs[i] /\ l + 1 - i = k - i + Len(s)
      BY <1>1, <2>1
    <3>2. Pending(fs, i, u) => Pending(r, i, u)
      BY <1>1, <2>1 DEF Pending
    <3>. QED
      BY <2>1, <3>1, <3>2
  <2>2. CASE i \in k + 1 .. l
    <3>1. /\ i - k + 1 \in 2 .. Len(s) /\ r[i] = s[i - k + 1]
          /\ l + 1 - i = Len(s) + 1 - (i - k + 1)
      BY <1>1, <2>2
    <3>. QED
      BY <1>2, <3>1
  <2>. QED
    BY <1>1, <2>1, <2>2
<1>. QED
  BY <1>3 DEF Paid, r, l

(* parse_expr_stmt() calls parse_expr_internal(): the wait for a token goes *)
(* on in the callee.                                                       *)
Opens(at, fs) ==
  /\ at = "expr_stmt" /\ Len(fs) = 3
  /\ fs[1].at = "prefix" /\ fs[2].at = "infix" /\ fs[3].at = "build"

(* The statements below the top have still begun. *)
LEMMA OverBegun ==
  ASSUME NEW s, Frames(s), NEW n \in Nat, NEW t, Begun(s, n, t),
         NEW T, NEW fs \in Seq(T), fs # << >>,
         NEW m \in Nat, NEW u,
         \/ m > n
         \/ m = n /\ u = t /\ (Idle(s[1].at, t) \/ Opens(s[1].at, fs)),
         Begun(fs, m, u)
  PROVE  Begun(Over(fs, s), m, u)
<1>. DEFINE r == Over(fs, s)
            k == Len(fs)
            l == Len(r)
<1>0. IsSeq(s) /\ s # << >>
  BY DEF Frames
<1>1. /\ l = k + Len(s) - 1 /\ k \in Nat \ {0} /\ Len(s) \in Nat \ {0}
      /\ \A i \in 1 .. k : r[i] = fs[i]
      /\ \A i \in k + 1 .. l : r[i] = s[i - k + 1]
  BY <1>0, OverSequence
<1>. HIDE DEF r, l
<1>2. ASSUME NEW i \in 1 .. k, r[i].at = "stmt_end"
      PROVE  /\ r[i].node.tok \in Nat
             /\ \/ r[i].node.tok < m
                \/ r[i].node.tok = m /\ u # "EOF" /\ Early(r, i, u)
  <2>1. r[i] = fs[i]
    BY <1>1
  <2>2. \A j \in 1 .. i : r[j] = fs[j]
    BY <1>1
  <2>3. /\ i = 2 => r[1] = fs[1]
        /\ i = 3 => r[1] = fs[1] /\ r[2] = fs[2]
        /\ i = 4 => r[1] = fs[1] /\ r[2] = fs[2] /\ r[3] = fs[3]
    BY <2>2
  <2>4. Early(fs, i, u) => Early(r, i, u)
    BY <2>3 DEF Early
  <2>. QED
    BY <1>2, <2>1, <2>4 DEF Begun
<1>3. ASSUME NEW i \in k + 1 .. l, r[i].at = "stmt_end"
      PROVE  /\ r[i].node.tok \in Nat
             /\ \/ r[i].node.tok < m
                \/ r[i].node.tok = m /\ u # "EOF" /\ Early(r, i, u)
  <2>. DEFINE j == i - k + 1
              tok == s[j].node.tok
  <2>1. j \in 2 .. Len(s) /\ j \in 1 .. Len(s) /\ r[i] = s[j]
    BY <1>1
  <2>. HIDE DEF j
  <2>2. tok \in Nat /\ (tok < n \/ (tok = n /\ t # "EOF" /\ Early(s, j, t)))
    BY <1>3, <2>1 DEF Begun
  <2>. HIDE DEF tok
  <2>3. CASE tok < n \/ m > n
    <3>1. tok < m
      <4>1. tok \in Nat /\ (tok < n \/ tok = n) /\ (m > n \/ m = n)
        BY <2>2
      <4>. QED
        BY <2>3, <4>1
    <3>. QED
      BY <2>1, <2>2, <3>1 DEF tok
  <2>4. CASE m = n /\ tok = n /\ ~(m > n)
    <3>1. t # "EOF" /\ Early(s, j, t) /\ j # 1
      BY <2>1, <2>2, <2>4
    <3>2. ~Idle(s[1].at, t)
      BY <3>1 DEF Early, Idle
    <3>3. u = t /\ Opens(s[1].at, fs)
      BY <2>4, <3>2
    <3>4. j = 2
      BY <3>1, <3>3 DEF Early, Opens
    <3>5. i = 4 /\ r[1] = fs[1] /\ r[2] = fs[2] /\ r[3] = fs[3]
      BY <1>1, <3>3, <3>4 DEF Opens, j
    <3>6. Early(r, i, u)
      BY <3>3, <3>5 DEF Early, Opens
    <3>. QED
      BY <2>1, <2>2, <2>4, <3>1, <3>3, <3>6 DEF tok
  <2>. QED
    BY <2>2, <2>3, <2>4
<1>4. \A i \in 1 .. l : i \in 1 .. k \/ i \in k + 1 .. l
  BY <1>1
<1>. QED
  BY <1>2, <1>3, <1>4 DEF Begun, r, l

(* A return appends a kid to the node of the caller. *)
Returned(s, node) ==
  << [Head(Tail(s)) EXCEPT !.node = Adopt(@, node)] >> \o Tail(Tail(s))

(* Appending a kid to the node of a frame. *)
LEMMA AdoptedFrame ==
  ASSUME NEW f, IsFrame(f), NEW node
  PROVE  LET g == [f EXCEPT !.node = Adopt(@, node)]
         IN  /\ IsFrame(g) /\ g.at = f.at
             /\ f.at = "stmt_end" => g.node.tok = f.node.tok
<1>. DEFINE g == [f EXCEPT !.node = Adopt(@, node)]
            v == Adopt(f.node, node)
<1>1. g = [at |-> f.at, node |-> v, min |-> f.min]
  <2>1. \A x : [f EXCEPT !.node = x] = [at |-> f.at, node |-> x, min |-> f.min]
    BY DEF IsFrame
  <2>. QED
    BY <2>1
<1>2. IsNode(f.node) => IsNode(v) /\ v.tok = f.node.tok
  <2>. SUFFICES ASSUME IsNode(f.node)
                PROVE  IsNode(v) /\ v.tok = f.node.tok
    OBVIOUS
  <2>1. \A x : [f.node EXCEPT !.kids = x] =
                 [type |-> f.node.type, tok |-> f.node.tok, kids |-> x,
                  is_const |-> f.node.is_const]
    BY DEF IsNode
  <2>2. v = [type |-> f.node.type, tok |-> f.node.tok,
             kids |-> Append(f.node.kids, node), is_const |-> f.node.is_const]
    BY <2>1 DEF Adopt
  <2>. QED
    BY <2>2 DEF IsNode
<1>. HIDE DEF v, g
<1>3. IsFrame(g) /\ g.at = f.at /\ (f.at = "stmt_end" => g.node.tok = f.node.tok)
  BY <1>1, <1>2 DEF IsFrame
<1>. QED
  BY <1>3 DEF g

(* The elements of a stack after a return. *)
LEMMA ReturnedSequence ==
  ASSUME NEW s, Frames(s), s[1].at \notin Bottom, NEW node
  PROVE  LET r == Returned(s, node)
         IN  /\ IsSeq(r) /\ r # << >>
             /\ Len(s) \in Nat /\ Len(s) >= 2 /\ Len(r) = Len(s) - 1
             /\ r[1] = [s[2] EXCEPT !.node = Adopt(@, node)]
             /\ \A i \in 2 .. Len(r) : r[i] = s[i + 1]
<1>. DEFINE S == {s[i] : i \in DOMAIN s}
            q == Tail(s)
            f == [Head(q) EXCEPT !.node = Adopt(@, node)]
            fs == << f >>
            F == {f}
            r == Over(fs, q)
<1>1. s \in Seq(S) /\ s # << >>
  BY DEF Frames, IsSeq
<1>2. Len(s) \in Nat \ {0}
  BY <1>1, EmptySeq, LenProperties
<1>3. Len(s) # 1
  <2>1. 1 \in 1 .. Len(s)
    BY <1>2
  <2>. QED
    BY <2>1 DEF Frames
<1>. HIDE DEF S
<1>4. /\ q \in Seq(S) /\ Len(q) = Len(s) - 1
      /\ \A i \in 1 .. Len(q) : q[i] = s[i + 1]
  BY <1>1, HeadTailProperties
<1>5. q # << >> /\ Head(q) = s[2] /\ Len(q) \in Nat
  <2>1. Len(q) \in Nat /\ Len(q) # 0
    BY <1>2, <1>3, <1>4
  <2>2. q # << >>
    BY <2>1, EmptySeq
  <2>3. Head(q) = q[1] /\ 1 \in 1 .. Len(q)
    BY <1>4, <2>1, <2>2, HeadTailProperties
  <2>. QED
    BY <1>4, <2>1, <2>2, <2>3
<1>6. IsSeq(q)
  <2>1. DOMAIN q = 1 .. Len(q) /\ q \in [1 .. Len(q) -> S]
    BY <1>4, LenProperties
  <2>2. q = [i \in 1 .. Len(q) |-> q[i]]
    BY <2>1
  <2>. HIDE DEF q
  <2>. QED
    BY <1>5, <2>1, <2>2 DEF IsSeq
<1>. HIDE DEF q, f
<1>7. fs \in Seq(F) /\ fs # << >> /\ Len(fs) = 1 /\ fs[1] = f
  OBVIOUS
<1>. HIDE DEF fs, F
<1>8. /\ IsSeq(r) /\ r # << >> /\ Len(r) = 1 + Len(q) - 1
      /\ \A i \in 1 .. 1 : r[i] = fs[i]
      /\ \A i \in 1 + 1 .. Len(r) : r[i] = q[i - 1 + 1]
  <2>1. /\ IsSeq(r) /\ r # << >>
        /\ Len(r) = Len(fs) + Len(q) - 1
        /\ \A i \in 1 .. Len(fs) : r[i] = fs[i]
        /\ \A i \in Len(fs) + 1 .. Len(r) : r[i] = q[i - Len(fs) + 1]
    <3>. HIDE DEF r
    <3>1. IsSeq(q) /\ q # << >> /\ fs \in Seq(F) /\ fs # << >>
      BY <1>5, <1>6, <1>7
    <3>2. \A x, y, T : IsSeq(x) /\ x # << >> /\ y \in Seq(T) /\ y # << >> =>
            /\ IsSeq(Over(y, x)) /\ Over(y, x) # << >>
            /\ Len(Over(y, x)) = Len(y) + Len(x) - 1
            /\ \A i \in 1 .. Len(y) : Over(y, x)[i] = y[i]
            /\ \A i \in Len(y) + 1 .. Len(Over(y, x)) :
                 Over(y, x)[i] = x[i - Len(y) + 1]
      BY OverSequence
    <3>3. r = Over(fs, q)
      BY DEF r
    <3>. QED
      BY <3>1, <3>2, <3>3
  <2>. HIDE DEF r
  <2>. QED
    BY <1>7, <2>1
<1>. HIDE DEF r
<1>9. Len(r) = Len(s) - 1 /\ r[1] = f
  BY <1>2, <1>4, <1>7, <1>8
<1>10. \A i \in 2 .. Len(r) : r[i] = s[i + 1]
  <2>. SUFFICES ASSUME NEW i \in 2 .. Len(r) PROVE r[i] = s[i + 1]
    OBVIOUS
  <2>1. i \in 1 + 1 .. Len(r) /\ i \in 1 .. Len(q) /\ i - 1 + 1 = i
    BY <1>2, <1>4, <1>9
  <2>2. r[i] = q[i - 1 + 1]
    BY <1>8, <2>1
  <2>. QED
    BY <1>4, <2>1, <2>2
<1>11. Returned(s, node) = r
  BY DEF Returned, r, fs, f, q, Over
<1>. QED
  BY <1>2, <1>3, <1>5, <1>8, <1>9, <1>10, <1>11 DEF f

(* A function returns, having consumed a token or where none is waited     *)
(* for.                                                                    *)
LEMMA ReturnedGood ==
  ASSUME NEW s, NEW c, NEW d, Sound(c), Sound(d), Good(s, c),
         s[1].at \notin Bottom, d.win.queue = << >>,
         s[1].at # "expr_stmt",
         Settled(s[1].at, c.win.current, Cur(c), d.win.current, Cur(d)),
         NEW node
  PROVE  Good(Returned(s, node), d)
<1>. DEFINE r == Returned(s, node)
            n == c.win.current
            m == d.win.current
            t == Cur(c)
            u == Cur(d)
            l == Len(r)
<1>1. /\ Frames(s) /\ Paid(s, n, t) /\ Begun(s, n, t)
      /\ n \in Nat /\ m \in Nat
  BY SoundNumbers DEF Good
<1>2. /\ IsSeq(r) /\ r # << >>
      /\ Len(s) \in Nat /\ Len(s) >= 2 /\ l = Len(s) - 1
      /\ r[1] = [s[2] EXCEPT !.node = Adopt(@, node)]
      /\ \A i \in 2 .. l : r[i] = s[i + 1]
  BY <1>1, ReturnedSequence
<1>3. /\ IsFrame(r[1]) /\ r[1].at = s[2].at
      /\ s[2].at = "stmt_end" => r[1].node.tok = s[2].node.tok
  <2>1. 2 \in 1 .. Len(s)
    BY <1>2
  <2>2. IsFrame(s[2])
    BY <1>1, <2>1 DEF Frames
  <2>. QED
    BY <1>2, <2>2, AdoptedFrame
<1>. HIDE DEF r, l, n, m, t, u
<1>4. ASSUME NEW i \in 1 .. l
      PROVE  /\ i + 1 \in 2 .. Len(s) /\ i + 1 \in 1 .. Len(s)
             /\ IsFrame(r[i]) /\ r[i].at = s[i + 1].at
             /\ s[i + 1].at = "stmt_end" => r[i].node.tok = s[i + 1].node.tok
  <2>1. i + 1 \in 2 .. Len(s) /\ i + 1 \in 1 .. Len(s)
    BY <1>2
  <2>2. CASE i = 1
    BY <1>3, <2>1, <2>2
  <2>3. CASE i # 1
    <3>1. r[i] = s[i + 1]
      BY <1>2, <2>3
    <3>2. IsFrame(s[i + 1])
      BY <1>1, <2>1 DEF Frames
    <3>. QED
      BY <2>1, <3>1, <3>2
  <2>. QED
    BY <2>2, <2>3
<1>5. Frames(r)
  <2>1. ASSUME NEW i \in 1 .. l
        PROVE  s[i + 1].at \in Waiting /\ (s[i + 1].at \in Bottom <=> i = l)
    <3>1. i + 1 # 1 /\ (i + 1 = Len(s) <=> i = l)
      BY <1>2
    <3>. QED
      BY <1>1, <1>4, <3>1 DEF Frames
  <2>. QED
    BY <1>2, <1>4, <2>1 DEF Frames, l
<1>6. Foresees(r[1], d)
  <2>1. s[2].at \in Waiting
    <3>1. 2 \in 1 .. Len(s) /\ 2 # 1
      BY <1>2
    <3>. QED
      BY <1>1, <3>1 DEF Frames
  <2>. QED
    BY <1>3, <2>1 DEF Foresees, Waiting
<1>7. Paid(r, m, u)
  <2>1. \A i \in 2 .. Len(s) : Len(s) + 1 - i <= 2 * m + Price(s[i].at, u)
    BY <1>1, TailPaid DEF n, m, t, u
  <2>2. ASSUME NEW i \in 1 .. l
        PROVE  l + 1 - i <= 2 * m + Price(r[i].at, u)
    <3>1. l + 1 - i = Len(s) + 1 - (i + 1)
      BY <1>2
    <3>. QED
      BY <1>4, <2>1, <3>1
  <2>. QED
    BY <2>2 DEF Paid, l
<1>8. ASSUME NEW i \in 1 .. l, r[i].at = "stmt_end"
      PROVE  /\ r[i].node.tok \in Nat
             /\ \/ r[i].node.tok < m
                \/ r[i].node.tok = m /\ u # "EOF" /\ Early(r, i, u)
  <2>. DEFINE tok == s[i + 1].node.tok
  <2>1. tok \in Nat /\ (tok < n \/ (tok = n /\ t # "EOF" /\ Early(s, i + 1, t)))
    BY <1>1, <1>4, <1>8 DEF Begun
  <2>2. r[i].node.tok = tok
    BY <1>4, <1>8
  <2>. HIDE DEF tok
  <2>3. CASE tok < n \/ m > n
    <3>1. tok < m
      <4>1. m > n \/ m = n
        BY DEF Settled, n, m
      <4>. QED
        BY <1>1, <2>1, <2>3, <4>1
    <3>. QED
      BY <2>1, <2>2, <3>1
  <2>4. CASE m = n /\ tok = n /\ ~(m > n)
    <3>1. t # "EOF" /\ Early(s, i + 1, t) /\ i # 0
      BY <1>1, <2>1, <2>4
    <3>2. /\ u = t
          /\ \/ Idle(s[1].at, t)
             \/ s[1].at \in {"build", "infix"}
             \/ s[1].at = "prefix" /\ t = "SEMICOLON"
      BY <2>4, <3>1 DEF Settled, Stuck, n, m, t, u
    <3>3. /\ i = 1 => s[1].at = "build"
          /\ i = 2 => s[1].at = "infix" /\ s[2].at = "build"
          /\ i = 3 => s[2].at = "infix" /\ s[3].at = "build"
          /\ i \in {1, 2, 3} /\ t = "SEMICOLON"
      BY <3>1, <3>2 DEF Early, Idle
    <3>4. /\ i = 2 => r[1].at = s[2].at
          /\ i = 3 => r[1].at = s[2].at /\ r[2].at = s[3].at
      BY <1>2, <1>3, <1>4, <3>3
    <3>5. Early(r, i, u)
      BY <3>2, <3>3, <3>4 DEF Early
    <3>. QED
      BY <2>1, <2>2, <2>4, <3>1, <3>2, <3>5
  <2>. QED
    BY <1>1, <2>1, <2>3, <2>4 DEF Settled, n, m
<1>9. Begun(r, m, u)
  BY <1>8 DEF Begun, l
<1>. QED
  BY <1>5, <1>6, <1>7, <1>9 DEF Good, r, m, u

(* A function goes on, alone or with callees. *)
LEMMA OverGood ==
  ASSUME NEW s, NEW c, NEW d, Sound(c), Sound(d), Good(s, c),
         NEW T, NEW fs \in Seq(T), fs # << >>, Replaces(fs, s),
         Foresees(fs[1], d),
         NEW n, n = c.win.current, NEW m, m = d.win.current,
         \/ m > n
         \/ m = n /\ (Idle(s[1].at, Cur(c)) \/ Opens(s[1].at, fs)),
         \A i \in 1 .. Len(fs) :
           \/ Len(fs) - i + Len(s) <= 2 * m + Price(fs[i].at, Cur(d))
           \/ /\ Pending(fs, i, Cur(d))
              /\ Len(fs) - i + Len(s) <= 2 * m + Relief(fs[i].at),
         Begun(fs, m, Cur(d))
  PROVE  Good(Over(fs, s), d)
<1>. DEFINE t == Cur(c)
            u == Cur(d)
            r == Over(fs, s)
<1>1. /\ Frames(s) /\ Paid(s, n, t) /\ Begun(s, n, t)
      /\ n \in Nat /\ m \in Nat
  BY SoundNumbers DEF Good
<1>2. m = n => u = t
  BY DEF Cur
<1>. HIDE DEF t, u, r
<1>3. Settled(s[1].at, n, t, m, u)
  BY <1>2 DEF Settled, Opens, t
<1>4. Frames(r)
  BY <1>1, OverFrames DEF r
<1>5. Paid(r, m, u)
  BY <1>1, <1>3, OverPaid DEF r, u
<1>6. Begun(r, m, u)
  <2>1. m > n \/ (m = n /\ u = t /\ (Idle(s[1].at, t) \/ Opens(s[1].at, fs)))
    BY <1>2 DEF t
  <2>. QED
    BY <1>1, <2>1, OverBegun DEF r, u
<1>7. r[1] = fs[1]
  <2>1. 1 \in 1 .. Len(fs)
    BY EmptySeq, LenProperties
  <2>. QED
    BY <1>1, <2>1, OverSequence DEF Frames, r
<1>. QED
  BY <1>4, <1>5, <1>6, <1>7 DEF Good, r, u

-----------------------------------------------------------------------------
(* The step of the running function at moved the context from c to d.      *)
Moved(at, c, d) ==
  \/ d.win.current > c.win.current
  \/ d.win.current = c.win.current /\ Idle(at, Cur(c))

(* Height h is paid for where the context is d. *)
Affords(d, at, h) == h <= 2 * d.win.current + Price(at, Cur(d))

(* A function goes on. *)
LEMMA ResumedGood ==
  ASSUME NEW s, NEW c, NEW d, Sound(c), Sound(d), Good(s, c),
         NEW f, IsFrame(f), f.at \in Bottom <=> s[1].at \in Bottom,
         f.at # "stmt_end", Foresees(f, d), Moved(s[1].at, c, d),
         \/ Affords(d, f.at, Len(s))
         \/ /\ f.at = "fn_params" /\ f.node.kids = << >>
            /\ Cur(d) \in {"ID", "RPAREN"} /\ Len(s) <= 2 * d.win.current + 1
  PROVE  Good(<< f >> \o Tail(s), d)
<1>. DEFINE fs == << f >>
            F == {f}
            n == c.win.current
            m == d.win.current
            l == Len(s)
<1>1. fs \in Seq(F) /\ fs # << >> /\ Len(fs) = 1 /\ fs[1] = f
  OBVIOUS
<1>2. n \in Nat /\ m \in Nat /\ l \in Nat
  BY SoundNumbers, LenProperties DEF Good, Frames, IsSeq
<1>3. Price(f.at, Cur(d)) \in Int
  BY Prices
<1>. HIDE DEF fs, F
<1>4. Replaces(fs, s)
  BY <1>1 DEF Replaces
<1>5. /\ n = c.win.current /\ m = d.win.current
      /\ m > n \/ (m = n /\ Idle(s[1].at, Cur(c)))
  BY DEF Moved
<1>6. \/ l <= 2 * m + Price(f.at, Cur(d))
      \/ Pending(fs, 1, Cur(d)) /\ l <= 2 * m + Relief(f.at)
  BY <1>1 DEF Affords, Pending, Relief
<1>7. ASSUME NEW i \in 1 .. Len(fs)
      PROVE  \/ Len(fs) - i + l <= 2 * m + Price(fs[i].at, Cur(d))
             \/ Pending(fs, i, Cur(d)) /\ Len(fs) - i + l <= 2 * m + Relief(fs[i].at)
  <2>. HIDE DEF l, m
  <2>1. i = 1 /\ Len(fs) - i + l = l
    BY <1>1, <1>2
  <2>. QED
    BY <1>1, <1>6, <2>1
<1>8. Begun(fs, m, Cur(d))
  BY <1>1 DEF Begun
<1>9. Foresees(fs[1], d)
  BY <1>1
<1>. HIDE DEF n, m, l
<1>10. Good(Over(fs, s), d)
  BY <1>1, <1>4, <1>5, <1>7, <1>8, <1>9, OverGood DEF l
<1>. QED
  BY <1>10 DEF Over, fs

(* A function calls another: g is the frame of the callee.                 *)
LEMMA PushedGood ==
  ASSUME NEW s, NEW c, NEW d, Sound(c), Sound(d), Good(s, c),
         NEW g, IsFrame(g), g.at \notin Bottom, g.at # "stmt_end",
         NEW f, IsFrame(f), f.at \in Waiting,
         f.at \in Bottom <=> s[1].at \in Bottom,
         Foresees(g, d), Moved(s[1].at, c, d),
         Affords(d, g.at, Len(s) + 1),
         \/ Affords(d, f.at, Len(s))
         \/ f.at = "fn_params" /\ g.at = "param" /\ Len(s) <= 2 * d.win.current + 1,
         f.at = "stmt_end" =>
           /\ f.node.tok = d.win.current /\ Cur(d) # "EOF"
           /\ \/ g.at \in {"binding", "if", "loop", "expr_stmt"}
              \/ g.at = "block" /\ Cur(d) = "LBRACE"
              \/ g.at = "return" /\ Cur(d) = "RETURN"
  PROVE  Good(<< g >> \o << f >> \o Tail(s), d)
<1>. DEFINE fs == << g, f >>
            F == {f, g}
            n == c.win.current
            m == d.win.current
            l == Len(s)
<1>1. fs \in Seq(F) /\ fs # << >> /\ Len(fs) = 2 /\ fs[1] = g /\ fs[2] = f
  OBVIOUS
<1>2. n \in Nat /\ m \in Nat /\ l \in Nat
  BY SoundNumbers, LenProperties DEF Good, Frames, IsSeq
<1>3. << g >> \o << f >> \o Tail(s) = fs \o Tail(s)
  OBVIOUS
<1>. HIDE DEF fs, F
<1>4. Replaces(fs, s)
  BY <1>1 DEF Replaces
<1>5. /\ n = c.win.current /\ m = d.win.current
      /\ m > n \/ (m = n /\ Idle(s[1].at, Cur(c)))
  BY DEF Moved
<1>6. /\ l + 1 <= 2 * m + Price(g.at, Cur(d))
      /\ \/ l <= 2 * m + Price(f.at, Cur(d))
         \/ Pending(fs, 2, Cur(d)) /\ l <= 2 * m + Relief(f.at)
  BY <1>1 DEF Affords, Pending, Relief
<1>7. ASSUME NEW i \in 1 .. Len(fs)
      PROVE  \/ Len(fs) - i + l <= 2 * m + Price(fs[i].at, Cur(d))
             \/ Pending(fs, i, Cur(d)) /\ Len(fs) - i + l <= 2 * m + Relief(fs[i].at)
  <2>. HIDE DEF l, m
  <2>1. (i = 1 /\ Len(fs) - i + l = l + 1) \/ (i = 2 /\ Len(fs) - i + l = l)
    BY <1>1, <1>2
  <2>. QED
    BY <1>1, <1>6, <2>1
<1>8. Begun(fs, m, Cur(d))
  BY <1>1, <1>2 DEF Begun, Early
<1>9. Foresees(fs[1], d)
  BY <1>1
<1>. HIDE DEF n, m, l
<1>10. Good(Over(fs, s), d)
  BY <1>1, <1>4, <1>5, <1>7, <1>8, <1>9, OverGood DEF l
<1>. QED
  BY <1>3, <1>10 DEF Over

(* A function calls parse_expr_internal(): f waits for the expression.     *)
LEMMA ExprGood ==
  ASSUME NEW s, NEW c, NEW d, Sound(c), Sound(d), Good(s, c),
         NEW f, IsFrame(f), f.at \in Waiting, f.at \notin Bottom,
         s[1].at \notin Bottom, f.at # "stmt_end",
         NEW min \in 0 .. 13,
         d.win.queue # << >> => Cur(d) = "ID",
         \/ Moved(s[1].at, c, d)
         \/ s[1].at = "expr_stmt" /\ f.at = "build" /\ d.win.current = c.win.current,
         Affords(d, "infix", Len(s) + 1),
         \/ Affords(d, f.at, Len(s))
         \/ /\ f.at \in {"if_then", "fn_body", "loop_block"}
            /\ Len(s) <= 2 * d.win.current - 1
  PROVE  Good(ExprCall(min) \o << f >> \o Tail(s), d)
<1>. DEFINE g == Frame("prefix", NULL)
            h == [Frame("infix", NULL) EXCEPT !.min = min]
            fs == << g, h, f >>
            F == {f, g, h}
            n == c.win.current
            m == d.win.current
            l == Len(s)
<1>1. /\ g.at = "prefix" /\ g.min = 0 /\ g = [at |-> g.at, node |-> g.node, min |-> g.min]
      /\ h.at = "infix" /\ h.min = min /\ h = [at |-> h.at, node |-> h.node, min |-> h.min]
  BY DEF Frame
<1>2. IsFrame(g) /\ IsFrame(h)
  BY <1>1 DEF IsFrame, Labels
<1>3. ExprCall(min) \o << f >> \o Tail(s) = fs \o Tail(s)
  BY DEF ExprCall
<1>. HIDE DEF g, h
<1>4. /\ fs \in Seq(F) /\ fs # << >> /\ Len(fs) = 3
      /\ fs[1] = g /\ fs[2] = h /\ fs[3] = f
  OBVIOUS
<1>. HIDE DEF fs, F
<1>5. n \in Nat /\ m \in Nat /\ l \in Nat
  BY SoundNumbers, LenProperties DEF Good, Frames, IsSeq
<1>6. Replaces(fs, s)
  BY <1>1, <1>2, <1>4 DEF Replaces, Waiting, Bottom
<1>7. /\ n = c.win.current /\ m = d.win.current
      /\ m > n \/ (m = n /\ (Idle(s[1].at, Cur(c)) \/ Opens(s[1].at, fs)))
  BY <1>1, <1>4 DEF Moved, Opens
<1>8. /\ l + 2 <= 2 * m + Price("prefix", Cur(d))
      /\ l + 1 <= 2 * m + Price("infix", Cur(d))
  <2>. DEFINE p == Price("prefix", Cur(d))
              q == Price("infix", Cur(d))
  <2>1. p = q + 1 /\ p \in Int /\ q \in Int
    <3>1. Base("prefix") = 3 /\ Base("infix") = 2
      BY DEF Base
    <3>2. Bonus("prefix", Cur(d)) = Bonus("infix", Cur(d))
      BY DEF Bonus
    <3>3. Bonus("infix", Cur(d)) \in Int
      BY Prices
    <3>. QED
      BY <3>1, <3>2, <3>3 DEF Price
  <2>2. l + 1 <= 2 * m + q
    BY DEF Affords
  <2>. HIDE DEF p, q, l, m
  <2>3. l + 2 <= 2 * m + p
    BY <1>5, <2>1, <2>2
  <2>. QED
    BY <2>2, <2>3 DEF p, q
<1>9. \/ l <= 2 * m + Price(f.at, Cur(d))
      \/ Pending(fs, 3, Cur(d)) /\ l <= 2 * m + Relief(f.at)
  <2>1. f.at \in {"if_then", "fn_body", "loop_block"} =>
          Pending(fs, 3, Cur(d)) /\ 2 * m + Relief(f.at) = 2 * m - 1
    BY <1>1, <1>4, <1>5 DEF Pending, Relief
  <2>. QED
    BY <2>1 DEF Affords
<1>10. ASSUME NEW i \in 1 .. Len(fs)
       PROVE  \/ Len(fs) - i + l <= 2 * m + Price(fs[i].at, Cur(d))
              \/ Pending(fs, i, Cur(d)) /\ Len(fs) - i + l <= 2 * m + Relief(fs[i].at)
  <2>. HIDE DEF l, m
  <2>1. \/ i = 1 /\ Len(fs) - i + l = l + 2
        \/ i = 2 /\ Len(fs) - i + l = l + 1
        \/ i = 3 /\ Len(fs) - i + l = l
    BY <1>4, <1>5
  <2>. QED
    BY <1>1, <1>4, <1>8, <1>9, <2>1
<1>11. Begun(fs, m, Cur(d))
  BY <1>1, <1>4 DEF Begun
<1>12. Foresees(fs[1], d)
  BY <1>1, <1>4 DEF Foresees
<1>. HIDE DEF n, m, l
<1>13. Good(Over(fs, s), d)
  BY <1>4, <1>6, <1>7, <1>10, <1>11, <1>12, OverGood DEF l
<1>. QED
  BY <1>3, <1>13 DEF Over

(* The prices, label by label. *)
Extra(t) == IF t \in Stuck THEN 1 ELSE 0

(* The prices by label. *)
LEMMA PriceList ==
  ASSUME NEW t
  PROVE  /\ Extra(t) \in {0, 1}
         /\ Price("prefix", t) = 3 + Extra(t)
         /\ Price("infix", t) = 2 + Extra(t)
         /\ Price("rhs", t) = 2
         /\ Price("param", t) = 2
         /\ Price("expr_stmt", t) = 1 + Extra(t)
         /\ Price("build", t) = 1 + Extra(t)
         /\ \A at \in {"start", "return", "binding", "binding_ann", "if", "loop",
                       "group", "call_args"} : Price(at, t) = 1
         /\ \A at \in {"stmt", "stmt_end"} : Price(at, t) = Extra(t)
         /\ \A at \in {"program", "done", "loop_var", "loop_cond", "fn_params"} :
              Price(at, t) = -1
         /\ Price("stmts", t) = -1 + Extra(t)
         /\ Price("block", t) = IF t = "LBRACE" THEN 1 ELSE -1 + Extra(t)
         /\ \A at \in {"if_then", "if_else", "fn_body", "loop_block"} :
              Price(at, t) = -2 + Extra(t)
<1>1. Price("block", t) = IF t = "LBRACE" THEN 1 ELSE -1 + Extra(t)
  BY DEF Price, Base, Bonus, Extra, Stuck
<1>. QED
  BY <1>1 DEF Price, Base, Bonus, Extra

-----------------------------------------------------------------------------
(* Frames and contexts that the steps make. *)
LEMMA NewFrame ==
  ASSUME NEW at \in Labels \ {"BUG"}, at # "stmt_end", NEW node
  PROVE  /\ IsFrame(Frame(at, node))
         /\ Frame(at, node).at = at /\ Frame(at, node).node = node
<1>1. /\ Frame(at, node).at = at /\ Frame(at, node).node = node
      /\ Frame(at, node).min = 0
      /\ Frame(at, node) = [at |-> at, node |-> node, min |-> 0]
  BY DEF Frame
<1>. QED
  BY <1>1 DEF IsFrame

(* f where it stands at another label, or builds another node. *)
Turned(f, at) == [f EXCEPT !.at = at]

Remade(f, at, node) == [f EXCEPT !.at = at, !.node = node]

(* Frames that the running function leaves for itself. *)
LEMMA TurnedFrame ==
  ASSUME NEW f, IsFrame(f), NEW at \in Labels \ {"BUG"}, at # "stmt_end"
  PROVE  /\ IsFrame(Turned(f, at)) /\ Turned(f, at).at = at
         /\ Turned(f, at) = [at |-> at, node |-> f.node, min |-> f.min]
<1>. DEFINE g == [f EXCEPT !.at = at]
<1>1. g = [at |-> at, node |-> f.node, min |-> f.min]
  BY DEF IsFrame
<1>. HIDE DEF g
<1>2. g.at = at /\ g.node = f.node /\ g.min = f.min
  BY <1>1
<1>3. IsFrame(g)
  BY <1>1, <1>2 DEF IsFrame
<1>. QED
  BY <1>1, <1>2, <1>3 DEF g, Turned

LEMMA RemadeFrame ==
  ASSUME NEW f, IsFrame(f), NEW at \in Labels \ {"BUG"}, at # "stmt_end", NEW node
  PROVE  IsFrame(Remade(f, at, node)) /\ Remade(f, at, node).at = at
<1>. DEFINE g == Turned(f, at)
            h == [g EXCEPT !.node = node]
<1>1. g = [at |-> at, node |-> f.node, min |-> f.min]
  BY TurnedFrame
<1>2. Remade(f, at, node) = h
  BY DEF Remade, Turned
<1>. HIDE DEF g
<1>3. h = [at |-> at, node |-> node, min |-> f.min]
  BY <1>1
<1>. HIDE DEF h
<1>4. h.at = at /\ h.node = node /\ h.min = f.min
  BY <1>3
<1>5. IsFrame(h)
  BY <1>3, <1>4 DEF IsFrame
<1>. QED
  BY <1>2, <1>4, <1>5

(* After advance() or expect_token() no token is looked ahead. *)
LEMMA AdvancedQuiet ==
  ASSUME NEW c, Sound(c)
  PROVE  /\ Sound(Advanced(c)) /\ Advanced(c).win.queue = << >>
         /\ Advanced(c).win.current = c.win.current + 1
  BY AdvancedMoves, SoundNumbers

LEMMA ExpectedQuiet ==
  ASSUME NEW c, Sound(c), c.win.queue = << >>, NEW type
  PROVE  /\ Sound(Expected(c, type)) /\ Expected(c, type).win.queue = << >>
         /\ IF Cur(c) = type
            THEN Expected(c, type).win.current = c.win.current + 1
            ELSE /\ Expected(c, type).win.current = c.win.current
                 /\ Cur(Expected(c, type)) = Cur(c)
<1>1. CASE Cur(c) = type
  BY <1>1, AdvancedQuiet DEF Expected
<1>2. CASE Cur(c) # type
  BY <1>2, ExpectedMoves DEF Cur
<1>. QED
  BY <1>1, <1>2

(* What is known when a function runs. *)
Parsing == Sound(ctx) /\ Good(stack, ctx)

(* What the invariant says of the running function. *)
LEMMA TopFacts ==
  ASSUME Parsing
  PROVE  /\ top = stack[1] /\ IsFrame(top) /\ Foresees(top, ctx)
         /\ ctx.win.current \in Nat /\ Len(stack) \in Nat
         /\ \/ Len(stack) <= 2 * ctx.win.current + Price(top.at, Cur(ctx))
            \/ /\ top.at = "fn_params" /\ top.node.kids = << >>
               /\ Cur(ctx) \in {"ID", "RPAREN"}
               /\ Len(stack) <= 2 * ctx.win.current + 1
         /\ top.at = "stmt_end" =>
              /\ top.node.tok \in Nat
              /\ \/ top.node.tok < ctx.win.current
                 \/ top.node.tok = ctx.win.current /\ Cur(ctx) = "SEMICOLON"
<1>1. /\ Frames(stack) /\ Foresees(stack[1], ctx)
      /\ Paid(stack, ctx.win.current, Cur(ctx))
      /\ Begun(stack, ctx.win.current, Cur(ctx))
  BY DEF Parsing, Good
<1>2. Len(stack) \in Nat /\ 1 \in 1 .. Len(stack)
  BY <1>1, EmptySeq, LenProperties DEF Frames, IsSeq
<1>3. top = stack[1]
  BY DEF top
<1>4. ctx.win.current \in Nat
  BY SoundNumbers DEF Parsing
<1>5. IsFrame(stack[1])
  BY <1>1, <1>2 DEF Frames
<1>6. \/ Len(stack) <= 2 * ctx.win.current + Price(stack[1].at, Cur(ctx))
      \/ /\ stack[1].at = "fn_params" /\ stack[1].node.kids = << >>
         /\ Cur(ctx) \in {"ID", "RPAREN"}
         /\ Len(stack) <= 2 * ctx.win.current + 1
  <2>1. Len(stack) + 1 - 1 = Len(stack)
    BY <1>2
  <2>2. Pending(stack, 1, Cur(ctx)) =>
          /\ stack[1].at = "fn_params" /\ stack[1].node.kids = << >>
          /\ Cur(ctx) \in {"ID", "RPAREN"} /\ Relief(stack[1].at) = 1
    BY DEF Pending, Relief
  <2>3. \/ Len(stack) + 1 - 1 <= 2 * ctx.win.current + Price(stack[1].at, Cur(ctx))
        \/ /\ Pending(stack, 1, Cur(ctx))
           /\ Len(stack) + 1 - 1 <= 2 * ctx.win.current + Relief(stack[1].at)
    BY <1>1, <1>2 DEF Paid
  <2>. QED
    BY <2>1, <2>2, <2>3
<1>7. stack[1].at = "stmt_end" =>
        /\ stack[1].node.tok \in Nat
        /\ \/ stack[1].node.tok < ctx.win.current
           \/ stack[1].node.tok = ctx.win.current /\ Cur(ctx) = "SEMICOLON"
  <2>1. Early(stack, 1, Cur(ctx)) => Cur(ctx) = "SEMICOLON"
    BY DEF Early
  <2>. QED
    BY <1>1, <1>2, <2>1 DEF Begun
<1>. QED
  BY <1>1, <1>2, <1>3, <1>4, <1>5, <1>6, <1>7

(* A frame that no token is looked ahead for. *)
LEMMA QuietForesees ==
  ASSUME NEW f, f.at \notin {"binding", "stmt"}, NEW c, c.win.queue = << >>
  PROVE  Foresees(f, c)
  BY DEF Foresees

(* parse_program() and parse_block(). *)
LEMMA ProgramGood ==
  ASSUME Parsing, Start \/ Program
  PROVE  Good(stack', ctx')
<1>1. /\ Sound(ctx) /\ Good(stack, ctx)
      /\ ctx.win.current \in Nat /\ Len(stack) \in Nat
      /\ top = stack[1] /\ IsFrame(top)
  BY TopFacts DEF Parsing
<1>2. CASE Start
  <2>. DEFINE d == Advanced(ctx)
              f == Turned(top, "program")
  <2>1. top.at = "start" /\ ctx' = d /\ stack' = << f >> \o Tail(stack)
    BY <1>2 DEF Start, At, Continue, Turned
  <2>2. Sound(d) /\ d.win.queue = << >> /\ d.win.current = ctx.win.current + 1
    BY <1>1, AdvancedQuiet
  <2>3. IsFrame(f) /\ f.at = "program"
    BY <1>1, TurnedFrame DEF Labels
  <2>. HIDE DEF d, f
  <2>4. Affords(d, f.at, Len(stack))
    <3>1. Len(stack) <= 2 * ctx.win.current + 1 /\ Price("program", Cur(d)) = -1
      BY <2>1, TopFacts, PriceList
    <3>. QED
      BY <1>1, <2>2, <2>3, <3>1 DEF Affords
  <2>5. Moved(stack[1].at, ctx, d)
    BY <1>1, <2>2 DEF Moved
  <2>6. f.at \in Bottom <=> stack[1].at \in Bottom
    BY <1>1, <2>1, <2>3 DEF Bottom
  <2>7. Foresees(f, d) /\ f.at # "stmt_end"
    BY <2>2, <2>3, QuietForesees
  <2>. QED
    BY <1>1, <2>1, <2>2, <2>3, <2>4, <2>5, <2>6, <2>7, ResumedGood
<1>3. CASE Program /\ Cur(ctx) = "EOF"
  <2>. DEFINE f == Turned(top, "done")
  <2>1. top.at = "program" /\ ctx' = ctx /\ stack' = << f >> \o Tail(stack)
    BY <1>3 DEF Program, At, Continue, Turned
  <2>2. ctx.win.queue = << >>
    BY <1>1, <1>3, TopFacts DEF Foresees
  <2>3. IsFrame(f) /\ f.at = "done"
    BY <1>1, TurnedFrame DEF Labels
  <2>. HIDE DEF f
  <2>4. Affords(ctx, f.at, Len(stack))
    BY <2>1, <2>3, TopFacts, PriceList DEF Affords
  <2>5. Moved(stack[1].at, ctx, ctx)
    BY <1>1, <2>1 DEF Moved, Idle
  <2>6. f.at \in Bottom <=> stack[1].at \in Bottom
    BY <1>1, <2>1, <2>3 DEF Bottom
  <2>7. Foresees(f, ctx) /\ f.at # "stmt_end"
    BY <2>2, <2>3, QuietForesees
  <2>. QED
    BY <1>1, <2>1, <2>3, <2>4, <2>5, <2>6, <2>7, ResumedGood
<1>4. CASE Program /\ Cur(ctx) # "EOF"
  <2>. DEFINE g == Frame("stmt", NULL)
  <2>1. top.at = "program" /\ ctx' = ctx
        /\ stack' = << g >> \o << top >> \o Tail(stack)
    BY <1>4 DEF Program, At, Continue, Call
  <2>2. ctx.win.queue = << >>
    BY <2>1, TopFacts DEF Foresees
  <2>3. IsFrame(g) /\ g.at = "stmt"
    BY NewFrame DEF Labels
  <2>. HIDE DEF g
  <2>4. Affords(ctx, g.at, Len(stack) + 1) /\ Affords(ctx, top.at, Len(stack))
    <3>1. /\ Len(stack) <= 2 * ctx.win.current - 1
          /\ Price("program", Cur(ctx)) = -1
          /\ Price("stmt", Cur(ctx)) \in {0, 1}
      BY <2>1, TopFacts, PriceList
    <3>. QED
      BY <1>1, <2>1, <2>3, <3>1 DEF Affords
  <2>5. Moved(stack[1].at, ctx, ctx)
    BY <1>1, <2>1 DEF Moved, Idle
  <2>6. g.at \notin Bottom /\ top.at \in Waiting
    BY <2>1, <2>3 DEF Bottom, Waiting
  <2>7. Foresees(g, ctx) /\ g.at # "stmt_end" /\ top.at # "stmt_end"
    BY <1>4, <2>1, <2>2, <2>3 DEF Foresees
  <2>. QED
    BY <1>1, <2>1, <2>3, <2>4, <2>5, <2>6, <2>7, PushedGood
<1>. QED
  BY <1>2, <1>3, <1>4

(* The frame of parse_stmt() that waits for the statement. *)
LEMMA StmtEndFrame ==
  ASSUME NEW n
  PROVE  LET f == Frame("stmt_end", Node("STMT", n, << >>))
         IN  IsFrame(f) /\ f.at = "stmt_end" /\ f.node.tok = n
<1>. DEFINE node == Node("STMT", n, << >>)
            f == Frame("stmt_end", node)
<1>1. node = [type |-> node.type, tok |-> node.tok, kids |-> node.kids,
              is_const |-> node.is_const] /\ node.tok = n
  BY DEF Node
<1>2. IsNode(node)
  BY <1>1 DEF IsNode
<1>. HIDE DEF node
<1>3. /\ f = [at |-> "stmt_end", node |-> node, min |-> 0]
      /\ f.at = "stmt_end" /\ f.node = node /\ f.min = 0
  BY DEF Frame
<1>. HIDE DEF f
<1>4. IsFrame(f)
  BY <1>2, <1>3 DEF IsFrame, Labels
<1>. QED
  BY <1>1, <1>3, <1>4 DEF f, node

(* peek() moves neither current nor prev. *)
LEMMA LookedStays ==
  ASSUME NEW c, Sound(c)
  PROVE  /\ Sound(Looked(c)) /\ Looked(c).win.current = c.win.current
         /\ Cur(Looked(c)) = Cur(c)
         /\ NextType(c) = TypeOf(c.win.current + 1)
  BY LookedMoves DEF Cur

(* parse_stmt(): where it leads. *)
LEMMA StmtGood ==
  ASSUME Parsing, Stmt
  PROVE  Good(stack', ctx')
<1>. DEFINE d == IF Cur(ctx) = "ID" THEN Looked(ctx) ELSE ctx
            at == IF Cur(ctx) \in DOMAIN stmt_vtable THEN stmt_vtable[Cur(ctx)]
                  ELSE IF Cur(ctx) = "ID" /\ is_binding_op(NextType(ctx))
                       THEN "binding" ELSE "expr_stmt"
            g == Frame(at, NULL)
            f == Frame("stmt_end", Node("STMT", ctx.win.current, << >>))
            n == ctx.win.current
            t == Cur(ctx)
<1>1. top.at = "stmt" /\ ctx' = d /\ stack' = << g >> \o << f >> \o Tail(stack)
  BY DEF Stmt, At, Continue, Call
<1>2. /\ Sound(ctx) /\ Good(stack, ctx) /\ top = stack[1]
      /\ n \in Nat /\ Len(stack) \in Nat
      /\ ctx.win.queue = << >> /\ t # "EOF" /\ Len(stack) <= 2 * n + Extra(t)
      /\ Extra(t) \in {0, 1}
  BY <1>1, TopFacts, PriceList DEF Parsing, Foresees
<1>3. Sound(d) /\ d.win.current = n /\ Cur(d) = t
  BY <1>2, LookedStays
<1>4. /\ \/ at = "return" /\ t = "RETURN"
         \/ at = "block" /\ t = "LBRACE"
         \/ at = "if" /\ t = "IF"
         \/ at = "loop" /\ t = "LOOP"
         \/ at = "binding" /\ t = "ID" /\ is_binding_op(TypeOf(n + 1))
         \/ at = "expr_stmt"
      /\ d.win.queue # << >> => t = "ID" /\ at \in {"binding", "expr_stmt"}
  BY <1>2, LookedStays DEF stmt_vtable
<1>5. at \in {"return", "block", "if", "loop", "binding", "expr_stmt"}
  BY <1>4
<1>. HIDE DEF at, d
<1>6. IsFrame(g) /\ g.at = at
  <2>1. at \in Labels \ {"BUG"} /\ at # "stmt_end"
    BY <1>5 DEF Labels
  <2>. QED
    BY <2>1, NewFrame
<1>7. IsFrame(f) /\ f.at = "stmt_end" /\ f.node.tok = n
  BY StmtEndFrame
<1>. HIDE DEF g, f, n, t
<1>8. Affords(d, g.at, Len(stack) + 1) /\ Affords(d, f.at, Len(stack))
  <2>1. /\ Price("stmt_end", t) = Extra(t)
        /\ Price(at, t) >= 1 + Extra(t)
    <3>1. /\ Price("return", t) = 1 /\ Price("if", t) = 1 /\ Price("loop", t) = 1
          /\ Price("binding", t) = 1 /\ Price("expr_stmt", t) = 1 + Extra(t)
          /\ t = "LBRACE" => Price("block", t) = 1
          /\ Price("stmt_end", t) = Extra(t)
      BY PriceList
    <3>2. t \in {"RETURN", "LBRACE", "IF", "LOOP", "ID"} => Extra(t) = 0
      BY DEF Extra, Stuck
    <3>. QED
      BY <1>2, <1>4, <3>1, <3>2
  <2>2. Price(at, t) \in Int
    BY Prices
  <2>3. Len(stack) + 1 <= 2 * n + Price(at, t)
    BY <1>2, <2>1, <2>2
  <2>. QED
    BY <1>2, <1>3, <1>6, <1>7, <2>1, <2>3 DEF Affords
<1>9. Foresees(g, d) /\ Moved(stack[1].at, ctx, d)
  BY <1>1, <1>2, <1>3, <1>4, <1>6 DEF Foresees, Moved, Idle, n
<1>10. /\ g.at \notin Bottom /\ g.at # "stmt_end"
       /\ f.at \in Waiting /\ f.at \notin Bottom /\ stack[1].at \notin Bottom
  BY <1>1, <1>2, <1>5, <1>6, <1>7 DEF Bottom, Waiting
<1>11. /\ f.node.tok = d.win.current /\ Cur(d) # "EOF"
       /\ \/ g.at \in {"binding", "if", "loop", "expr_stmt"}
          \/ g.at = "block" /\ Cur(d) = "LBRACE"
          \/ g.at = "return" /\ Cur(d) = "RETURN"
  BY <1>2, <1>3, <1>4, <1>6, <1>7
<1>. QED
  BY <1>1, <1>2, <1>3, <1>6, <1>7, <1>8, <1>9, <1>10, <1>11, PushedGood

(* Returning, where the callee may have read a token it expects. *)
LEMMA ExpectReturnGood ==
  ASSUME Parsing, NEW type, NEW node,
         top.at \in {"stmt_end", "group", "call_args", "stmts"},
         ctx' = Expected(ctx, type), stack' = Returned(stack, node)
  PROVE  Good(stack', ctx')
<1>. DEFINE d == Expected(ctx, type)
<1>1. /\ Sound(ctx) /\ Good(stack, ctx) /\ top = stack[1]
      /\ ctx.win.queue = << >> /\ ctx.win.current \in Nat
  BY TopFacts DEF Parsing, Foresees
<1>2. /\ Sound(d) /\ d.win.queue = << >>
      /\ \/ d.win.current = ctx.win.current + 1
         \/ d.win.current = ctx.win.current /\ Cur(d) = Cur(ctx)
  BY <1>1, ExpectedQuiet
<1>. HIDE DEF d
<1>3. Settled(stack[1].at, ctx.win.current, Cur(ctx), d.win.current, Cur(d))
  BY <1>1, <1>2 DEF Settled, Idle
<1>4. stack[1].at \notin Bottom /\ stack[1].at # "expr_stmt"
  BY <1>1 DEF Bottom
<1>5. Good(Returned(stack, node), d)
  BY <1>1, <1>2, <1>3, <1>4, ReturnedGood
<1>. QED
  BY <1>5 DEF d

(* The end of parse_stmt(). *)
LEMMA StmtEndGood ==
  ASSUME Parsing, StmtEnd
  PROVE  Good(stack', ctx')
<1>1. /\ top.at = "stmt_end" /\ ctx' = Expected(ctx, "SEMICOLON")
      /\ stack' = Returned(stack, Head(top.node.kids))
  BY DEF StmtEnd, At, Return, Returned
<1>. QED
  BY <1>1, ExpectReturnGood

(* The ")" of a group. *)
LEMMA GroupEndGood ==
  ASSUME Parsing, GroupEnd
  PROVE  Good(stack', ctx')
<1>1. /\ top.at = "group" /\ ctx' = Expected(ctx, "RPAREN")
      /\ stack' = Returned(stack, Head(top.node.kids))
  BY DEF GroupEnd, At, Return, Returned
<1>. QED
  BY <1>1, ExpectReturnGood

(* Returning without reading a token. *)
LEMMA PlainReturnGood ==
  ASSUME Parsing, NEW node, top.at \in {"build", "infix", "if_else"},
         ctx' = ctx, stack' = Returned(stack, node)
  PROVE  Good(stack', ctx')
<1>1. /\ Sound(ctx) /\ Good(stack, ctx) /\ top = stack[1]
      /\ ctx.win.queue = << >> /\ ctx.win.current \in Nat
  BY TopFacts DEF Parsing, Foresees
<1>2. Settled(stack[1].at, ctx.win.current, Cur(ctx), ctx.win.current, Cur(ctx))
  BY <1>1 DEF Settled, Idle
<1>3. stack[1].at \notin Bottom /\ stack[1].at # "expr_stmt"
  BY <1>1 DEF Bottom
<1>. QED
  BY <1>1, <1>2, <1>3, ReturnedGood

(* Every function that only returns its node. *)
LEMMA BuildGood ==
  ASSUME Parsing, Build
  PROVE  Good(stack', ctx')
<1>1. top.at = "build" /\ ctx' = ctx /\ stack' = Returned(stack, top.node)
  BY DEF Build, At, Return, Returned
<1>. QED
  BY <1>1, PlainReturnGood

(* parse_block() *)
LEMMA BlockGood ==
  ASSUME Parsing, Block
  PROVE  Good(stack', ctx')
<1>. DEFINE d == Expected(ctx, "LBRACE")
            f == Frame("stmts", Node("BLOCK", ctx.win.current, << >>))
            n == ctx.win.current
<1>1. top.at = "block" /\ ctx' = d /\ stack' = << f >> \o Tail(stack)
  BY DEF Block, At, Continue
<1>2. /\ Sound(ctx) /\ Good(stack, ctx) /\ top = stack[1]
      /\ ctx.win.queue = << >> /\ n \in Nat /\ Len(stack) \in Nat
      /\ Len(stack) <= 2 * n + Price("block", Cur(ctx))
  BY <1>1, TopFacts DEF Parsing, Foresees
<1>3. /\ Sound(d) /\ d.win.queue = << >>
      /\ IF Cur(ctx) = "LBRACE" THEN d.win.current = n + 1
         ELSE d.win.current = n /\ Cur(d) = Cur(ctx)
  BY <1>2, ExpectedQuiet
<1>4. IsFrame(f) /\ f.at = "stmts"
  BY NewFrame DEF Labels
<1>. HIDE DEF d, f
<1>5. Affords(d, f.at, Len(stack))
  <2>1. /\ Price("stmts", Cur(d)) = -1 + Extra(Cur(d)) /\ Extra(Cur(d)) \in {0, 1}
        /\ Extra(Cur(ctx)) \in {0, 1}
        /\ Price("block", Cur(ctx)) = IF Cur(ctx) = "LBRACE" THEN 1
                                      ELSE -1 + Extra(Cur(ctx))
    BY PriceList
  <2>. HIDE DEF n
  <2>2. Len(stack) <= 2 * d.win.current + Price("stmts", Cur(d))
    BY <1>2, <1>3, <2>1
  <2>. QED
    BY <1>4, <2>2 DEF Affords
<1>6. Moved(stack[1].at, ctx, d)
  <2>1. CASE Cur(ctx) = "LBRACE"
    BY <1>2, <1>3, <2>1 DEF Moved
  <2>2. CASE Cur(ctx) # "LBRACE"
    BY <1>1, <1>2, <1>3, <2>2 DEF Moved, Idle
  <2>. QED
    BY <2>1, <2>2
<1>7. f.at \in Bottom <=> stack[1].at \in Bottom
  BY <1>1, <1>2, <1>4 DEF Bottom
<1>8. Foresees(f, d) /\ f.at # "stmt_end"
  BY <1>3, <1>4, QuietForesees
<1>. QED
  BY <1>1, <1>2, <1>3, <1>4, <1>5, <1>6, <1>7, <1>8, ResumedGood

(* The loop of parse_block(). *)
LEMMA BlockStmtsGood ==
  ASSUME Parsing, BlockStmts
  PROVE  Good(stack', ctx')
<1>1. top.at = "stmts"
  BY DEF BlockStmts, At
<1>2. CASE Cur(ctx) \notin {"RBRACE", "EOF"}
  <2>. DEFINE g == Frame("stmt", NULL)
              n == ctx.win.current
  <2>1. ctx' = ctx /\ stack' = << g >> \o << top >> \o Tail(stack)
    BY <1>2 DEF BlockStmts, Continue, Call
  <2>2. /\ Sound(ctx) /\ Good(stack, ctx) /\ top = stack[1] /\ IsFrame(top)
        /\ ctx.win.queue = << >> /\ n \in Nat /\ Len(stack) \in Nat
        /\ Len(stack) <= 2 * n + Price("stmts", Cur(ctx))
    BY <1>1, TopFacts DEF Parsing, Foresees
  <2>3. IsFrame(g) /\ g.at = "stmt"
    BY NewFrame DEF Labels
  <2>. HIDE DEF g
  <2>4. Affords(ctx, g.at, Len(stack) + 1) /\ Affords(ctx, top.at, Len(stack))
    <3>1. /\ Price("stmts", Cur(ctx)) = -1 + Extra(Cur(ctx))
          /\ Price("stmt", Cur(ctx)) = Extra(Cur(ctx))
          /\ Extra(Cur(ctx)) \in {0, 1}
      BY PriceList
    <3>2. Len(stack) + 1 <= 2 * n + Price("stmt", Cur(ctx))
      BY <2>2, <3>1
    <3>. QED
      BY <1>1, <2>2, <2>3, <3>2 DEF Affords
  <2>5. Moved(stack[1].at, ctx, ctx)
    BY <1>1, <2>2 DEF Moved, Idle
  <2>6. /\ g.at \notin Bottom /\ top.at \in Waiting
        /\ top.at \in Bottom <=> stack[1].at \in Bottom
    BY <1>1, <2>2, <2>3 DEF Bottom, Waiting
  <2>7. Foresees(g, ctx) /\ g.at # "stmt_end" /\ top.at # "stmt_end"
    BY <1>1, <1>2, <2>2, <2>3 DEF Foresees
  <2>. QED
    BY <2>1, <2>2, <2>3, <2>4, <2>5, <2>6, <2>7, PushedGood
<1>3. CASE Cur(ctx) \in {"RBRACE", "EOF"}
  <2>1. ctx' = Expected(ctx, "RBRACE") /\ stack' = Returned(stack, top.node)
    BY <1>3 DEF BlockStmts, Return, Returned
  <2>. QED
    BY <1>1, <2>1, ExpectReturnGood
<1>. QED
  BY <1>2, <1>3

-----------------------------------------------------------------------------
(* The calls of parse_expr_internal(), from where the stack has room. *)
LEMMA ExprRoomGood ==
  ASSUME Parsing, NEW d, Sound(d), NEW f, IsFrame(f), NEW min \in 0 .. 13,
         f.at \in {"build", "binding_ann", "group", "call_args", "rhs"},
         top.at \notin Bottom, d.win.queue # << >> => Cur(d) = "ID",
         \/ Moved(top.at, ctx, d)
         \/ top.at = "expr_stmt" /\ f.at = "build" /\ d.win.current = ctx.win.current,
         \/ Len(stack) <= 2 * d.win.current + 1
         \/ f.at = "build" /\ Len(stack) <= 2 * d.win.current + 1 + Extra(Cur(d)),
         ctx' = d, stack' = ExprCall(min) \o << f >> \o Tail(stack)
  PROVE  Good(stack', ctx')
<1>. DEFINE m == d.win.current
            l == Len(stack)
            x == Extra(Cur(d))
            p == Price(f.at, Cur(d))
            q == Price("infix", Cur(d))
<1>1. /\ Sound(ctx) /\ Good(stack, ctx) /\ top = stack[1] /\ l \in Nat /\ m \in Nat
  BY TopFacts, SoundNumbers DEF Parsing
<1>2. /\ f.at \in Waiting /\ f.at \notin Bottom /\ f.at # "stmt_end"
  BY DEF Bottom, Waiting
<1>3. /\ x \in {0, 1} /\ q = 2 + x /\ p >= 1 /\ (f.at = "build" => p = 1 + x)
      /\ p \in Int
  <2>1. /\ x \in {0, 1} /\ q = 2 + x
        /\ Price("build", Cur(d)) = 1 + x /\ Price("binding_ann", Cur(d)) = 1
        /\ Price("group", Cur(d)) = 1 /\ Price("call_args", Cur(d)) = 1
        /\ Price("rhs", Cur(d)) = 2
    BY PriceList
  <2>. QED
    BY <2>1, Prices
<1>4. l <= 2 * m + 1 \/ (f.at = "build" /\ l <= 2 * m + 1 + x)
  OBVIOUS
<1>. HIDE DEF m, l, x, p, q
<1>5. l + 1 <= 2 * m + q /\ l <= 2 * m + p
  BY <1>1, <1>3, <1>4
<1>6. Affords(d, "infix", Len(stack) + 1) /\ Affords(d, f.at, Len(stack))
  BY <1>5 DEF Affords, m, l, p, q
<1>. QED
  BY <1>1, <1>2, <1>6, ExprGood

(* The calls of an expression that is followed by a block. *)
LEMMA ExprBlockGood ==
  ASSUME Parsing, NEW d, Sound(d), NEW f, IsFrame(f),
         f.at \in {"if_then", "fn_body", "loop_block"},
         top.at \notin Bottom, d.win.queue # << >> => Cur(d) = "ID",
         Moved(top.at, ctx, d), Len(stack) <= 2 * d.win.current - 1,
         ctx' = d, stack' = ExprCall(0) \o << f >> \o Tail(stack)
  PROVE  Good(stack', ctx')
<1>. DEFINE m == d.win.current
            l == Len(stack)
            x == Extra(Cur(d))
<1>1. /\ Sound(ctx) /\ Good(stack, ctx) /\ top = stack[1] /\ l \in Nat /\ m \in Nat
  BY TopFacts, SoundNumbers DEF Parsing
<1>2. /\ f.at \in Waiting /\ f.at \notin Bottom /\ f.at # "stmt_end"
  BY DEF Bottom, Waiting
<1>3. /\ x \in {0, 1} /\ Price("infix", Cur(d)) = 2 + x /\ l <= 2 * m - 1
  BY PriceList
<1>. HIDE DEF m, l, x
<1>4. l + 1 <= 2 * m + Price("infix", Cur(d))
  BY <1>1, <1>3
<1>5. Affords(d, "infix", Len(stack) + 1)
  BY <1>4 DEF Affords, m, l
<1>6. 0 \in 0 .. 13
  OBVIOUS
<1>. QED
  BY <1>1, <1>2, <1>5, <1>6, ExprGood

(* What f costs, and where it stands. *)
LEMMA TopRoom ==
  ASSUME Parsing, top.at # "fn_params"
  PROVE  /\ Sound(ctx) /\ Good(stack, ctx) /\ top = stack[1] /\ IsFrame(top)
         /\ ctx.win.current \in Nat /\ Len(stack) \in Nat
         /\ Price(top.at, Cur(ctx)) \in Int
         /\ Len(stack) <= 2 * ctx.win.current + Price(top.at, Cur(ctx))
  BY TopFacts, Prices DEF Parsing

(* parse_return() *)
LEMMA ReturnStmtGood ==
  ASSUME Parsing, ReturnStmt
  PROVE  Good(stack', ctx')
<1>. DEFINE d == Expected(ctx, "RETURN")
            node == Node("RETURN", ctx.win.current, << >>)
            f == Frame("build", node)
<1>1. /\ top.at = "return" /\ ctx' = d
      /\ IF Cur(d) = "SEMICOLON" THEN stack' = Returned(stack, Adopt(node, NULL))
         ELSE stack' = ExprCall(0) \o << f >> \o Tail(stack)
  BY DEF ReturnStmt, At, Continue, Return, Returned
<1>2. Price("return", Cur(ctx)) = 1
  BY PriceList
<1>3. /\ Sound(ctx) /\ Good(stack, ctx) /\ top = stack[1] /\ ctx.win.queue = << >>
      /\ ctx.win.current \in Nat /\ Len(stack) \in Nat
      /\ Len(stack) <= 2 * ctx.win.current + 1
  BY <1>1, <1>2, TopRoom, TopFacts DEF Foresees
<1>4. /\ Sound(d) /\ d.win.queue = << >>
      /\ IF Cur(ctx) = "RETURN" THEN d.win.current = ctx.win.current + 1
         ELSE d.win.current = ctx.win.current /\ Cur(d) = Cur(ctx)
  BY <1>3, ExpectedQuiet
<1>5. IsFrame(f) /\ f.at = "build"
  BY NewFrame DEF Labels
<1>. HIDE DEF d, f, node
<1>6. \/ d.win.current > ctx.win.current
      \/ d.win.current = ctx.win.current /\ Cur(d) = Cur(ctx) /\ Idle(top.at, Cur(ctx))
  BY <1>1, <1>3, <1>4 DEF Idle
<1>7. Moved(top.at, ctx, d) /\ top.at \notin Bottom
  BY <1>1, <1>6 DEF Moved, Bottom
<1>8. Len(stack) <= 2 * d.win.current + 1
  BY <1>3, <1>4
<1>9. 0 \in 0 .. 13
  OBVIOUS
<1>10. CASE Cur(d) = "SEMICOLON"
  <2>1. Settled(stack[1].at, ctx.win.current, Cur(ctx), d.win.current, Cur(d))
    BY <1>3, <1>6 DEF Settled
  <2>2. stack[1].at \notin Bottom /\ stack[1].at # "expr_stmt"
    BY <1>1, <1>3, <1>7
  <2>3. Good(Returned(stack, Adopt(node, NULL)), d)
    BY <1>3, <1>4, <2>1, <2>2, ReturnedGood
  <2>. QED
    BY <1>1, <1>10, <2>3
<1>11. CASE Cur(d) # "SEMICOLON"
  <2>1. ctx' = d /\ stack' = ExprCall(0) \o << f >> \o Tail(stack)
    BY <1>1, <1>11
  <2>. QED
    BY <1>4, <1>5, <1>7, <1>8, <1>9, <2>1, ExprRoomGood
<1>. QED
  BY <1>10, <1>11

(* parse_binding() *)
LEMMA BindingGood ==
  ASSUME Parsing, Binding
  PROVE  Good(stack', ctx')
<1>. DEFINE c == Advanced(ctx)
            d == Advanced(c)
            op == TypeOf(d.win.prev)
            node == Node("BINDING", ctx.win.current, << >>)
            f == CASE op = "COLON"  -> Frame("binding_ann", node)
                   [] op = "DECL"   -> Frame("build",
                                         Adopt([node EXCEPT !.is_const = TRUE], NULL))
                   [] op = "WALRUS" -> Frame("build", Adopt(node, NULL))
                   [] OTHER         -> Frame("BUG", node)
<1>1. /\ top.at = "binding" /\ ctx' = d
      /\ stack' = (IF is_binding_op(op) THEN ExprCall(0) ELSE << >>)
                    \o << f >> \o Tail(stack)
  BY DEF Binding, At, Continue
<1>2. Price("binding", Cur(ctx)) = 1
  BY PriceList
<1>3. /\ Sound(ctx) /\ top = stack[1]
      /\ ctx.win.current \in Nat /\ Len(stack) \in Nat
      /\ Len(stack) <= 2 * ctx.win.current + 1
      /\ is_binding_op(TypeOf(ctx.win.current + 1))
  BY <1>1, <1>2, TopRoom, TopFacts DEF Foresees
<1>4. Sound(c) /\ c.win.current = ctx.win.current + 1
  BY <1>3, AdvancedQuiet
<1>. HIDE DEF c
<1>5. /\ Sound(d) /\ d.win.queue = << >> /\ d.win.current = ctx.win.current + 2
      /\ d.win.prev = ctx.win.current + 1
  <2>1. /\ Sound(d) /\ d.win.queue = << >> /\ d.win.current = c.win.current + 1
        /\ d.win.prev = IF c.win.current = 0 THEN 1 ELSE c.win.current
    BY <1>4, AdvancedMoves, AdvancedQuiet
  <2>. HIDE DEF d
  <2>. QED
    BY <1>3, <1>4, <2>1
<1>. HIDE DEF d
<1>6. op \in {"COLON", "DECL", "WALRUS"}
  BY <1>3, <1>5 DEF is_binding_op
<1>7. IsFrame(f) /\ f.at \in {"binding_ann", "build"}
  <2>. HIDE DEF op
  <2>1. \A v : /\ IsFrame(Frame("binding_ann", v)) /\ IsFrame(Frame("build", v))
               /\ Frame("binding_ann", v).at = "binding_ann"
               /\ Frame("build", v).at = "build"
    BY NewFrame DEF Labels
  <2>. QED
    BY <1>6, <2>1
<1>. HIDE DEF f
<1>8. stack' = ExprCall(0) \o << f >> \o Tail(stack)
  BY <1>1, <1>6 DEF is_binding_op
<1>9. Moved(top.at, ctx, d) /\ top.at \notin Bottom
  BY <1>1, <1>3, <1>5 DEF Moved, Bottom
<1>10. Len(stack) <= 2 * d.win.current + 1 /\ 0 \in 0 .. 13
  BY <1>3, <1>5
<1>. QED
  BY <1>1, <1>5, <1>7, <1>8, <1>9, <1>10, ExprRoomGood

(* parse_binding(), after "name :". *)
LEMMA BindingAnnGood ==
  ASSUME Parsing, BindingAnn
  PROVE  Good(stack', ctx')
<1>. DEFINE d == IF Cur(ctx) = "COLON" THEN Advanced(ctx) ELSE Expected(ctx, "EQUAL")
            f == Frame("build", [top.node EXCEPT !.is_const = (Cur(ctx) = "COLON")])
<1>1. /\ top.at = "binding_ann" /\ ctx' = d
      /\ stack' = ExprCall(0) \o << f >> \o Tail(stack)
  BY DEF BindingAnn, At, Continue
<1>2. Price("binding_ann", Cur(ctx)) = 1
  BY PriceList
<1>3. /\ Sound(ctx) /\ ctx.win.queue = << >>
      /\ ctx.win.current \in Nat /\ Len(stack) \in Nat
      /\ Len(stack) <= 2 * ctx.win.current + 1
  BY <1>1, <1>2, TopRoom, TopFacts DEF Foresees
<1>4. /\ Sound(d) /\ d.win.queue = << >>
      /\ d.win.current \in {ctx.win.current, ctx.win.current + 1}
  BY <1>3, ExpectedQuiet, AdvancedQuiet
<1>5. IsFrame(f) /\ f.at = "build"
  BY NewFrame DEF Labels
<1>. HIDE DEF d, f
<1>6. Moved(top.at, ctx, d) /\ top.at \notin Bottom
  BY <1>1, <1>3, <1>4 DEF Moved, Bottom, Idle
<1>7. Len(stack) <= 2 * d.win.current + 1 /\ 0 \in 0 .. 13
  BY <1>3, <1>4
<1>. QED
  BY <1>1, <1>4, <1>5, <1>6, <1>7, ExprRoomGood

(* parse_expr_stmt() *)
LEMMA ExprStmtGood ==
  ASSUME Parsing, ExprStmt
  PROVE  Good(stack', ctx')
<1>. DEFINE f == Frame("build", Node("EXPR_STMT", ctx.win.current, << >>))
<1>1. /\ top.at = "expr_stmt" /\ ctx' = ctx
      /\ stack' = ExprCall(0) \o << f >> \o Tail(stack)
  BY DEF ExprStmt, At, Continue
<1>2. Price("expr_stmt", Cur(ctx)) = 1 + Extra(Cur(ctx)) /\ Extra(Cur(ctx)) \in {0, 1}
  BY PriceList
<1>3. /\ Sound(ctx) /\ (ctx.win.queue # << >> => Cur(ctx) = "ID")
      /\ ctx.win.current \in Nat /\ Len(stack) \in Nat
      /\ Len(stack) <= 2 * ctx.win.current + 1 + Extra(Cur(ctx))
  BY <1>1, <1>2, TopRoom, TopFacts DEF Foresees
<1>4. IsFrame(f) /\ f.at = "build"
  BY NewFrame DEF Labels
<1>. HIDE DEF f
<1>5. top.at \notin Bottom /\ 0 \in 0 .. 13
  BY <1>1 DEF Bottom
<1>. QED
  BY <1>1, <1>3, <1>4, <1>5, ExprRoomGood

(* After one advance() there is room for an expression. *)
LEMMA AdvancedRoom ==
  ASSUME Parsing, top.at # "fn_params"
  PROVE  LET d == Advanced(ctx)
         IN  /\ Sound(d) /\ d.win.queue = << >>
             /\ d.win.current = ctx.win.current + 1
             /\ d.win.current > ctx.win.current
             /\ Moved(top.at, ctx, d)
             /\ Cur(ctx) \notin Stuck => Len(stack) <= 2 * d.win.current + 1
<1>. DEFINE d == Advanced(ctx)
            n == ctx.win.current
            t == Cur(ctx)
            p == Price(top.at, t)
<1>1. Sound(ctx) /\ n \in Nat /\ Len(stack) \in Nat /\ p \in Int
      /\ Len(stack) <= 2 * n + p
  BY TopRoom
<1>2. Sound(d) /\ d.win.queue = << >> /\ d.win.current = n + 1
  BY <1>1, AdvancedQuiet
<1>3. t \notin Stuck => p <= 3
  <2>1. Base(top.at) \in -2 .. 3
    BY Prices
  <2>2. ASSUME t \notin Stuck PROVE Bonus(top.at, t) \in {0, 2}
                                    /\ (Bonus(top.at, t) = 2 => Base(top.at) = -1)
    BY <2>2 DEF Bonus, Base
  <2>. QED
    BY <2>1, <2>2 DEF Price
<1>. HIDE DEF d, n, p
<1>4. d.win.current > n /\ (t \notin Stuck => Len(stack) <= 2 * d.win.current + 1)
  BY <1>1, <1>2, <1>3
<1>. QED
  BY <1>2, <1>4 DEF Moved, n, d

(* A function returns a node after it consumed the token. *)
LEMMA LiteralGood ==
  ASSUME Parsing, Literal
  PROVE  Good(stack', ctx')
<1>. DEFINE d == Advanced(ctx)
            kind == CASE Cur(ctx) = "ID" -> "ID"
                      [] Cur(ctx) \in {"NUMBER", "HEX", "OCTAL", "BINARY"} -> "NUMBER"
                      [] Cur(ctx) \in {"TRUE", "FALSE"} -> "BOOL"
                      [] OTHER -> "NULL"
            node == Node(kind, ctx.win.current, << >>)
<1>1. top.at = "prefix" /\ ctx' = d /\ stack' = Returned(stack, node)
  BY DEF Literal, At, Return, Returned
<1>. HIDE DEF node
<1>2. Sound(ctx) /\ Good(stack, ctx) /\ top = stack[1]
  BY TopFacts DEF Parsing
<1>3. Sound(d) /\ d.win.queue = << >> /\ d.win.current > ctx.win.current
  BY <1>1, AdvancedRoom
<1>. HIDE DEF d
<1>4. Settled(stack[1].at, ctx.win.current, Cur(ctx), d.win.current, Cur(d))
  BY <1>3 DEF Settled
<1>5. stack[1].at \notin Bottom /\ stack[1].at # "expr_stmt"
  BY <1>1, <1>2 DEF Bottom
<1>. QED
  BY <1>1, <1>2, <1>3, <1>4, <1>5, ReturnedGood

(* The error path of parse_prefix(). *)
LEMMA NoPrefixGood ==
  ASSUME Parsing, NoPrefix
  PROVE  Good(stack', ctx')
<1>. DEFINE c == Emit(ctx, "prefix", ctx.win.current)
            d == IF Cur(ctx) \in {"SEMICOLON", "EOF"} THEN c ELSE Advanced(c)
            node == Node("ERROR", ctx.win.current, << >>)
<1>1. top.at = "prefix" /\ ctx' = d /\ stack' = Returned(stack, node)
  BY DEF NoPrefix, At, Return, Returned
<1>. HIDE DEF node
<1>2. /\ Sound(ctx) /\ Good(stack, ctx) /\ top = stack[1] /\ Foresees(top, ctx)
      /\ ctx.win.current \in Nat
  BY TopFacts DEF Parsing
<1>3. Sound(c) /\ c.win = ctx.win /\ Cur(c) = Cur(ctx)
  BY <1>2, EmitMoves DEF Cur
<1>. HIDE DEF c
<1>4. IF Cur(ctx) \in Stuck
      THEN Sound(d) /\ d.win.queue = << >> /\ d.win.current = ctx.win.current
           /\ Cur(d) = Cur(ctx)
      ELSE Sound(d) /\ d.win.queue = << >> /\ d.win.current > ctx.win.current
  <2>1. CASE Cur(ctx) \in Stuck
    BY <1>2, <1>3, <2>1 DEF Stuck, Foresees
  <2>2. CASE Cur(ctx) \notin Stuck
    <3>1. d = Advanced(c)
      BY <2>2 DEF Stuck
    <3>2. Sound(d) /\ d.win.queue = << >> /\ d.win.current = ctx.win.current + 1
      BY <1>3, <3>1, AdvancedQuiet
    <3>. QED
      BY <1>2, <2>2, <3>2
  <2>. QED
    BY <2>1, <2>2
<1>. HIDE DEF d
<1>5. Settled(stack[1].at, ctx.win.current, Cur(ctx), d.win.current, Cur(d))
  BY <1>1, <1>2, <1>4 DEF Settled
<1>6. stack[1].at \notin Bottom /\ stack[1].at # "expr_stmt"
  BY <1>1, <1>2 DEF Bottom
<1>7. Sound(d) /\ d.win.queue = << >>
  BY <1>4
<1>. QED
  BY <1>1, <1>2, <1>5, <1>6, <1>7, ReturnedGood

(* parse_prefix() at a unary operator. *)
LEMMA UnaryGood ==
  ASSUME Parsing, Unary
  PROVE  Good(stack', ctx')
<1>. DEFINE d == Advanced(ctx)
            f == Frame("build", Node("UNARY", ctx.win.current, << >>))
<1>1. /\ top.at = "prefix" /\ Cur(ctx) \notin Stuck /\ ctx' = d
      /\ stack' = ExprCall(PREFIX_BINDING) \o << f >> \o Tail(stack)
  BY DEF Unary, At, Continue, Stuck
<1>2. /\ Sound(d) /\ d.win.queue = << >> /\ Moved(top.at, ctx, d)
      /\ Len(stack) <= 2 * d.win.current + 1
  BY <1>1, AdvancedRoom
<1>3. IsFrame(f) /\ f.at = "build"
  BY NewFrame DEF Labels
<1>4. PREFIX_BINDING \in 0 .. 13 /\ top.at \notin Bottom
  BY <1>1 DEF PREFIX_BINDING, Bottom
<1>. HIDE DEF d, f
<1>. QED
  BY <1>1, <1>2, <1>3, <1>4, ExprRoomGood

(* parse_param() *)
LEMMA ParamGood ==
  ASSUME Parsing, Param
  PROVE  Good(stack', ctx')
<1>. DEFINE c == Advanced(ctx)
            d == Expected(c, "COLON")
            f == Frame("build", Node("PARAM", ctx.win.current, << >>))
<1>1. /\ top.at = "param" /\ ctx' = d
      /\ stack' = ExprCall(0) \o << f >> \o Tail(stack)
  BY DEF Param, At, Continue
<1>2. Price("param", Cur(ctx)) = 2
  BY PriceList
<1>3. /\ ctx.win.current \in Nat /\ Len(stack) \in Nat
      /\ Len(stack) <= 2 * ctx.win.current + 2
      /\ Sound(c) /\ c.win.queue = << >> /\ c.win.current = ctx.win.current + 1
  BY <1>1, <1>2, TopRoom, AdvancedRoom
<1>4. /\ Sound(d) /\ d.win.queue = << >>
      /\ d.win.current \in {c.win.current, c.win.current + 1}
  BY <1>3, ExpectedQuiet
<1>5. IsFrame(f) /\ f.at = "build"
  BY NewFrame DEF Labels
<1>. HIDE DEF c, d, f
<1>6. d.win.current > ctx.win.current /\ Len(stack) <= 2 * d.win.current + 1
  <2>. DEFINE n == ctx.win.current
              m == d.win.current
  <2>1. n \in Nat /\ (m = n + 1 \/ m = n + 1 + 1) /\ Len(stack) <= 2 * n + 2
        /\ Len(stack) \in Nat
    BY <1>3, <1>4
  <2>. HIDE DEF n, m
  <2>2. m > n /\ Len(stack) <= 2 * m + 1
    BY <2>1
  <2>. QED
    BY <2>2 DEF n, m
<1>7. Moved(top.at, ctx, d) /\ top.at \notin Bottom /\ 0 \in 0 .. 13
  BY <1>1, <1>6 DEF Moved, Bottom
<1>. QED
  BY <1>1, <1>4, <1>5, <1>6, <1>7, ExprRoomGood

(* parse_fn() *)
LEMMA FnParamsGood ==
  ASSUME Parsing, FnParams
  PROVE  Good(stack', ctx')
<1>. DEFINE first == top.node.kids = << >>
            more == IF first THEN Cur(ctx) # "RPAREN" ELSE Cur(ctx) = "COMMA"
            n == ctx.win.current
<1>1. top.at = "fn_params"
  BY DEF FnParams, At
<1>2. Price("fn_params", Cur(ctx)) = -1
  BY PriceList
<1>3. /\ Sound(ctx) /\ Good(stack, ctx) /\ top = stack[1] /\ IsFrame(top)
      /\ n \in Nat /\ Len(stack) \in Nat
      /\ Len(stack) <= 2 * n - 1 \/ (first /\ Len(stack) <= 2 * n + 1)
      /\ ctx.win.queue # << >> => first /\ Cur(ctx) = "ID"
  <2>1. \/ Len(stack) <= 2 * n + -1
        \/ (first /\ Len(stack) <= 2 * n + 1)
    BY <1>1, <1>2, TopFacts
  <2>2. /\ Sound(ctx) /\ Good(stack, ctx) /\ top = stack[1] /\ IsFrame(top)
        /\ n \in Nat /\ Len(stack) \in Nat
        /\ ctx.win.queue # << >> => first /\ Cur(ctx) = "ID"
    BY <1>1, TopFacts DEF Parsing, Foresees
  <2>. HIDE DEF n, first
  <2>3. 2 * n + -1 = 2 * n - 1
    BY <2>2
  <2>. QED
    BY <2>1, <2>2, <2>3
<1>4. CASE ~more
  <2>. DEFINE d == Expected(ctx, "RPAREN")
              f == Turned(top, "fn_body")
  <2>1. ctx' = d /\ stack' = ExprCall(0) \o << f >> \o Tail(stack)
    BY <1>4 DEF FnParams, Continue, Turned
  <2>2. ctx.win.queue = << >> /\ (first => Cur(ctx) = "RPAREN")
    BY <1>3, <1>4
  <2>3. /\ Sound(d) /\ d.win.queue = << >>
        /\ IF Cur(ctx) = "RPAREN" THEN d.win.current = n + 1
                                  ELSE d.win.current = n
    BY <1>3, <2>2, ExpectedQuiet
  <2>4. IsFrame(f) /\ f.at = "fn_body"
    BY <1>3, TurnedFrame DEF Labels
  <2>. HIDE DEF d, f, first
  <2>5. Moved(top.at, ctx, d) /\ top.at \notin Bottom
    <3>1. d.win.current > n \/ d.win.current = n
      BY <1>3, <2>3
    <3>. QED
      BY <1>1, <3>1 DEF Moved, Bottom, Idle
  <2>6. Len(stack) <= 2 * d.win.current - 1
    BY <1>3, <2>2, <2>3
  <2>. QED
    BY <2>1, <2>3, <2>4, <2>5, <2>6, ExprBlockGood
<1>5. CASE more
  <2>. DEFINE d == IF first THEN ctx ELSE Advanced(ctx)
              g == Frame("param", NULL)
  <2>1. ctx' = d /\ stack' = << g >> \o << top >> \o Tail(stack)
    BY <1>5 DEF FnParams, Continue, Call
  <2>2. /\ Sound(d) /\ (d.win.queue # << >> => Cur(d) = "ID")
        /\ IF first THEN d.win.current = n ELSE d.win.current = n + 1
    BY <1>3, AdvancedQuiet
  <2>3. IsFrame(g) /\ g.at = "param"
    BY NewFrame DEF Labels
  <2>. HIDE DEF d, g, first
  <2>4. Len(stack) <= 2 * d.win.current + 1 /\ d.win.current \in Nat
        /\ (d.win.current > n \/ d.win.current = n)
    BY <1>3, <2>2
  <2>5. Affords(d, g.at, Len(stack) + 1)
    <3>1. Price("param", Cur(d)) = 2
      BY PriceList
    <3>2. Len(stack) + 1 <= 2 * d.win.current + 2
      BY <1>3, <2>4
    <3>. QED
      BY <2>3, <3>1, <3>2 DEF Affords
  <2>6. Moved(stack[1].at, ctx, d)
    BY <1>1, <1>3, <2>4 DEF Moved, Idle
  <2>7. /\ g.at \notin Bottom /\ g.at # "stmt_end"
        /\ top.at \in Waiting /\ top.at # "stmt_end"
        /\ top.at \in Bottom <=> stack[1].at \in Bottom
        /\ Foresees(g, d)
    BY <1>1, <1>3, <2>2, <2>3 DEF Bottom, Waiting, Foresees
  <2>. QED
    BY <1>1, <1>3, <2>1, <2>2, <2>3, <2>4, <2>5, <2>6, <2>7, PushedGood
<1>. QED
  BY <1>4, <1>5

(* f building another node. *)
Renoded(f, node) == [f EXCEPT !.node = node]

(* A frame with another node. *)
LEMMA RenodedFrame ==
  ASSUME NEW f, IsFrame(f), f.at # "stmt_end", NEW node
  PROVE  IsFrame(Renoded(f, node)) /\ Renoded(f, node).at = f.at
<1>. DEFINE g == [f EXCEPT !.node = node]
<1>1. g = [at |-> f.at, node |-> node, min |-> f.min]
  BY DEF IsFrame
<1>. HIDE DEF g
<1>2. g.at = f.at /\ g.node = node /\ g.min = f.min
  BY <1>1
<1>3. IsFrame(g)
  BY <1>1, <1>2 DEF IsFrame
<1>. QED
  BY <1>2, <1>3 DEF g, Renoded

(* parse_prefix() at "(" *)
LEMMA ParenGood ==
  ASSUME Parsing, Paren
  PROVE  Good(stack', ctx')
<1>. DEFINE c == Advanced(ctx)
            d == IF Cur(c) = "ID" THEN Looked(c) ELSE c
            isFn == Cur(c) = "RPAREN" \/ (Cur(c) = "ID" /\ NextType(c) = "COLON")
            f == Frame("fn_params", Node("FN", d.win.prev, << >>))
            g == Frame("group", NULL)
<1>1. /\ top.at = "prefix" /\ Cur(ctx) \notin Stuck /\ ctx' = d
      /\ IF isFn THEN stack' = << f >> \o Tail(stack)
                 ELSE stack' = ExprCall(0) \o << g >> \o Tail(stack)
  <2>1. top.at = "prefix" /\ Cur(ctx) = "LPAREN" /\ ctx' = d
    BY DEF Paren, At
  <2>2. IF isFn THEN stack' = << >> \o << f >> \o Tail(stack)
                ELSE stack' = ExprCall(0) \o << g >> \o Tail(stack)
    BY DEF Paren, Continue
  <2>3. << >> \o << f >> \o Tail(stack) = << f >> \o Tail(stack)
    OBVIOUS
  <2>. HIDE DEF isFn, f, g, d
  <2>. QED
    BY <2>1, <2>2, <2>3 DEF Stuck
<1>2. /\ Sound(ctx) /\ Good(stack, ctx) /\ top = stack[1]
  BY TopFacts DEF Parsing
<1>3. /\ Sound(c) /\ c.win.queue = << >> /\ c.win.current > ctx.win.current
      /\ Len(stack) <= 2 * c.win.current + 1
  BY <1>1, AdvancedRoom
<1>. HIDE DEF c
<1>4. /\ Sound(d) /\ d.win.current = c.win.current /\ Cur(d) = Cur(c)
      /\ d.win.queue # << >> => Cur(d) = "ID"
  BY <1>3, LookedStays
<1>. HIDE DEF d
<1>5. /\ Moved(top.at, ctx, d) /\ Len(stack) <= 2 * d.win.current + 1
      /\ top.at \notin Bottom /\ 0 \in 0 .. 13
  BY <1>1, <1>3, <1>4 DEF Moved, Bottom
<1>6. CASE isFn
  <2>1. IsFrame(f) /\ f.at = "fn_params" /\ f.node.kids = << >>
    <3>1. \A v : Frame("fn_params", v).node = v
      BY NewFrame DEF Labels
    <3>2. Node("FN", d.win.prev, << >>).kids = << >>
      BY DEF Node
    <3>3. IsFrame(f) /\ f.at = "fn_params"
      BY NewFrame DEF Labels
    <3>. QED
      BY <3>1, <3>2, <3>3
  <2>2. stack' = << f >> \o Tail(stack)
    BY <1>1, <1>6
  <2>3. Cur(d) \in {"ID", "RPAREN"}
    BY <1>4, <1>6
  <2>. HIDE DEF f
  <2>4. /\ f.at \in Bottom <=> stack[1].at \in Bottom
        /\ f.at # "stmt_end" /\ Foresees(f, d)
    BY <1>1, <1>2, <1>4, <2>1 DEF Bottom, Foresees
  <2>. QED
    BY <1>1, <1>2, <1>4, <1>5, <2>1, <2>2, <2>3, <2>4, ResumedGood
<1>7. CASE ~isFn
  <2>1. IsFrame(g) /\ g.at = "group"
    BY NewFrame DEF Labels
  <2>2. stack' = ExprCall(0) \o << g >> \o Tail(stack)
    BY <1>1, <1>7
  <2>. HIDE DEF g
  <2>. QED
    BY <1>1, <1>4, <1>5, <2>1, <2>2, ExprRoomGood
<1>. QED
  BY <1>6, <1>7

(* The powers of the operators are below CALL_BINDING. *)
LEMMA RightPower ==
  ASSUME NEW type, is_binop(type)
  PROVE  binding_table[type].right \in 0 .. 13
  BY DEF is_binop, binding_table, Left

(* The loop of parse_expr_internal(): a call. *)
LEMMA InfixCallGood ==
  ASSUME Parsing, top.at = "infix", Cur(ctx) = "LPAREN", NEW node,
         ctx' = Expected(ctx, "LPAREN"),
         stack' = << Frame("call_args", node) >> \o << Renoded(top, NULL) >> \o Tail(stack)
  PROVE  Good(stack', ctx')
<1>. DEFINE d == Advanced(ctx)
            g == Frame("call_args", node)
            f == Renoded(top, NULL)
<1>1. /\ Sound(ctx) /\ Good(stack, ctx) /\ top = stack[1] /\ IsFrame(top)
      /\ Len(stack) \in Nat
  BY TopFacts DEF Parsing
<1>2. ctx' = d
  BY DEF Expected
<1>3. /\ Sound(d) /\ d.win.queue = << >> /\ Moved(top.at, ctx, d)
      /\ Len(stack) <= 2 * ctx.win.current + 2 + Extra(Cur(ctx))
      /\ d.win.current = ctx.win.current + 1 /\ ctx.win.current \in Nat
  <2>1. Price("infix", Cur(ctx)) = 2 + Extra(Cur(ctx)) /\ Extra(Cur(ctx)) \in {0, 1}
    BY PriceList
  <2>2. /\ Len(stack) <= 2 * ctx.win.current + Price("infix", Cur(ctx))
        /\ ctx.win.current \in Nat
    BY TopRoom
  <2>3. /\ Sound(d) /\ d.win.queue = << >> /\ Moved(top.at, ctx, d)
        /\ d.win.current = ctx.win.current + 1
    BY AdvancedRoom
  <2>. HIDE DEF d
  <2>. QED
    BY <1>1, <2>1, <2>2, <2>3
<1>4. Extra(Cur(ctx)) = 0
  BY DEF Extra, Stuck
<1>5. IsFrame(g) /\ g.at = "call_args"
  BY NewFrame DEF Labels
<1>6. IsFrame(f) /\ f.at = "infix"
  BY <1>1, RenodedFrame
<1>7. stack' = << g >> \o << f >> \o Tail(stack)
  OBVIOUS
<1>. HIDE DEF d, f, g
<1>8. Affords(d, g.at, Len(stack) + 1) /\ Affords(d, f.at, Len(stack))
  <2>. DEFINE m == d.win.current
              p == Price("infix", Cur(d))
  <2>1. Price("call_args", Cur(d)) = 1 /\ (p = 2 \/ p = 3)
    BY PriceList
  <2>2. Len(stack) <= 2 * m /\ m \in Nat
    BY <1>1, <1>3, <1>4
  <2>. HIDE DEF m, p
  <2>3. Len(stack) + 1 <= 2 * m + 1 /\ Len(stack) <= 2 * m + p
    BY <1>1, <2>1, <2>2
  <2>. QED
    BY <1>5, <1>6, <2>1, <2>3 DEF Affords, m, p
<1>9. Moved(stack[1].at, ctx, d)
  BY <1>1, <1>3
<1>10. /\ g.at \notin Bottom /\ g.at # "stmt_end"
       /\ f.at \in Waiting /\ f.at # "stmt_end"
       /\ f.at \in Bottom <=> stack[1].at \in Bottom
       /\ Foresees(g, d)
  BY <1>1, <1>3, <1>5, <1>6 DEF Bottom, Waiting, Foresees
<1>. QED
  BY <1>1, <1>2, <1>3, <1>5, <1>6, <1>7, <1>8, <1>9, <1>10, PushedGood

(* The loop of parse_expr_internal(), all of it. *)
LEMMA InfixGood ==
  ASSUME Parsing, Infix
  PROVE  Good(stack', ctx')
<1>. DEFINE type == Cur(ctx)
            lhs == Head(top.node.kids)
            call == Node("CALL", ctx.win.current, << lhs >>)
            binary == Node("BINARY", ctx.win.current, << lhs >>)
            f == Remade(top, "rhs", binary)
            d == Advanced(ctx)
<1>1. top.at = "infix"
  BY DEF Infix, At
<1>2. \/ /\ type = "LPAREN" /\ ctx' = Expected(ctx, "LPAREN")
         /\ stack' = << Frame("call_args", call) >> \o << Renoded(top, NULL) >>
                       \o Tail(stack)
      \/ /\ is_binop(type) /\ ctx' = d
         /\ stack' = ExprCall(binding_table[type].right) \o << f >> \o Tail(stack)
      \/ ctx' = ctx /\ stack' = Returned(stack, lhs)
  BY DEF Infix, Continue, Return, Returned, Renoded, Remade
<1>. HIDE DEF call, binary, lhs
<1>3. CASE /\ type = "LPAREN" /\ ctx' = Expected(ctx, "LPAREN")
           /\ stack' = << Frame("call_args", call) >> \o << Renoded(top, NULL) >>
                         \o Tail(stack)
  BY <1>1, <1>3, InfixCallGood
<1>4. CASE /\ is_binop(type) /\ ctx' = d
           /\ stack' = ExprCall(binding_table[type].right) \o << f >> \o Tail(stack)
  <2>. DEFINE min == binding_table[type].right
  <2>1. min \in 0 .. 13 /\ type \notin Stuck
    BY <1>4, RightPower DEF is_binop, binding_table, Stuck
  <2>2. /\ Sound(d) /\ d.win.queue = << >> /\ Moved(top.at, ctx, d)
        /\ Len(stack) <= 2 * d.win.current + 1
    BY <1>1, <2>1, AdvancedRoom
  <2>3. IsFrame(f) /\ f.at = "rhs"
    BY TopFacts, RemadeFrame DEF Labels
  <2>4. top.at \notin Bottom
    BY <1>1 DEF Bottom
  <2>5. ctx' = d /\ stack' = ExprCall(min) \o << f >> \o Tail(stack)
    BY <1>4
  <2>. HIDE DEF d, f, min
  <2>. QED
    BY <2>1, <2>2, <2>3, <2>4, <2>5, ExprRoomGood
<1>5. CASE ctx' = ctx /\ stack' = Returned(stack, lhs)
  BY <1>1, <1>5, PlainReturnGood
<1>. QED
  BY <1>2, <1>3, <1>4, <1>5

(* The loop goes on after a right-hand side. *)
LEMMA RhsGood ==
  ASSUME Parsing, Rhs
  PROVE  Good(stack', ctx')
<1>. DEFINE d == IF Chained(TypeOf(top.node.tok), Cur(ctx))
                 THEN Emit(ctx, "chained", ctx.win.current) ELSE ctx
            f == Remade(top, "infix", Adopt(NULL, top.node))
<1>1. top.at = "rhs" /\ ctx' = d /\ stack' = << f >> \o Tail(stack)
  BY DEF Rhs, At, Continue, Remade
<1>2. Price("rhs", Cur(ctx)) = 2
  BY PriceList
<1>3. /\ Sound(ctx) /\ Good(stack, ctx) /\ top = stack[1] /\ IsFrame(top)
      /\ ctx.win.queue = << >> /\ ctx.win.current \in Nat /\ Len(stack) \in Nat
      /\ Len(stack) <= 2 * ctx.win.current + 2
  BY <1>1, <1>2, TopRoom, TopFacts DEF Foresees
<1>4. Sound(d) /\ d.win = ctx.win /\ Cur(d) = Cur(ctx)
  BY <1>3, EmitMoves DEF Cur
<1>5. IsFrame(f) /\ f.at = "infix"
  BY <1>3, RemadeFrame DEF Labels
<1>. HIDE DEF d, f
<1>6. Affords(d, f.at, Len(stack))
  <2>. DEFINE n == ctx.win.current
              p == Price("infix", Cur(d))
  <2>1. p = 2 \/ p = 3
    BY PriceList
  <2>2. n \in Nat /\ Len(stack) \in Nat /\ Len(stack) <= 2 * n + 2
    BY <1>3
  <2>. HIDE DEF n, p
  <2>3. Len(stack) <= 2 * n + p
    BY <2>1, <2>2
  <2>. QED
    BY <1>4, <1>5, <2>3 DEF Affords, n, p
<1>7. Moved(stack[1].at, ctx, d)
  BY <1>1, <1>3, <1>4 DEF Moved, Idle
<1>8. /\ f.at \in Bottom <=> stack[1].at \in Bottom
      /\ Foresees(f, d) /\ f.at # "stmt_end"
  BY <1>1, <1>3, <1>4, <1>5 DEF Bottom, Foresees
<1>. QED
  BY <1>1, <1>3, <1>4, <1>5, <1>6, <1>7, <1>8, ResumedGood

(* parse_call() *)
LEMMA CallArgsGood ==
  ASSUME Parsing, CallArgs
  PROVE  Good(stack', ctx')
<1>. DEFINE first == Len(top.node.kids) = 1
            more == IF first THEN Cur(ctx) # "RPAREN" ELSE Cur(ctx) = "COMMA"
<1>1. top.at = "call_args"
  BY DEF CallArgs, At
<1>2. CASE ~more
  <2>1. ctx' = Expected(ctx, "RPAREN") /\ stack' = Returned(stack, top.node)
    BY <1>2 DEF CallArgs, Return, Returned
  <2>. QED
    BY <1>1, <2>1, ExpectReturnGood
<1>3. CASE more
  <2>. DEFINE d == IF first THEN ctx ELSE Advanced(ctx)
  <2>1. ctx' = d /\ stack' = ExprCall(0) \o << top >> \o Tail(stack)
    BY <1>3 DEF CallArgs, Continue
  <2>2. Price("call_args", Cur(ctx)) = 1
    BY PriceList
  <2>3. /\ Sound(ctx) /\ IsFrame(top) /\ ctx.win.queue = << >>
        /\ ctx.win.current \in Nat /\ Len(stack) \in Nat
        /\ Len(stack) <= 2 * ctx.win.current + 1
    BY <1>1, <2>2, TopRoom, TopFacts DEF Foresees
  <2>4. /\ Sound(d) /\ d.win.queue = << >>
        /\ d.win.current = ctx.win.current \/ d.win.current = ctx.win.current + 1
    BY <2>3, AdvancedQuiet
  <2>. HIDE DEF d
  <2>5. Moved(top.at, ctx, d) /\ top.at \notin Bottom
    BY <1>1, <2>3, <2>4 DEF Moved, Bottom, Idle
  <2>6. Len(stack) <= 2 * d.win.current + 1 /\ 0 \in 0 .. 13
    BY <2>3, <2>4
  <2>. QED
    BY <1>1, <2>1, <2>3, <2>4, <2>5, <2>6, ExprRoomGood
<1>. QED
  BY <1>2, <1>3

(* The calls of parse_block(), and of parse_if() after "else". *)
LEMMA BlockCallGood ==
  ASSUME Parsing, NEW d, Sound(d), d.win.queue = << >>,
         NEW f, IsFrame(f), f.at \in {"build", "if_else"},
         NEW at \in {"block", "if"},
         top.at \notin Bottom, Moved(top.at, ctx, d),
         \/ Len(stack) <= 2 * d.win.current - 2 + Extra(Cur(d))
         \/ /\ f.at = "build" /\ at = "block" /\ Cur(d) = "LBRACE"
            /\ Len(stack) <= 2 * d.win.current - 1,
         ctx' = d, stack' = Call(at) \o << f >> \o Tail(stack)
  PROVE  Good(stack', ctx')
<1>. DEFINE g == Frame(at, NULL)
            m == d.win.current
            l == Len(stack)
            x == Extra(Cur(d))
            p == Price(at, Cur(d))
            q == Price(f.at, Cur(d))
<1>1. /\ Sound(ctx) /\ Good(stack, ctx) /\ top = stack[1] /\ l \in Nat /\ m \in Nat
  BY TopFacts, SoundNumbers DEF Parsing
<1>2. IsFrame(g) /\ g.at = at
  BY NewFrame DEF Labels
<1>3. stack' = << g >> \o << f >> \o Tail(stack)
  BY DEF Call
<1>4. /\ x \in {0, 1} /\ p \in Int /\ q \in Int /\ p >= -1 + x /\ q >= -2 + x
      /\ f.at = "build" => q = 1 + x
      /\ at = "block" /\ Cur(d) = "LBRACE" => p = 1
  <2>1. /\ x \in {0, 1}
        /\ Price("block", Cur(d)) = IF Cur(d) = "LBRACE" THEN 1 ELSE -1 + x
        /\ Price("if", Cur(d)) = 1
        /\ Price("build", Cur(d)) = 1 + x /\ Price("if_else", Cur(d)) = -2 + x
    BY PriceList
  <2>. HIDE DEF x
  <2>2. p = 1 \/ p = -1 + x
    BY <2>1
  <2>3. q = 1 + x \/ q = -2 + x
    BY <2>1
  <2>4. /\ f.at = "build" => q = 1 + x
        /\ at = "block" /\ Cur(d) = "LBRACE" => p = 1
    BY <2>1
  <2>. HIDE DEF p, q
  <2>. QED
    BY <2>1, <2>2, <2>3, <2>4
<1>5. \/ l <= 2 * m - 2 + x
      \/ f.at = "build" /\ at = "block" /\ Cur(d) = "LBRACE" /\ l <= 2 * m - 1
  OBVIOUS
<1>. HIDE DEF g, m, l, x, p, q
<1>6. l + 1 <= 2 * m + p /\ l <= 2 * m + q
  BY <1>1, <1>4, <1>5
<1>7. Affords(d, g.at, Len(stack) + 1) /\ Affords(d, f.at, Len(stack))
  BY <1>2, <1>6 DEF Affords, m, l, p, q
<1>8. /\ g.at \notin Bottom /\ g.at # "stmt_end"
      /\ f.at \in Waiting /\ f.at # "stmt_end"
      /\ f.at \in Bottom <=> stack[1].at \in Bottom
      /\ Foresees(g, d)
  BY <1>1, <1>2 DEF Bottom, Waiting, Foresees
<1>9. Moved(stack[1].at, ctx, d)
  BY <1>1
<1>. QED
  BY <1>1, <1>2, <1>3, <1>7, <1>8, <1>9, PushedGood

(* Where a block follows an expression. *)
LEMMA ThenBlockGood ==
  ASSUME Parsing, NEW f, IsFrame(f), f.at \in {"build", "if_else"},
         top.at \in {"if_then", "fn_body", "loop_block"},
         ctx' = ctx, stack' = Call("block") \o << f >> \o Tail(stack)
  PROVE  Good(stack', ctx')
<1>1. /\ Price(top.at, Cur(ctx)) = -2 + Extra(Cur(ctx))
      /\ Extra(Cur(ctx)) \in {0, 1}
  BY PriceList
<1>2. /\ Sound(ctx) /\ ctx.win.queue = << >>
      /\ ctx.win.current \in Nat /\ Len(stack) \in Nat
      /\ Len(stack) <= 2 * ctx.win.current + Price(top.at, Cur(ctx))
  BY TopRoom, TopFacts DEF Foresees
<1>3. Len(stack) <= 2 * ctx.win.current - 2 + Extra(Cur(ctx))
  <2>. DEFINE x == Extra(Cur(ctx))
  <2>. HIDE DEF x
  <2>1. /\ Len(stack) <= 2 * ctx.win.current + (-2 + x) /\ x \in Int
        /\ ctx.win.current \in Nat /\ Len(stack) \in Nat
    BY <1>1, <1>2 DEF x
  <2>2. Len(stack) <= 2 * ctx.win.current - 2 + x
    BY <2>1
  <2>. QED
    BY <2>2 DEF x
<1>4. top.at \notin Bottom /\ Moved(top.at, ctx, ctx)
  BY <1>2 DEF Bottom, Moved, Idle
<1>. QED
  BY <1>2, <1>3, <1>4, BlockCallGood

(* parse_fn() calls parse_block(). *)
LEMMA FnBodyGood ==
  ASSUME Parsing, FnBody
  PROVE  Good(stack', ctx')
<1>. DEFINE f == Turned(top, "build")
<1>1. /\ top.at = "fn_body" /\ ctx' = ctx
      /\ stack' = Call("block") \o << f >> \o Tail(stack)
  BY DEF FnBody, At, Continue, Turned
<1>2. IsFrame(f) /\ f.at = "build"
  BY TopFacts, TurnedFrame DEF Labels
<1>. HIDE DEF f
<1>. QED
  BY <1>1, <1>2, ThenBlockGood

(* parse_loop() calls parse_block(). *)
LEMMA LoopBlockGood ==
  ASSUME Parsing, LoopBlock
  PROVE  Good(stack', ctx')
<1>. DEFINE f == Turned(top, "build")
<1>1. /\ top.at = "loop_block" /\ ctx' = ctx
      /\ stack' = Call("block") \o << f >> \o Tail(stack)
  BY DEF LoopBlock, At, Continue, Turned
<1>2. IsFrame(f) /\ f.at = "build"
  BY TopFacts, TurnedFrame DEF Labels
<1>. HIDE DEF f
<1>. QED
  BY <1>1, <1>2, ThenBlockGood

(* parse_if() *)
LEMMA IfThenGood ==
  ASSUME Parsing, IfThen
  PROVE  Good(stack', ctx')
<1>. DEFINE f == Turned(top, "if_else")
<1>1. /\ top.at = "if_then" /\ ctx' = ctx
      /\ stack' = Call("block") \o << f >> \o Tail(stack)
  BY DEF IfThen, At, Continue, Turned
<1>2. IsFrame(f) /\ f.at = "if_else"
  BY TopFacts, TurnedFrame DEF Labels
<1>. HIDE DEF f
<1>. QED
  BY <1>1, <1>2, ThenBlockGood

(* parse_if() parses its condition. *)
LEMMA IfGood ==
  ASSUME Parsing, If
  PROVE  Good(stack', ctx')
<1>. DEFINE d == Advanced(ctx)
            f == Frame("if_then", Node("IF", ctx.win.current, << >>))
<1>1. /\ top.at = "if" /\ ctx' = d
      /\ stack' = ExprCall(0) \o << f >> \o Tail(stack)
  BY DEF If, At, Continue
<1>2. Price("if", Cur(ctx)) = 1
  BY PriceList
<1>3. /\ ctx.win.current \in Nat /\ Len(stack) \in Nat
      /\ Len(stack) <= 2 * ctx.win.current + 1
      /\ Sound(d) /\ d.win.queue = << >> /\ Moved(top.at, ctx, d)
      /\ d.win.current = ctx.win.current + 1
  BY <1>1, <1>2, TopRoom, AdvancedRoom
<1>4. IsFrame(f) /\ f.at = "if_then"
  BY NewFrame DEF Labels
<1>. HIDE DEF d, f
<1>5. Len(stack) <= 2 * d.win.current - 1 /\ top.at \notin Bottom
  BY <1>1, <1>3 DEF Bottom
<1>. QED
  BY <1>1, <1>3, <1>4, <1>5, ExprBlockGood

(* parse_if(), after its first block. *)
LEMMA IfElseGood ==
  ASSUME Parsing, IfElse
  PROVE  Good(stack', ctx')
<1>. DEFINE d == Advanced(ctx)
            f == Turned(top, "build")
            at == IF Cur(d) = "IF" THEN "if" ELSE "block"
<1>1. top.at = "if_else"
  BY DEF IfElse, At
<1>2. CASE Cur(ctx) = "ELSE"
  <2>1. ctx' = d /\ stack' = Call(at) \o << f >> \o Tail(stack)
    BY <1>2 DEF IfElse, Continue, Turned
  <2>2. Price("if_else", Cur(ctx)) = -2 + 0
    <3>1. Extra(Cur(ctx)) = 0
      BY <1>2 DEF Extra, Stuck
    <3>. QED
      BY <3>1, PriceList
  <2>3. /\ ctx.win.current \in Nat /\ Len(stack) \in Nat
        /\ Len(stack) <= 2 * ctx.win.current + (-2 + 0)
        /\ Sound(d) /\ d.win.queue = << >> /\ Moved(top.at, ctx, d)
        /\ d.win.current = ctx.win.current + 1
    BY <1>1, <2>2, TopRoom, AdvancedRoom
  <2>4. IsFrame(f) /\ f.at = "build"
    BY TopFacts, TurnedFrame DEF Labels
  <2>5. at \in {"block", "if"}
    OBVIOUS
  <2>6. Extra(Cur(d)) \in {0, 1}
    BY PriceList
  <2>. HIDE DEF d, f, at
  <2>7. Len(stack) <= 2 * d.win.current - 2 + Extra(Cur(d))
    <3>. DEFINE x == Extra(Cur(d))
                n == ctx.win.current
                m == d.win.current
    <3>1. /\ n \in Nat /\ Len(stack) \in Nat /\ Len(stack) <= 2 * n + (-2 + 0)
          /\ m = n + 1 /\ x \in {0, 1}
      BY <2>3, <2>6
    <3>. HIDE DEF x, n, m
    <3>2. Len(stack) <= 2 * m - 2 + x
      BY <3>1
    <3>. QED
      BY <3>2 DEF x, m
  <2>8. top.at \notin Bottom
    BY <1>1 DEF Bottom
  <2>. QED
    BY <2>1, <2>3, <2>4, <2>5, <2>7, <2>8, BlockCallGood
<1>3. CASE Cur(ctx) # "ELSE"
  <2>1. ctx' = ctx /\ stack' = Returned(stack, Adopt(top.node, NULL))
    BY <1>3 DEF IfElse, Return, Returned
  <2>. QED
    BY <1>1, <2>1, PlainReturnGood
<1>. QED
  BY <1>2, <1>3

(* parse_loop() *)
LEMMA LoopGood ==
  ASSUME Parsing, Loop
  PROVE  Good(stack', ctx')
<1>. DEFINE d == Advanced(ctx)
            f == Frame("loop_var", Node("LOOP", ctx.win.current, << >>))
<1>1. top.at = "loop" /\ ctx' = d /\ stack' = << f >> \o Tail(stack)
  BY DEF Loop, At, Continue
<1>2. Price("loop", Cur(ctx)) = 1
  BY PriceList
<1>3. /\ Sound(ctx) /\ Good(stack, ctx) /\ top = stack[1]
      /\ ctx.win.current \in Nat /\ Len(stack) \in Nat
      /\ Len(stack) <= 2 * ctx.win.current + 1
      /\ Sound(d) /\ d.win.queue = << >> /\ Moved(top.at, ctx, d)
      /\ d.win.current = ctx.win.current + 1
  BY <1>1, <1>2, TopRoom, AdvancedRoom
<1>4. IsFrame(f) /\ f.at = "loop_var"
  BY NewFrame DEF Labels
<1>5. Price("loop_var", Cur(d)) = -1
  BY PriceList
<1>. HIDE DEF d, f
<1>6. Affords(d, f.at, Len(stack))
  <2>1. Len(stack) <= 2 * d.win.current + -1
    BY <1>3
  <2>. QED
    BY <1>4, <1>5, <2>1 DEF Affords
<1>7. /\ f.at \in Bottom <=> stack[1].at \in Bottom
      /\ Foresees(f, d) /\ f.at # "stmt_end" /\ Moved(stack[1].at, ctx, d)
  BY <1>1, <1>3, <1>4 DEF Bottom, Foresees
<1>. QED
  BY <1>1, <1>3, <1>4, <1>6, <1>7, ResumedGood

(* parse_loop(), with or without a variable. *)
LEMMA LoopVarGood ==
  ASSUME Parsing, LoopVar
  PROVE  Good(stack', ctx')
<1>. DEFINE isId == Cur(ctx) = "ID"
            var == isId /\ NextType(ctx) = "COLON"
            c == Looked(ctx)
            e == Advanced(c)
            d == IF var THEN Advanced(e) ELSE IF isId THEN c ELSE ctx
            kid == IF var THEN Node("ID", ctx.win.current, << >>) ELSE NULL
            f == Remade(top, "loop_cond", Adopt(top.node, kid))
<1>1. top.at = "loop_var" /\ ctx' = d /\ stack' = << f >> \o Tail(stack)
  BY DEF LoopVar, At, Continue, Remade
<1>2. Price("loop_var", Cur(ctx)) = -1 /\ Price("loop_cond", Cur(d)) = -1
  BY PriceList
<1>3. /\ Sound(ctx) /\ Good(stack, ctx) /\ top = stack[1] /\ IsFrame(top)
      /\ ctx.win.queue = << >> /\ ctx.win.current \in Nat /\ Len(stack) \in Nat
      /\ Len(stack) <= 2 * ctx.win.current + -1
  BY <1>1, <1>2, TopRoom, TopFacts DEF Foresees
<1>4. Sound(c) /\ c.win.current = ctx.win.current /\ Cur(c) = Cur(ctx)
  BY <1>3, LookedStays
<1>. HIDE DEF c
<1>5. Sound(e) /\ e.win.current = ctx.win.current + 1
  BY <1>4, AdvancedQuiet
<1>. HIDE DEF e
<1>6. /\ Sound(Advanced(e)) /\ Advanced(e).win.queue = << >>
      /\ Advanced(e).win.current = ctx.win.current + 1 + 1
  BY <1>5, AdvancedQuiet
<1>7. /\ Sound(d) /\ (d.win.queue # << >> => Cur(d) = "ID")
      /\ \/ d.win.current = ctx.win.current
         \/ d.win.current = ctx.win.current + 1 + 1
  BY <1>3, <1>4, <1>6
<1>8. IsFrame(f) /\ f.at = "loop_cond"
  BY <1>3, RemadeFrame DEF Labels
<1>. HIDE DEF d, f
<1>9. Len(stack) <= 2 * d.win.current + -1 /\ Moved(stack[1].at, ctx, d)
  <2>. DEFINE n == ctx.win.current
              m == d.win.current
  <2>1. /\ n \in Nat /\ Len(stack) \in Nat /\ Len(stack) <= 2 * n + -1
        /\ m = n \/ m = n + 1 + 1
    BY <1>3, <1>7
  <2>. HIDE DEF n, m
  <2>2. Len(stack) <= 2 * m + -1 /\ (m = n \/ m > n)
    BY <2>1
  <2>3. d.win.current = ctx.win.current \/ d.win.current > ctx.win.current
    BY <2>2 DEF n, m
  <2>4. Moved(stack[1].at, ctx, d)
    BY <1>1, <1>3, <2>3 DEF Moved, Idle
  <2>. QED
    BY <2>2, <2>4 DEF m
<1>10. Affords(d, f.at, Len(stack))
  BY <1>2, <1>8, <1>9 DEF Affords
<1>11. /\ f.at \in Bottom <=> stack[1].at \in Bottom
       /\ Foresees(f, d) /\ f.at # "stmt_end"
  BY <1>1, <1>3, <1>7, <1>8 DEF Bottom, Foresees
<1>. QED
  BY <1>1, <1>3, <1>7, <1>8, <1>9, <1>10, <1>11, ResumedGood

(* parse_loop() parses its range, or its block. *)
LEMMA LoopCondGood ==
  ASSUME Parsing, LoopCond
  PROVE  Good(stack', ctx')
<1>1. top.at = "loop_cond" /\ ctx' = ctx
  BY DEF LoopCond, At
<1>2. Price("loop_cond", Cur(ctx)) = -1
  BY PriceList
<1>3. /\ Sound(ctx) /\ top = stack[1] /\ IsFrame(top)
      /\ ctx.win.queue # << >> => Cur(ctx) = "ID"
      /\ ctx.win.current \in Nat /\ Len(stack) \in Nat
      /\ Len(stack) <= 2 * ctx.win.current + -1
  BY <1>1, <1>2, TopRoom, TopFacts DEF Foresees
<1>4. Len(stack) <= 2 * ctx.win.current - 1
  <2>. DEFINE n == ctx.win.current
  <2>. HIDE DEF n
  <2>1. n \in Nat => 2 * n + -1 = 2 * n - 1
    OBVIOUS
  <2>. QED
    BY <1>3, <2>1 DEF n
<1>5. top.at \notin Bottom /\ Moved(top.at, ctx, ctx)
  BY <1>1, <1>3 DEF Bottom, Moved, Idle
<1>6. CASE Cur(ctx) # "LBRACE"
  <2>. DEFINE f == Turned(top, "loop_block")
  <2>1. stack' = ExprCall(0) \o << f >> \o Tail(stack)
    BY <1>6 DEF LoopCond, Continue, Turned
  <2>2. IsFrame(f) /\ f.at = "loop_block"
    BY <1>3, TurnedFrame DEF Labels
  <2>. HIDE DEF f
  <2>. QED
    BY <1>1, <1>3, <1>4, <1>5, <2>1, <2>2, ExprBlockGood
<1>7. CASE Cur(ctx) = "LBRACE"
  <2>. DEFINE f == Frame("build", Adopt(top.node, NULL))
  <2>1. stack' = Call("block") \o << f >> \o Tail(stack)
    BY <1>7 DEF LoopCond, Continue
  <2>2. IsFrame(f) /\ f.at = "build"
    BY NewFrame DEF Labels
  <2>. HIDE DEF f
  <2>3. ctx.win.queue = << >>
    BY <1>3, <1>7
  <2>. QED
    BY <1>1, <1>3, <1>4, <1>5, <1>7, <2>1, <2>2, <2>3, BlockCallGood
<1>. QED
  BY <1>6, <1>7

(* Every step. *)
LEMMA StepGood ==
  ASSUME Parsing, Step
  PROVE  Good(stack', ctx')
  BY ProgramGood, StmtGood, StmtEndGood, BuildGood, BlockGood, BlockStmtsGood,
     ReturnStmtGood, BindingGood, BindingAnnGood, ExprStmtGood, ParamGood,
     FnParamsGood, FnBodyGood, LiteralGood, ParenGood, GroupEndGood, UnaryGood,
     NoPrefixGood, InfixGood, RhsGood, CallArgsGood, IfGood, IfThenGood,
     IfElseGood, LoopGood, LoopVarGood, LoopCondGood, LoopBlockGood DEF Step

(* What a step may make of the context c: the reports stay in order, and   *)
(* two tokens are read at most.                                            *)
Reads(c, d) == Ordered(d) /\ d.win.lexed <= c.win.lexed + 2

(* What each composition of peek(), advance() and expect_token() reads. *)
LEMMA ContextReads ==
  ASSUME NEW c, Sound(c), Ordered(c)
  PROVE  /\ Reads(c, c)
         /\ Reads(c, Advanced(c))
         /\ Reads(c, Advanced(Advanced(c)))
         /\ Reads(c, Looked(c))
         /\ Reads(c, Looked(Advanced(c)))
         /\ Reads(c, Advanced(Advanced(Looked(c))))
         /\ \A type \in Whats :
              Cur(c) = type \/ c.win.queue = << >> => Reads(c, Expected(c, type))
         /\ \A type \in Whats : Reads(c, Expected(Advanced(c), type))
         /\ Reads(c, Emit(c, "chained", c.win.current))
         /\ Reads(c, Emit(c, "prefix", c.win.current))
         /\ Reads(c, Advanced(Emit(c, "prefix", c.win.current)))
<1>. DEFINE a == Advanced(c)
            l == Looked(c)
            e == Emit(c, "prefix", c.win.current)
            n == c.win.current
            m == c.win.lexed
<1>1. n \in Nat /\ m \in Nat /\ n <= m /\ m <= n + 1
  BY SoundNumbers
<1>2. Reads(c, c)
  BY <1>1 DEF Reads
<1>3. Sound(a) /\ Ordered(a) /\ a.win.queue = << >>
      /\ a.win.current = n + 1 /\ a.win.lexed = n + 1
  BY AdvancedMoves, AdvancedQuiet, AdvancedOrdered
<1>4. Sound(l) /\ Ordered(l) /\ l.win.current = n /\ l.win.lexed = n + 1
  BY LookedMoves, LookedOrdered
<1>5. Ordered(Advanced(a)) /\ Advanced(a).win.lexed = n + 1 + 1
  BY <1>3, AdvancedMoves, AdvancedOrdered
<1>6. Ordered(Looked(a)) /\ Looked(a).win.lexed = n + 1 + 1
  BY <1>3, LookedMoves, LookedOrdered
<1>7. /\ Sound(Advanced(l)) /\ Ordered(Advanced(l))
      /\ Advanced(l).win.current = n + 1
  BY <1>4, AdvancedMoves, AdvancedOrdered
<1>8. /\ Ordered(Advanced(Advanced(l)))
      /\ Advanced(Advanced(l)).win.lexed = n + 1 + 1
  BY <1>7, AdvancedMoves, AdvancedOrdered
<1>9. ASSUME NEW type \in Whats, Cur(c) = type \/ c.win.queue = << >>
      PROVE  Reads(c, Expected(c, type))
  <2>1. Cur(c) = type \/ m = n
    BY <1>9, SoundNumbers
  <2>2. Ordered(Expected(c, type))
    BY <2>1, ExpectedOrdered
  <2>3. Expected(c, type).win.lexed = n + 1 \/ Expected(c, type).win.lexed = m
    BY ExpectedMoves
  <2>. QED
    BY <1>1, <2>2, <2>3 DEF Reads
<1>10. ASSUME NEW type \in Whats
       PROVE  Reads(c, Expected(a, type))
  <2>. HIDE DEF a
  <2>1. Ordered(Expected(a, type))
    BY <1>3, ExpectedOrdered
  <2>2. \/ Expected(a, type).win.lexed = n + 1 + 1
        \/ Expected(a, type).win.lexed = n + 1
    BY <1>3, ExpectedMoves
  <2>. QED
    BY <1>1, <2>1, <2>2 DEF Reads
<1>11. ASSUME NEW what \in {"chained", "prefix"}
       PROVE  /\ Sound(Emit(c, what, n)) /\ Ordered(Emit(c, what, n))
              /\ Emit(c, what, n).win = c.win
  <2>1. what \in Whats /\ n \in 0 .. m
    BY <1>1 DEF Whats
  <2>. QED
    BY <1>1, <2>1, EmitOrdered, EmitMoves
<1>12. Ordered(Advanced(e)) /\ Advanced(e).win.lexed = n + 1
  BY <1>11, AdvancedMoves, AdvancedOrdered
<1>13. /\ Reads(c, Emit(c, "chained", n)) /\ Reads(c, Emit(c, "prefix", n))
  BY <1>1, <1>11 DEF Reads
<1>14. /\ Reads(c, Advanced(c)) /\ Reads(c, Advanced(Advanced(c)))
       /\ Reads(c, Looked(c)) /\ Reads(c, Looked(Advanced(c)))
       /\ Reads(c, Advanced(Advanced(Looked(c))))
       /\ Reads(c, Advanced(Emit(c, "prefix", c.win.current)))
  <2>. DEFINE Near(x) == x.win.lexed = n + 1 \/ x.win.lexed = n + 1 + 1
  <2>1. ASSUME NEW x, Ordered(x), Near(x) PROVE Reads(c, x)
    BY <1>1, <2>1 DEF Reads
  <2>2. /\ Near(a) /\ Near(Advanced(a)) /\ Near(l) /\ Near(Looked(a))
        /\ Near(Advanced(Advanced(l))) /\ Near(Advanced(e))
    BY <1>3, <1>4, <1>5, <1>6, <1>8, <1>12
  <2>. HIDE DEF Near
  <2>. QED
    BY <1>3, <1>4, <1>5, <1>6, <1>8, <1>12, <2>1, <2>2
<1>. QED
  BY <1>2, <1>9, <1>10, <1>13, <1>14

(* A step waits for the lexer, and keeps the reports in order.             *)
LEMMA StepReads ==
  ASSUME Parsing, Ordered(ctx), Step
  PROVE  Ready /\ Reads(ctx, ctx')
<1>1. Sound(ctx) /\ Foresees(top, ctx)
  BY TopFacts DEF Parsing
<1>2. /\ Reads(ctx, ctx)
      /\ Reads(ctx, Advanced(ctx))
      /\ Reads(ctx, Advanced(Advanced(ctx)))
      /\ Reads(ctx, Looked(ctx))
      /\ Reads(ctx, Looked(Advanced(ctx)))
      /\ Reads(ctx, Advanced(Advanced(Looked(ctx))))
      /\ \A type \in Whats :
           Cur(ctx) = type \/ ctx.win.queue = << >> => Reads(ctx, Expected(ctx, type))
      /\ \A type \in Whats : Reads(ctx, Expected(Advanced(ctx), type))
      /\ Reads(ctx, Emit(ctx, "chained", ctx.win.current))
      /\ Reads(ctx, Emit(ctx, "prefix", ctx.win.current))
      /\ Reads(ctx, Advanced(Emit(ctx, "prefix", ctx.win.current)))
  BY <1>1, ContextReads
<1>3. {"SEMICOLON", "LBRACE", "RBRACE", "LPAREN", "RPAREN", "RETURN", "COLON",
       "EQUAL"} \subseteq Whats
  BY DEF Whats
<1>4. CASE Start
  BY <1>4, <1>2 DEF Start, At
<1>5. CASE Stmt
  BY <1>5, <1>2 DEF Stmt, At
<1>6. CASE StmtEnd
  BY <1>6, <1>1, <1>2, <1>3 DEF StmtEnd, At, Foresees
<1>7. CASE Block
  BY <1>7, <1>1, <1>2, <1>3 DEF Block, At, Foresees
<1>8. CASE BlockStmts
  BY <1>8, <1>1, <1>2, <1>3 DEF BlockStmts, At, Foresees
<1>9. CASE ReturnStmt
  BY <1>9, <1>1, <1>2, <1>3 DEF ReturnStmt, At, Foresees
<1>10. CASE Binding
  BY <1>10, <1>2 DEF Binding, At
<1>11. CASE BindingAnn
  BY <1>11, <1>1, <1>2, <1>3 DEF BindingAnn, At, Foresees
<1>12. CASE Param
  BY <1>12, <1>2, <1>3 DEF Param, At
<1>13. CASE FnParams
  <2>1. Ready /\ top.at = "fn_params"
    BY <1>13 DEF FnParams, At
  <2>2. \/ ctx' \in {ctx, Advanced(ctx)}
        \/ /\ ctx' = Expected(ctx, "RPAREN")
           /\ top.node.kids = << >> => Cur(ctx) = "RPAREN"
    BY <1>13 DEF FnParams
  <2>. QED
    BY <1>1, <1>2, <1>3, <2>1, <2>2 DEF Foresees
<1>14. CASE Literal
  BY <1>14, <1>2 DEF Literal, At
<1>15. CASE Paren
  BY <1>15, <1>2 DEF Paren, At
<1>16. CASE GroupEnd
  BY <1>16, <1>1, <1>2, <1>3 DEF GroupEnd, At, Foresees
<1>17. CASE Unary
  BY <1>17, <1>2 DEF Unary, At
<1>18. CASE NoPrefix
  BY <1>18, <1>2 DEF NoPrefix, At
<1>19. CASE Infix
  BY <1>19, <1>2, <1>3 DEF Infix, At
<1>20. CASE Rhs
  BY <1>20, <1>2 DEF Rhs, At
<1>21. CASE CallArgs
  BY <1>21, <1>1, <1>2, <1>3 DEF CallArgs, At, Foresees
<1>22. CASE If
  BY <1>22, <1>2 DEF If, At
<1>23. CASE IfElse
  BY <1>23, <1>2 DEF IfElse, At
<1>24. CASE Loop
  BY <1>24, <1>2 DEF Loop, At
<1>25. CASE LoopVar
  BY <1>25, <1>2 DEF LoopVar, At
<1>26. CASE \/ Program \/ Build \/ ExprStmt \/ FnBody \/ IfThen
            \/ LoopCond \/ LoopBlock
  BY <1>26, <1>2 DEF Program, Build, ExprStmt, FnBody, IfThen, LoopCond,
                     LoopBlock, At
<1>. QED
  BY <1>4, <1>5, <1>6, <1>7, <1>8, <1>9, <1>10, <1>11, <1>12, <1>13, <1>14,
     <1>15, <1>16, <1>17, <1>18, <1>19, <1>20, <1>21, <1>22, <1>23, <1>24,
     <1>25, <1>26 DEF Step

(* parser_parse() starts with one frame. *)
LEMMA InitialParser == Init => IInv
<1>. SUFFICES ASSUME Init PROVE IInv
  OBVIOUS
<1>. DEFINE node == Node("PROGRAM", UNINIT, << >>)
            f == Frame("start", node)
            w == InitialContext
<1>1. /\ ctx = [win |-> ctx.win, diags |-> ctx.diags]
      /\ ctx.win = w /\ ctx.diags = << >> /\ input = << >>
      /\ closed = FALSE /\ comment = FALSE
      /\ stack = << f >>
  BY DEF Init
<1>2. w.queue = << >> /\ w.lexed = 0 /\ w.current = 0 /\ Len(w.queue) = 0
  BY EmptySeq DEF InitialContext, UNINIT
<1>3. Sound(ctx)
  BY <1>1, <1>2, InitialWindow DEF Sound
<1>4. Ordered(ctx)
  BY <1>1, EmptySeq DEF Ordered
<1>5. input \in Seq(Terminals) /\ Len(input) = 0 /\ Known
  BY <1>1, <1>2, EmptySeq DEF Known
<1>6. IsFrame(f) /\ f.at = "start"
  BY NewFrame DEF Labels
<1>. HIDE DEF f, w
<1>7. Len(stack) = 1 /\ stack[1] = f /\ stack # << >> /\ DOMAIN stack = {1}
      /\ stack \in Seq({f})
  BY <1>1
<1>8. Frames(stack)
  <2>1. {stack[i] : i \in DOMAIN stack} = {f}
    BY <1>7
  <2>2. IsSeq(stack)
    BY <1>7, <2>1 DEF IsSeq
  <2>. QED
    BY <1>6, <1>7, <2>2 DEF Frames, Bottom
<1>9. Foresees(stack[1], ctx)
  BY <1>1, <1>2, <1>6, <1>7 DEF Foresees
<1>10. Paid(stack, ctx.win.current, Cur(ctx))
  <2>1. Price("start", Cur(ctx)) = 1
    BY PriceList
  <2>2. ctx.win.current = 0
    BY <1>1, <1>2
  <2>. QED
    BY <1>6, <1>7, <2>1, <2>2 DEF Paid
<1>11. Begun(stack, ctx.win.current, Cur(ctx))
  BY <1>6, <1>7 DEF Begun
<1>. QED
  BY <1>1, <1>3, <1>4, <1>5, <1>8, <1>9, <1>10, <1>11 DEF IInv, Good

(* What the invariant of the stack takes from the input.                   *)
LEMMA GoodKept ==
  ASSUME Good(stack', ctx'), Cur(ctx)' = Cur(ctx'),
         is_binding_op(TypeOf(ctx'.win.current + 1)) =>
           is_binding_op(TypeOf(ctx.win.current + 1))'
  PROVE  Good(stack, ctx)'
<1>1. /\ Frames(stack') /\ Foresees(stack'[1], ctx')
      /\ Paid(stack', ctx'.win.current, Cur(ctx'))
      /\ Begun(stack', ctx'.win.current, Cur(ctx'))
  BY DEF Good
<1>2. Frames(stack)'
  BY <1>1
<1>3. Foresees(stack[1], ctx)'
  BY <1>1 DEF Foresees
<1>4. Paid(stack, ctx.win.current, Cur(ctx))'
  BY <1>1
<1>5. Begun(stack, ctx.win.current, Cur(ctx))'
  BY <1>1
<1>. QED
  BY <1>2, <1>3, <1>4, <1>5 DEF Good

(* The lexer answers: the tokens that were read stay what they are.        *)
LEMMA RevealKeeps ==
  ASSUME IInv, Reveal
  PROVE  IInv'
<1>1. /\ Sound(ctx) /\ Ordered(ctx) /\ Good(stack, ctx)
      /\ input \in Seq(Terminals) /\ closed = FALSE /\ comment \in BOOLEAN
      /\ ctx.win.lexed <= Len(input) /\ Len(input) \in Nat
      /\ ctx' = ctx /\ stack' = stack
  BY LenProperties DEF IInv, Reveal, Ready, Known
<1>2. /\ ctx.win.current \in Nat /\ ctx.win.current <= Len(input)
      /\ ctx.win.lexed \in Nat
  BY <1>1, SoundNumbers
<1>3. CASE closed' = TRUE /\ comment' \in BOOLEAN /\ UNCHANGED input
  <2>1. Cur(ctx)' = Cur(ctx')
    BY <1>1, <1>3 DEF Cur, TypeOf
  <2>2. is_binding_op(TypeOf(ctx'.win.current + 1)) =>
          is_binding_op(TypeOf(ctx.win.current + 1))'
    BY <1>1, <1>3 DEF TypeOf, is_binding_op
  <2>3. Good(stack, ctx)'
    BY <1>1, <2>1, <2>2, GoodKept
  <2>. QED
    BY <1>1, <1>3, <2>3 DEF IInv, Known
<1>4. CASE /\ UNCHANGED << closed, comment >>
           /\ \E shape \in Shapes :
                /\ Len(input) < Len(shape)
                /\ \E type \in shape[Len(input) + 1] : input' = Append(input, type)
  <2>1. PICK shape \in Shapes :
               /\ Len(input) < Len(shape)
               /\ \E type \in shape[Len(input) + 1] : input' = Append(input, type)
    BY <1>4
  <2>2. PICK type \in shape[Len(input) + 1] : input' = Append(input, type)
    BY <2>1
  <2>3. Len(shape) \in Nat
    BY ShapesAssumption, LenProperties
  <2>4. type \in Terminals
    <3>1. Len(input) + 1 \in 1 .. Len(shape)
      BY <1>1, <2>1, <2>3
    <3>. QED
      BY <3>1 DEF Terminals
  <2>5. /\ input' \in Seq(Terminals) /\ Len(input') = Len(input) + 1
        /\ \A i \in 1 .. Len(input) : input'[i] = input[i]
    BY <1>1, <2>2, <2>4, AppendProperties
  <2>6. \A i \in Nat : i <= Len(input) => TypeOf(i)' = TypeOf(i)
    BY <1>1, <2>5 DEF TypeOf, UNINIT
  <2>7. Cur(ctx)' = Cur(ctx')
    BY <1>1, <1>2, <2>6 DEF Cur
  <2>8. is_binding_op(TypeOf(ctx'.win.current + 1)) =>
          is_binding_op(TypeOf(ctx.win.current + 1))'
    <3>. SUFFICES ASSUME is_binding_op(TypeOf(ctx.win.current + 1))
                  PROVE  is_binding_op(TypeOf(ctx.win.current + 1))'
      BY <1>1
    <3>1. ctx.win.current + 1 <= Len(input)
      BY <1>1, <1>2 DEF TypeOf, is_binding_op, UNINIT
    <3>2. TypeOf(ctx.win.current + 1)' = TypeOf(ctx.win.current + 1)
      BY <1>1, <1>2, <2>6, <3>1
    <3>. QED
      BY <3>2 DEF is_binding_op
  <2>9. Good(stack, ctx)'
    BY <1>1, <2>7, <2>8, GoodKept
  <2>10. ctx.win.lexed <= Len(input')
    BY <1>1, <1>2, <2>5
  <2>. QED
    BY <1>1, <1>4, <2>5, <2>9, <2>10 DEF IInv, Known
<1>. QED
  BY <1>3, <1>4 DEF Reveal

(* Every step of the parser keeps the invariant. *)
LEMMA StepKeeps ==
  ASSUME IInv, Step, UNCHANGED << input, closed, comment >>
  PROVE  IInv'
<1>1. /\ Sound(ctx) /\ Ordered(ctx) /\ Good(stack, ctx) /\ Known
      /\ input \in Seq(Terminals) /\ closed \in BOOLEAN /\ comment \in BOOLEAN
      /\ Parsing
  BY DEF IInv, Parsing
<1>2. Sound(ctx') /\ Good(stack', ctx') /\ Ready /\ Reads(ctx, ctx')
  BY <1>1, StepSound, StepGood, StepReads
<1>3. Cur(ctx)' = Cur(ctx')
  BY DEF Cur, TypeOf
<1>4. is_binding_op(TypeOf(ctx'.win.current + 1)) =>
        is_binding_op(TypeOf(ctx.win.current + 1))'
  BY DEF TypeOf, is_binding_op
<1>5. Good(stack, ctx)'
  BY <1>2, <1>3, <1>4, GoodKept
<1>6. Known'
  <2>1. ctx.win.lexed \in Nat /\ ctx'.win.lexed \in Nat /\ Len(input) \in Nat
    BY <1>1, <1>2, SoundNumbers, LenProperties
  <2>. QED
    BY <1>2, <2>1 DEF Known, Ready, Reads
<1>. QED
  BY <1>1, <1>2, <1>5, <1>6 DEF IInv, Reads

(* At every step of parser_parse(), on every input: each frame stands where *)
(* it called the one above, is paid for by the tokens consumed, and belongs *)
(* to a statement that has consumed a token or is about to.                *)
THEOREM InvariantHolds == Spec => []IInv
<1>1. IInv /\ [Next]_vars => IInv'
  <2>. SUFFICES ASSUME IInv, [Next]_vars
                PROVE  IInv'
    OBVIOUS
  <2>1. CASE Reveal
    BY <2>1, RevealKeeps
  <2>2. CASE Step /\ UNCHANGED << input, closed, comment >>
    BY <2>2, StepKeeps
  <2>3. CASE UNCHANGED vars
    BY <2>3 DEF vars, IInv, Known, Good, Foresees, Cur, TypeOf
  <2>. QED
    BY <2>1, <2>2, <2>3 DEF Next, Terminated
<1>. QED
  BY <1>1, InitialParser, PTL DEF Spec

(* Every label, binding power and report the parser makes is one it knows. *)
THEOREM ParserTypeCorrect == Spec => []TypeOK
<1>1. IInv => TypeOK
  <2>. SUFFICES ASSUME IInv PROVE TypeOK
    OBVIOUS
  <2>1. ctx.win \in Context
    BY DEF IInv, Sound, Window
  <2>2. \A i \in 1 .. Len(ctx.diags) : ctx.diags[i].tok \in 0 .. ctx.win.lexed
    <3>1. ctx.diags \in Seq(Report(ctx.win.lexed))
      BY DEF IInv, Ordered
    <3>2. \A i \in 1 .. Len(ctx.diags) : ctx.diags[i] \in Report(ctx.win.lexed)
      BY <3>1, ElementOfSeq
    <3>. QED
      BY <3>2 DEF Report
  <2>3. \A i \in 1 .. Len(stack) : stack[i].at \in Labels /\ stack[i].min \in 0 .. 13
    BY DEF IInv, Good, Frames, IsFrame
  <2>. QED
    BY <2>1, <2>2, <2>3 DEF IInv, TypeOK
<1>. QED
  BY <1>1, InvariantHolds, PTL

(* The parser never loses, repeats or reorders a token of the lexer, on    *)
(* any input and through every error path, and never looks more than one   *)
(* token ahead: the assert of peek() and the end of token_queue are out of *)
(* its reach.                                                              *)
THEOREM ParserWindowIsSound == Spec => []WindowIsSound
<1>1. IInv => WindowIsSound
  BY DEF IInv, Sound, Window, WindowIsSound
<1>. QED
  BY <1>1, InvariantHolds, PTL

(* What parse_stmt() saw when it dispatched is what parse_binding()        *)
(* consumes two advances later: its BUG() is unreachable, on every input.  *)
THEOREM BugIsUnreachable == Spec => []NoBug
<1>1. IInv => NoBug
  BY DEF IInv, Good, Frames, IsFrame, NoBug
<1>. QED
  BY <1>1, InvariantHolds, PTL

(* The recursion never nests deeper than twice the tokens consumed, plus   *)
(* four, on every input and through every error path.                      *)
THEOREM DepthIsAlwaysPaid == Spec => []DepthIsPaid
<1>1. IInv => DepthIsPaid
  <2>. SUFFICES ASSUME IInv PROVE DepthIsPaid
    OBVIOUS
  <2>. DEFINE p == Price(top.at, Cur(ctx))
              n == ctx.win.current
  <2>1. p <= 4 /\ p \in Int
    <3>1. /\ Base(top.at) \in -2 .. 3 /\ Bonus(top.at, Cur(ctx)) \in 0 .. 2
          /\ Base(top.at) = 3 => Bonus(top.at, Cur(ctx)) <= 1
      BY Prices DEF Base, Bonus
    <3>. QED
      BY <3>1 DEF Price
  <2>2. /\ n \in Nat /\ Len(stack) \in Nat
        /\ Len(stack) <= 2 * n + p \/ Len(stack) <= 2 * n + 1
    BY TopFacts DEF IInv, Parsing
  <2>. HIDE DEF p, n
  <2>3. Len(stack) <= 2 * n + 4
    BY <2>1, <2>2
  <2>. QED
    BY <2>3 DEF DepthIsPaid, n
<1>. QED
  BY <1>1, InvariantHolds, PTL

(* A report is never more than one token late, that of a comment which     *)
(* does not end included: lexer and parser share the list of the reports,  *)
(* and the parser looks only one token ahead.                              *)
THEOREM ReportsAlwaysNearlyInOrder == Spec => []ReportsNearlyInOrder
<1>1. IInv => ReportsNearlyInOrder
  BY DEF IInv, Ordered, ReportsNearlyInOrder
<1>. QED
  BY <1>1, InvariantHolds, PTL

(* No other function is running where parse_stmt() ends. *)
LEMMA OnlyStmtEnd ==
  ASSUME Step, top.at = "stmt_end"
  PROVE  StmtEnd
<1>1. ~Start /\ ~Program /\ ~Stmt /\ ~Build /\ ~Block /\ ~BlockStmts
  BY DEF Start, Program, Stmt, Build, Block, BlockStmts, At
<1>2. ~ReturnStmt /\ ~Binding /\ ~BindingAnn /\ ~ExprStmt
  BY DEF ReturnStmt, Binding, BindingAnn, ExprStmt, At
<1>3. ~Param /\ ~FnParams /\ ~FnBody /\ ~Literal /\ ~Paren /\ ~GroupEnd
  BY DEF Param, FnParams, FnBody, Literal, Paren, GroupEnd, At
<1>4. ~Unary /\ ~NoPrefix /\ ~Infix /\ ~Rhs /\ ~CallArgs
  BY DEF Unary, NoPrefix, Infix, Rhs, CallArgs, At
<1>5. ~If /\ ~IfThen /\ ~IfElse /\ ~Loop /\ ~LoopVar /\ ~LoopCond /\ ~LoopBlock
  BY DEF If, IfThen, IfElse, Loop, LoopVar, LoopCond, LoopBlock, At
<1>. QED
  BY <1>1, <1>2, <1>3, <1>4, <1>5 DEF Step

(* Every statement, malformed ones included, consumes at least a token     *)
(* before it returns: the loops of parse_block() and parse_program()       *)
(* cannot spin.                                                            *)
THEOREM StatementsProgress == Spec => StmtProgress
<1>. DEFINE Progress == top.at = "stmt_end" /\ Len(stack') < Len(stack)
                          => ctx'.win.current > top.node.tok
<1>1. IInv /\ [Next]_vars => [Progress]_vars
  <2>. SUFFICES ASSUME IInv, Next,
                       top.at = "stmt_end", Len(stack') < Len(stack)
                PROVE  ctx'.win.current > top.node.tok
    BY DEF vars
  <2>1. Parsing /\ Sound(ctx)
    BY DEF IInv, Parsing
  <2>2. /\ ctx.win.current \in Nat /\ Len(stack) \in Nat
        /\ top.node.tok \in Nat
        /\ \/ top.node.tok < ctx.win.current
           \/ top.node.tok = ctx.win.current /\ Cur(ctx) = "SEMICOLON"
    BY <2>1, TopFacts
  <2>3. stack' # stack
    BY <2>2
  <2>4. StmtEnd
    BY <2>3, OnlyStmtEnd DEF Next, Reveal, Terminated, vars
  <2>5. ctx' = Expected(ctx, "SEMICOLON")
    BY <2>4 DEF StmtEnd
  <2>6. IF Cur(ctx) = "SEMICOLON" THEN ctx'.win.current = ctx.win.current + 1
        ELSE ctx'.win.current = ctx.win.current
    BY <2>1, <2>5, ExpectedMoves
  <2>. QED
    BY <2>2, <2>6
<1>2. [][Progress]_vars => StmtProgress
  BY PTL DEF StmtProgress
<1>. QED
  BY <1>1, <1>2, InvariantHolds, PTL DEF Spec
=============================================================================
