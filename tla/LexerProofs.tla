----------------------------- MODULE LexerProofs -----------------------------
(***************************************************************************)
(* Proofs about the lexer, for sources of any length: the positions it     *)
(* counts, where its tokens lie, what it skips between them, and that each *)
(* token is the longest lexeme and each refusal is deserved.               *)
(***************************************************************************)
EXTENDS LexerReference, FiniteSetTheorems, SequenceTheorems, WellFoundedInduction, TLAPS

(* k is somewhere in memory m and holds its true position. *)
Tracked(m, k) ==
  /\ k.at \in Nat \ {0} /\ k.line \in Nat \ {0} /\ k.col \in Nat
  /\ k.at <= Len(m) + 1
  /\ Position(m, k)

NewLines(m, i) == {j \in 1 .. i : m[j] = "NL"}

-----------------------------------------------------------------------------
LEMMA PositionParts ==
  ASSUME NEW m, NEW k
  PROVE  Position(m, k) <=>
           /\ k.line = 1 + Cardinality(NewLines(m, k.at - 1))
           /\ k.at - k.col >= 1
           /\ k.at - k.col > 1 => m[k.at - k.col - 1] = "NL"
           /\ \A i \in k.at - k.col .. k.at - 1 : m[i] # "NL"
  BY DEF Position, NewLines

LEMMA NewLinesFinite ==
  ASSUME NEW m, NEW i \in Nat
  PROVE  IsFiniteSet(NewLines(m, i)) /\ Cardinality(NewLines(m, i)) \in Nat
<1>1. IsFiniteSet(1 .. i)
  BY FS_Interval
<1>2. IsFiniteSet(NewLines(m, i))
  BY <1>1, FS_Subset DEF NewLines
<1>. QED
  BY <1>2, FS_CardinalityType

(* Reading one byte more counts it if it is a newline. *)
LEMMA NewLinesStep ==
  ASSUME NEW m, NEW i \in Nat \ {0}
  PROVE  Cardinality(NewLines(m, i)) =
           IF m[i] = "NL" THEN Cardinality(NewLines(m, i - 1)) + 1
                          ELSE Cardinality(NewLines(m, i - 1))
<1>1. IsFiniteSet(NewLines(m, i - 1))
  BY NewLinesFinite
<1>2. CASE m[i] = "NL"
  <2>1. NewLines(m, i) = NewLines(m, i - 1) \cup {i}
    BY <1>2 DEF NewLines
  <2>2. i \notin NewLines(m, i - 1)
    BY DEF NewLines
  <2>. QED
    BY <1>1, <1>2, <2>1, <2>2, FS_AddElement
<1>3. CASE m[i] # "NL"
  <2>1. NewLines(m, i) = NewLines(m, i - 1)
    BY <1>3 DEF NewLines
  <2>. QED
    BY <1>3, <2>1
<1>. QED
  BY <1>2, <1>3

(* advance() keeps the position true. *)
LEMMA AdvTracked ==
  ASSUME mem \in Seq(Bytes), NEW k \in Cursor, Tracked(mem, k), k.at <= Len(mem)
  PROVE  /\ Adv(k) \in Cursor
         /\ Tracked(mem, Adv(k))
         /\ Adv(k).at = k.at + 1
<1>. DEFINE a == Adv(k)
<1>1. k.at \in Nat \ {0} /\ k.line \in Nat \ {0} /\ k.col \in Nat
  BY DEF Cursor
<1>2. Len(mem) \in Nat
  BY LenProperties
<1>3. /\ k.line = 1 + Cardinality(NewLines(mem, k.at - 1))
      /\ k.at - k.col >= 1
      /\ k.at - k.col > 1 => mem[k.at - k.col - 1] = "NL"
      /\ \A i \in k.at - k.col .. k.at - 1 : mem[i] # "NL"
  BY PositionParts DEF Tracked
<1>4. Cardinality(NewLines(mem, k.at - 1)) \in Nat
  BY <1>1, NewLinesFinite
<1>5. a \in Cursor /\ a.at = k.at + 1
  <2>1. CASE mem[k.at] = "NL"
    <3>1. a = [at |-> k.at + 1, line |-> k.line + 1, col |-> 0]
      BY <2>1 DEF Adv, Byte
    <3>. HIDE DEF a
    <3>. QED
      BY <1>1, <3>1 DEF Cursor
  <2>2. CASE mem[k.at] # "NL"
    <3>1. a = [at |-> k.at + 1, line |-> k.line, col |-> k.col + 1]
      BY <2>2 DEF Adv, Byte, Cursor
    <3>. HIDE DEF a
    <3>. QED
      BY <1>1, <3>1 DEF Cursor
  <2>. QED
    BY <2>1, <2>2
<1>6. Position(mem, a)
  <2>1. CASE mem[k.at] = "NL"
    <3>1. a.line = k.line + 1 /\ a.col = 0
      BY <2>1 DEF Adv, Byte
    <3>2. Cardinality(NewLines(mem, k.at)) = Cardinality(NewLines(mem, k.at - 1)) + 1
      BY <1>1, <2>1, NewLinesStep
    <3>. HIDE DEF a
    <3>3. a.at - 1 = k.at /\ a.at - a.col = k.at + 1
      BY <1>1, <1>5, <3>1
    <3>4. a.line = 1 + Cardinality(NewLines(mem, a.at - 1))
      BY <1>1, <1>3, <1>4, <3>1, <3>2, <3>3
    <3>5. \A i \in a.at - a.col .. a.at - 1 : mem[i] # "NL"
      BY <1>1, <3>3
    <3>6. a.at - a.col >= 1 /\ mem[a.at - a.col - 1] = "NL"
      BY <1>1, <2>1, <3>3
    <3>. QED
      BY <3>4, <3>5, <3>6, PositionParts
  <2>2. CASE mem[k.at] # "NL"
    <3>1. a.line = k.line /\ a.col = k.col + 1
      BY <2>2 DEF Adv, Byte, Cursor
    <3>2. Cardinality(NewLines(mem, k.at)) = Cardinality(NewLines(mem, k.at - 1))
      BY <1>1, <2>2, NewLinesStep
    <3>. HIDE DEF a
    <3>3. a.at - 1 = k.at /\ a.at - a.col = k.at - k.col
      <4>1. (k.at + 1) - 1 = k.at /\ (k.at + 1) - (k.col + 1) = k.at - k.col
        BY <1>1
      <4>. QED
        BY <1>5, <3>1, <4>1
    <3>4. a.line = 1 + Cardinality(NewLines(mem, a.at - 1))
      BY <1>3, <3>1, <3>2, <3>3
    <3>5. \A i \in a.at - a.col .. a.at - 1 : mem[i] # "NL"
      <4>1. \A i \in k.at - k.col .. k.at : mem[i] # "NL"
        BY <1>1, <1>3, <2>2
      <4>. QED
        BY <3>3, <4>1
    <3>6. /\ a.at - a.col >= 1
          /\ a.at - a.col > 1 => mem[a.at - a.col - 1] = "NL"
      BY <1>3, <3>3
    <3>. QED
      BY <3>4, <3>5, <3>6, PositionParts
  <2>. QED
    BY <2>1, <2>2
<1>. HIDE DEF a
<1>7. a.at <= Len(mem) + 1
  BY <1>1, <1>2, <1>5
<1>8. Tracked(mem, a)
  BY <1>5, <1>6, <1>7 DEF Tracked, Cursor
<1>. QED
  BY <1>5, <1>8 DEF a

(* What lies before a position does not change when memory is revealed. *)
LEMMA TrackedAppend ==
  ASSUME mem \in Seq(Bytes), NEW byte \in Bytes, NEW k, Tracked(mem, k)
  PROVE  Tracked(Append(mem, byte), k)
<1>. DEFINE m == Append(mem, byte)
<1>1. /\ \A i \in 1 .. Len(mem) : m[i] = mem[i]
      /\ Len(m) = Len(mem) + 1
  BY AppendProperties
<1>. HIDE DEF m
<1>2. Len(mem) \in Nat
  BY LenProperties
<1>3. /\ k.at \in Nat \ {0} /\ k.line \in Nat \ {0} /\ k.col \in Nat
      /\ k.at <= Len(mem) + 1
  BY DEF Tracked
<1>4. \A i \in 1 .. k.at - 1 : m[i] = mem[i]
  BY <1>1, <1>2, <1>3
<1>5. NewLines(m, k.at - 1) = NewLines(mem, k.at - 1)
  BY <1>4 DEF NewLines
<1>6. /\ k.line = 1 + Cardinality(NewLines(mem, k.at - 1))
      /\ k.at - k.col >= 1
      /\ k.at - k.col > 1 => mem[k.at - k.col - 1] = "NL"
      /\ \A i \in k.at - k.col .. k.at - 1 : mem[i] # "NL"
  BY PositionParts DEF Tracked
<1>7. k.at - k.col > 1 => m[k.at - k.col - 1] = "NL"
  BY <1>3, <1>4, <1>6
<1>8. \A i \in k.at - k.col .. k.at - 1 : m[i] # "NL"
  BY <1>3, <1>4, <1>6
<1>9. Position(m, k)
  BY <1>5, <1>6, <1>7, <1>8, PositionParts
<1>10. Tracked(m, k)
  BY <1>1, <1>2, <1>3, <1>9 DEF Tracked
<1>. QED
  BY <1>10 DEF m

(* Going back over bytes of one line from a true position is true as well. *)
LEMMA BackTracked ==
  ASSUME mem \in Seq(Bytes), NEW k, Tracked(mem, k),
         NEW r, r.at \in 1 .. k.at, r.line = k.line, r.col = k.col - (k.at - r.at),
         \A i \in r.at .. k.at - 1 : mem[i] # "NL"
  PROVE  Tracked(mem, r)
<1>1. /\ k.at \in Nat \ {0} /\ k.line \in Nat \ {0} /\ k.col \in Nat
      /\ k.at <= Len(mem) + 1
  BY DEF Tracked
<1>2. Len(mem) \in Nat
  BY LenProperties
<1>3. /\ k.line = 1 + Cardinality(NewLines(mem, k.at - 1))
      /\ k.at - k.col >= 1
      /\ k.at - k.col > 1 => mem[k.at - k.col - 1] = "NL"
      /\ \A i \in k.at - k.col .. k.at - 1 : mem[i] # "NL"
  BY PositionParts DEF Tracked
<1>4. r.at \in Nat \ {0} /\ r.at <= k.at /\ r.at - r.col = k.at - k.col
  BY <1>1
<1>5. k.at - k.col <= r.at
  <2>1. CASE k.at - k.col > 1
    <3>1. mem[k.at - k.col - 1] = "NL"
      BY <1>3, <2>1
    <3>2. k.at - k.col - 1 <= k.at - 1
      BY <1>1
    <3>3. ~(r.at <= k.at - k.col - 1)
      BY <1>1, <1>4, <3>1, <3>2
    <3>. QED
      BY <1>1, <1>4, <3>3
  <2>2. CASE ~(k.at - k.col > 1)
    BY <1>1, <1>4, <2>2
  <2>. QED
    BY <2>1, <2>2
<1>6. r.col \in Nat
  BY <1>1, <1>4, <1>5
<1>7. NewLines(mem, r.at - 1) = NewLines(mem, k.at - 1)
  BY <1>1, <1>4 DEF NewLines
<1>8. \A i \in r.at - r.col .. r.at - 1 : mem[i] # "NL"
  BY <1>1, <1>3, <1>4, <1>5
<1>9. Position(mem, r)
  BY <1>3, <1>4, <1>7, <1>8, PositionParts
<1>. QED
  BY <1>1, <1>2, <1>4, <1>6, <1>9 DEF Tracked

-----------------------------------------------------------------------------
(* The inductive invariant.  A token that spans no newline and every report *)
(* hold a true position; the token a loop of one line reads has no newline, *)
(* which is why error_token() may count its column back from the cursor.    *)
InLine == {"punctuator", "number", "HEX", "OCTAL", "BINARY"}

OneLine(m, from, to) == \A i \in from .. to - 1 : m[i] # "NL"

TokenTracked(m, t) ==
  /\ t.at \in Nat \ {0} /\ t.len \in Nat
  /\ t.at + t.len <= Len(m) + 1
  /\ OneLine(m, t.at, t.at + t.len) => Tracked(m, t)

IInv ==
  /\ mem \in Seq(Bytes)
  /\ cur \in Cursor /\ Tracked(mem, cur)
  /\ start \in Cursor /\ Tracked(mem, start)
  /\ start.at <= cur.at
  /\ mode \in InLine => OneLine(mem, start.at, cur.at)
  /\ toks \in Seq(Range(toks))
  /\ \A i \in 1 .. Len(toks) : TokenTracked(mem, toks[i])
  /\ diags \in Seq(Range(diags))
  /\ \A i \in 1 .. Len(diags) : Tracked(mem, diags[i])

(* A cursor the lexer may move to. *)
Reached(k) == k \in Cursor /\ Tracked(mem, k) /\ cur.at <= k.at

LEMMA ReachedCursors ==
  ASSUME IInv
  PROVE  /\ Reached(cur)
         /\ Ready => Reached(Adv(cur))
         /\ Ready /\ c # "NUL" => Reached(Adv(Adv(cur)))
<1>1. Len(mem) \in Nat /\ cur.at \in Nat
  BY LenProperties DEF IInv, Cursor
<1>2. Reached(cur)
  BY <1>1 DEF IInv, Reached
<1>3. ASSUME Ready PROVE Reached(Adv(cur)) /\ Adv(cur).at = cur.at + 1
  <2>1. cur.at <= Len(mem)
    BY <1>1, <1>3 DEF Ready
  <2>. QED
    BY <1>1, <2>1, AdvTracked DEF IInv, Reached
<1>4. ASSUME Ready, c # "NUL" PROVE Reached(Adv(Adv(cur)))
  <2>1. cur.at + 1 <= Len(mem)
    BY <1>1, <1>4 DEF Ready
  <2>2. Adv(cur) \in Cursor /\ Tracked(mem, Adv(cur)) /\ Adv(cur).at = cur.at + 1
    BY <1>3, <1>4 DEF Reached
  <2>3. /\ Adv(Adv(cur)) \in Cursor
        /\ Tracked(mem, Adv(Adv(cur)))
        /\ Adv(Adv(cur)).at = Adv(cur).at + 1
    BY <2>1, <2>2, AdvTracked DEF IInv
  <2>. QED
    BY <1>1, <2>2, <2>3 DEF Reached
<1>. QED
  BY <1>2, <1>3, <1>4

LEMMA AppendRange ==
  ASSUME NEW s, s \in Seq(Range(s)), NEW e
  PROVE  /\ Append(s, e) \in Seq(Range(Append(s, e)))
         /\ Len(s) \in Nat
         /\ Len(Append(s, e)) = Len(s) + 1
         /\ \A i \in 1 .. Len(s) : Append(s, e)[i] = s[i]
         /\ Append(s, e)[Len(s) + 1] = e
<1>. DEFINE S == Range(s) \cup {e}
            a == Append(s, e)
<1>1. s \in Seq(S) /\ e \in S
  BY SeqMonotonic
<1>. HIDE DEF S
<1>2. /\ a \in Seq(S) /\ Len(s) \in Nat
      /\ Len(a) = Len(s) + 1
      /\ \A i \in 1 .. Len(s) : a[i] = s[i]
      /\ a[Len(s) + 1] = e
  BY <1>1, AppendProperties, LenProperties
<1>. HIDE DEF a
<1>3. a \in [1 .. Len(a) -> S]
  BY <1>2, LenProperties
<1>4. a \in [1 .. Len(a) -> Range(a)]
  BY <1>3 DEF Range
<1>5. a \in Seq(Range(a))
  BY <1>2, <1>4, SeqDef
<1>. QED
  BY <1>2, <1>5 DEF a

(* A step that only moves the cursor. *)
LEMMA GotoSound ==
  ASSUME IInv, mem' = mem, NEW m, NEW k, Reached(k), Goto(m, k),
         m \in InLine => OneLine(mem, start.at, k.at)
  PROVE  IInv'
<1>1. /\ mode' = m /\ cur' = k
      /\ start' = start /\ toks' = toks /\ diags' = diags
  BY DEF Goto
<1>2. start.at <= k.at
  BY DEF IInv, Reached, Cursor
<1>. QED
  BY <1>1, <1>2 DEF IInv, Reached

(* A token that ends where the lexer is. *)
LEMMA ReturnSound ==
  ASSUME IInv, mem' = mem, NEW type, NEW k, Reached(k), Return(type, k)
  PROVE  IInv'
<1>. DEFINE len == k.at - start.at
            t == [type |-> type, at |-> start.at, len |-> len,
                  line |-> k.line, col |-> k.col - len]
<1>1. /\ mode' = "noise" /\ cur' = k /\ toks' = Append(toks, t)
      /\ start' = start /\ diags' = diags
  BY DEF Return
<1>2. /\ start.at \in Nat \ {0} /\ k.at \in Nat \ {0}
      /\ start.at <= cur.at /\ cur.at \in Nat /\ cur.at <= k.at
      /\ Tracked(mem, k)
  BY DEF IInv, Reached, Cursor
<1>3. t.at = start.at /\ t.len = len /\ t.line = k.line /\ t.col = k.col - len
  OBVIOUS
<1>4. TokenTracked(mem, t)
  <2>1. len \in Nat /\ start.at + len = k.at /\ start.at \in 1 .. k.at
    BY <1>2
  <2>2. k.at <= Len(mem) + 1
    BY <1>2 DEF Tracked
  <2>. HIDE DEF t
  <2>3. ASSUME OneLine(mem, t.at, t.at + t.len) PROVE Tracked(mem, t)
    <3>1. \A i \in t.at .. k.at - 1 : mem[i] # "NL"
      BY <1>3, <2>1, <2>3 DEF OneLine
    <3>2. t.at \in 1 .. k.at /\ t.col = k.col - (k.at - t.at)
      BY <1>3, <2>1
    <3>3. mem \in Seq(Bytes)
      BY DEF IInv
    <3>. QED
      BY <1>2, <1>3, <3>1, <3>2, <3>3, BackTracked
  <2>. QED
    BY <1>2, <1>3, <2>1, <2>2, <2>3 DEF TokenTracked
<1>. HIDE DEF t
<1>5. /\ toks' \in Seq(Range(toks'))
      /\ Len(toks) \in Nat /\ Len(toks') = Len(toks) + 1
      /\ \A i \in 1 .. Len(toks) : toks'[i] = toks[i]
      /\ toks'[Len(toks) + 1] = t
  BY <1>1, AppendRange DEF IInv
<1>6. \A i \in 1 .. Len(toks') : TokenTracked(mem, toks'[i])
  BY <1>4, <1>5 DEF IInv
<1>7. start.at <= k.at /\ mode' \notin InLine
  BY <1>1, <1>2 DEF InLine
<1>8. /\ mem' \in Seq(Bytes)
      /\ cur' \in Cursor /\ Tracked(mem', cur')
      /\ start' \in Cursor /\ Tracked(mem', start')
      /\ start'.at <= cur'.at
      /\ diags' \in Seq(Range(diags'))
      /\ \A i \in 1 .. Len(diags') : Tracked(mem', diags'[i])
  BY <1>1, <1>7 DEF IInv, Reached
<1>. QED
  BY <1>5, <1>6, <1>7, <1>8 DEF IInv

(* A report, at a true position. *)
LEMMA ReportSound ==
  ASSUME IInv, mem' = mem, NEW len, NEW line, NEW col, Report(len, line, col),
         \A r : (r.at = start.at /\ r.line = line /\ r.col = col) => Tracked(mem, r)
  PROVE  /\ diags' \in Seq(Range(diags'))
         /\ \A i \in 1 .. Len(diags') : Tracked(mem', diags'[i])
<1>. DEFINE d == [at |-> start.at, len |-> len, line |-> line, col |-> col]
<1>1. diags' = Append(diags, d) /\ Tracked(mem, d)
  BY DEF Report
<1>. HIDE DEF d
<1>2. /\ diags' \in Seq(Range(diags'))
      /\ Len(diags) \in Nat /\ Len(diags') = Len(diags) + 1
      /\ \A i \in 1 .. Len(diags) : diags'[i] = diags[i]
      /\ diags'[Len(diags) + 1] = d
  BY <1>1, AppendRange DEF IInv
<1>. QED
  BY <1>1, <1>2 DEF IInv

(* ... together with the TK_ERROR token of error_token(). *)
LEMMA ReturnErrorSound ==
  ASSUME IInv, mem' = mem, NEW len \in Nat, NEW line, NEW col, NEW k,
         Reached(k), ReturnError(len, line, col, k), start.at + len <= Len(mem) + 1,
         \A r : (r.at = start.at /\ r.line = line /\ r.col = col) => Tracked(mem, r)
  PROVE  IInv'
<1>. DEFINE t == [type |-> "ERROR", at |-> start.at, len |-> len,
                  line |-> line, col |-> col]
<1>1. /\ mode' = "noise" /\ cur' = k /\ toks' = Append(toks, t)
      /\ start' = start /\ Report(len, line, col)
  BY DEF ReturnError
<1>2. TokenTracked(mem, t)
  <2>1. Tracked(mem, t) /\ t.at = start.at /\ t.len = len
    OBVIOUS
  <2>. HIDE DEF t
  <2>. QED
    BY <2>1 DEF TokenTracked, IInv, Cursor
<1>. HIDE DEF t
<1>3. /\ toks' \in Seq(Range(toks'))
      /\ Len(toks) \in Nat /\ Len(toks') = Len(toks) + 1
      /\ \A i \in 1 .. Len(toks) : toks'[i] = toks[i]
      /\ toks'[Len(toks) + 1] = t
  BY <1>1, AppendRange DEF IInv
<1>4. \A i \in 1 .. Len(toks') : TokenTracked(mem, toks'[i])
  <2>1. \A i \in 1 .. Len(toks) : TokenTracked(mem, toks[i])
    BY DEF IInv
  <2>2. \A i \in 1 .. Len(toks') : i \in 1 .. Len(toks) \/ i = Len(toks) + 1
    BY <1>3
  <2>. QED
    BY <1>2, <1>3, <2>1, <2>2
<1>5. start.at <= k.at /\ mode' \notin InLine
  BY <1>1 DEF InLine, IInv, Reached, Cursor
<1>6. /\ diags' \in Seq(Range(diags'))
      /\ \A i \in 1 .. Len(diags') : Tracked(mem', diags'[i])
  BY <1>1, ReportSound
<1>7. /\ mem' \in Seq(Bytes)
      /\ cur' \in Cursor /\ Tracked(mem', cur')
      /\ start' \in Cursor /\ Tracked(mem', start')
      /\ start'.at <= cur'.at
  BY <1>1, <1>5 DEF IInv, Reached
<1>. QED
  BY <1>3, <1>4, <1>5, <1>6, <1>7 DEF IInv

LEMMA ErrorAtStartSound ==
  ASSUME IInv, mem' = mem, NEW k, Reached(k), ReturnErrorAtStart(k)
  PROVE  IInv'
<1>1. /\ k.at - start.at \in Nat
      /\ start.at + (k.at - start.at) <= Len(mem) + 1
  <2>1. /\ start.at \in Nat /\ cur.at \in Nat /\ k.at \in Nat
        /\ start.at <= cur.at /\ cur.at <= k.at /\ k.at <= Len(mem) + 1
    BY DEF IInv, Reached, Tracked, Cursor
  <2>. QED
    BY <2>1
<1>2. \A r : (r.at = start.at /\ r.line = start.line /\ r.col = start.col)
            => Tracked(mem, r)
  BY DEF IInv, Tracked, Position
<1>3. ReturnError(k.at - start.at, start.line, start.col, k)
  BY DEF ReturnErrorAtStart
<1>. QED
  BY <1>1, <1>2, <1>3, ReturnErrorSound

(* error_token() with a column counted back from the cursor. *)
LEMMA ErrorInLineSound ==
  ASSUME IInv, mem' = mem, mode \in InLine,
         ReturnError(cur.at - start.at, cur.line, cur.col - (cur.at - start.at), cur)
  PROVE  IInv'
<1>. DEFINE len == cur.at - start.at
<1>1. /\ start.at \in 1 .. cur.at /\ len \in Nat
      /\ start.at + len <= Len(mem) + 1
      /\ mem \in Seq(Bytes) /\ Tracked(mem, cur)
      /\ Reached(cur)
  <2>1. Reached(cur)
    BY ReachedCursors
  <2>2. mem \in Seq(Bytes) /\ Tracked(mem, cur) /\ start.at <= cur.at
    BY DEF IInv
  <2>3. start.at \in Nat \ {0} /\ cur.at \in Nat
    BY DEF IInv, Cursor
  <2>4. cur.at <= Len(mem) + 1
    BY <2>2 DEF Tracked
  <2>. QED
    BY <2>1, <2>2, <2>3, <2>4
<1>2. \A i \in start.at .. cur.at - 1 : mem[i] # "NL"
  BY DEF IInv, OneLine
<1>3. \A r : (r.at = start.at /\ r.line = cur.line /\ r.col = cur.col - len)
            => Tracked(mem, r)
  BY <1>1, <1>2, BackTracked
<1>. HIDE DEF len
<1>4. ReturnError(len, cur.line, cur.col - len, cur)
  BY DEF len
<1>. QED
  BY <1>1, <1>3, <1>4, ReturnErrorSound

(* The next byte extends a line that it does not end. *)
LEMMA OneLineStep ==
  ASSUME IInv, Ready, OneLine(mem, start.at, cur.at), c # "NL"
  PROVE  OneLine(mem, start.at, Adv(cur).at)
<1>1. Adv(cur).at = cur.at + 1
  BY DEF IInv, Cursor, Adv
<1>2. start.at \in Nat /\ cur.at \in Nat
  BY DEF IInv, Cursor
<1>3. mem[cur.at] # "NL"
  BY DEF c, Byte
<1>. QED
  BY <1>1, <1>2, <1>3 DEF OneLine

(* No punctuator contains a newline, so the longest match stays in its line. *)
LEMMA PunctuatorsHaveNoNewline ==
  \A t \in DOMAIN Punctuators : \A j \in 1 .. Len(Punctuators[t]) :
    Punctuators[t][j] # "NL"
  BY SMT DEF Punctuators

LEMMA PunctuatorsInLine ==
  ASSUME NEW text, Spelling(Punctuators, text, "none") # "none",
         NEW i \in 1 .. Len(text)
  PROVE  text[i] # "NL"
<1>1. PICK type \in DOMAIN Punctuators : Punctuators[type] = text
  BY DEF Spelling
<1>. QED
  BY <1>1, PunctuatorsHaveNoNewline

LEMMA NoiseSound ==
  ASSUME IInv, mem' = mem,
         SkipBlank \/ OpenComment \/ LineComment \/ BlockComment \/ Eof \/ Begin
  PROVE  IInv'
<1>. USE ReachedCursors
<1>1. CASE SkipBlank
  BY <1>1, GotoSound DEF SkipBlank, At, InLine
<1>2. CASE OpenComment
  <2>1. /\ Ready /\ c # "NUL" /\ start' = cur /\ cur' = Adv(Adv(cur))
        /\ toks' = toks /\ diags' = diags /\ mode' \notin InLine
    BY <1>2 DEF OpenComment, At, InLine
  <2>2. start'.at <= cur'.at
    BY <2>1 DEF Reached
  <2>. QED
    BY <2>1, <2>2 DEF IInv, Reached
<1>3. CASE LineComment
  BY <1>3, GotoSound DEF LineComment, At, InLine
<1>4. CASE BlockComment
  <2>1. Ready /\ mode \notin InLine
    BY <1>4 DEF BlockComment, At, InLine
  <2>2. CASE c = "NUL"
    <3>1. /\ Report(2, start.line, start.col) /\ mode' = "noise"
          /\ cur' = cur /\ start' = start /\ toks' = toks
      BY <1>4, <2>2 DEF BlockComment
    <3>2. \A r : (r.at = start.at /\ r.line = start.line /\ r.col = start.col)
                => Tracked(mem, r)
      BY DEF IInv, Tracked, Position
    <3>3. /\ diags' \in Seq(Range(diags'))
          /\ \A i \in 1 .. Len(diags') : Tracked(mem', diags'[i])
      BY <3>1, <3>2, ReportSound
    <3>. QED
      BY <3>1, <3>3 DEF IInv, InLine
  <2>3. CASE c = "*"
    <3>1. PICK m \in {"noise", mode} : Goto(m, Adv(Adv(cur)))
      BY <1>4, <2>3 DEF BlockComment
    <3>2. m \notin InLine
      BY <2>1 DEF InLine
    <3>. QED
      BY <2>1, <2>3, <3>1, <3>2, GotoSound
  <2>4. CASE c \notin {"NUL", "*"}
    <3>1. Goto(mode, Adv(cur))
      BY <1>4, <2>4 DEF BlockComment
    <3>. QED
      BY <2>1, <3>1, GotoSound
  <2>. QED
    BY <2>2, <2>3, <2>4
<1>5. CASE Eof
  <2>. DEFINE t == [type |-> "EOF", at |-> cur.at, len |-> 0,
                    line |-> cur.line, col |-> cur.col]
  <2>1. /\ toks' = Append(toks, t) /\ mode' = "done"
        /\ cur' = cur /\ start' = start /\ diags' = diags
    BY <1>5 DEF Eof
  <2>2. TokenTracked(mem, t)
    <3>1. t.at = cur.at /\ t.len = 0 /\ t.line = cur.line /\ t.col = cur.col
      OBVIOUS
    <3>. HIDE DEF t
    <3>. QED
      BY <3>1 DEF IInv, TokenTracked, Tracked, Position
  <2>. HIDE DEF t
  <2>3. /\ toks' \in Seq(Range(toks'))
        /\ Len(toks) \in Nat /\ Len(toks') = Len(toks) + 1
        /\ \A i \in 1 .. Len(toks) : toks'[i] = toks[i]
        /\ toks'[Len(toks) + 1] = t
    BY <2>1, AppendRange DEF IInv
  <2>4. \A i \in 1 .. Len(toks') : TokenTracked(mem, toks'[i])
    BY <2>2, <2>3 DEF IInv
  <2>. QED
    BY <2>1, <2>3, <2>4 DEF IInv, InLine
<1>6. CASE Begin
  <2>1. /\ Ready /\ c # "NL" /\ start' = cur /\ cur' = Adv(cur)
        /\ toks' = toks /\ diags' = diags
    BY <1>6 DEF Begin, At, Blank
  <2>2. start'.at <= cur'.at
    BY <2>1 DEF Reached
  <2>3. OneLine(mem', start'.at, cur'.at)
    <3>1. Adv(cur).at = cur.at + 1 /\ cur.at \in Nat
      BY DEF IInv, Cursor, Adv
    <3>. QED
      BY <2>1, <3>1 DEF OneLine, c, Byte
  <2>. QED
    BY <2>1, <2>2, <2>3 DEF IInv, Reached
<1>. QED
  BY <1>1, <1>2, <1>3, <1>4, <1>5, <1>6

LEMMA PunctuatorSound ==
  ASSUME IInv, mem' = mem, Punctuator
  PROVE  IInv'
<1>. DEFINE type == Spelling(Punctuators, Text(cur), "none")
<1>1. Ready /\ mode = "punctuator" /\ OneLine(mem, start.at, cur.at)
  BY DEF Punctuator, At, IInv, InLine
<1>2. Reached(cur) /\ Reached(Adv(cur))
  BY <1>1, ReachedCursors
<1>3. CASE Spelling(Punctuators, Text(Adv(cur)), "none") # "none"
  <2>1. /\ start.at \in Nat \ {0} /\ cur.at \in Nat /\ start.at <= cur.at
        /\ cur.at <= Len(mem) /\ Len(mem) \in Nat
        /\ Adv(cur).at = cur.at + 1
    BY <1>1, LenProperties DEF IInv, Cursor, Ready, Adv
  <2>2. Text(Adv(cur)) = SubSeq(mem, start.at, cur.at)
    BY <2>1 DEF Text
  <2>3. /\ Len(SubSeq(mem, start.at, cur.at)) = cur.at - start.at + 1
        /\ SubSeq(mem, start.at, cur.at)[cur.at - start.at + 1] = mem[cur.at]
    <3>1. mem \in Seq(Bytes) /\ start.at \in 1 .. Len(mem) + 1
          /\ cur.at \in start.at - 1 .. Len(mem)
      BY <2>1 DEF IInv
    <3>2. cur.at - start.at + 1 \in 1 .. cur.at - start.at + 1
          /\ start.at + (cur.at - start.at + 1) - 1 = cur.at
      BY <2>1
    <3>. QED
      BY <3>1, <3>2, SubSeqProperties
  <2>4. cur.at - start.at + 1 \in 1 .. Len(Text(Adv(cur)))
    BY <2>1, <2>2, <2>3
  <2>5. c # "NL"
    BY <1>3, <2>2, <2>3, <2>4, PunctuatorsInLine DEF c, Byte
  <2>6. Goto(mode, Adv(cur)) /\ OneLine(mem, start.at, Adv(cur).at)
    BY <1>1, <1>3, <2>5, OneLineStep DEF Punctuator
  <2>. QED
    BY <1>2, <2>6, GotoSound
<1>4. CASE /\ Spelling(Punctuators, Text(Adv(cur)), "none") = "none"
           /\ type \in {"none", "Increment", "Decrement"}
  <2>1. ReturnError(cur.at - start.at, cur.line, cur.col - (cur.at - start.at), cur)
    BY <1>4 DEF Punctuator
  <2>. QED
    BY <1>1, <2>1, ErrorInLineSound DEF InLine
<1>5. CASE /\ Spelling(Punctuators, Text(Adv(cur)), "none") = "none"
           /\ type \notin {"none", "Increment", "Decrement"}
  <2>1. Return(type, cur)
    BY <1>5 DEF Punctuator
  <2>. QED
    BY <1>2, <2>1, ReturnSound
<1>. QED
  BY <1>3, <1>4, <1>5

LEMMA NumberSound ==
  ASSUME IInv, mem' = mem, Number \/ PrefixedDigits \/ Decimal \/ Fraction
  PROVE  IInv'
<1>. USE ReachedCursors
<1>1. CASE Number
  <2>1. Ready /\ mode = "number" /\ OneLine(mem, start.at, cur.at)
    BY <1>1 DEF Number, At, IInv, InLine
  <2>2. CASE Byte(start.at) = "0" /\ Radix # "decimal"
    <3>1. Goto(Radix, Adv(cur))
      BY <1>1, <2>2 DEF Number
    <3>2. c # "NL"
      BY <2>2 DEF Radix
    <3>3. OneLine(mem, start.at, Adv(cur).at)
      BY <2>1, <3>2, OneLineStep
    <3>. QED
      BY <2>1, <3>1, <3>3, GotoSound
  <2>3. CASE ~(Byte(start.at) = "0" /\ Radix # "decimal")
    <3>1. Goto("decimal", cur)
      BY <1>1, <2>3 DEF Number
    <3>. QED
      BY <3>1, GotoSound DEF InLine
  <2>. QED
    BY <2>2, <2>3
<1>2. CASE PrefixedDigits
  <2>. DEFINE digits == CASE mode = "HEX" -> Hex [] mode = "OCTAL" -> Oct [] OTHER -> Bin
  <2>1. Ready /\ mode \in InLine /\ OneLine(mem, start.at, cur.at)
    BY <1>2 DEF PrefixedDigits, IInv, InLine
  <2>2. CASE c \in digits
    <3>1. Goto(mode, Adv(cur))
      BY <1>2, <2>2 DEF PrefixedDigits
    <3>2. c # "NL"
      BY <2>2 DEF Hex, Digit, Oct, Bin
    <3>3. OneLine(mem, start.at, Adv(cur).at)
      BY <2>1, <3>2, OneLineStep
    <3>. QED
      BY <2>1, <3>1, <3>3, GotoSound
  <2>3. CASE c \notin digits /\ cur.at = start.at + 2
    <3>1. ReturnError(cur.at - start.at, cur.line, cur.col - 2, cur)
      BY <1>2, <2>3 DEF PrefixedDigits
    <3>2. cur.at - start.at = 2
      BY <2>3 DEF IInv, Cursor
    <3>. QED
      BY <2>1, <3>1, <3>2, ErrorInLineSound
  <2>4. CASE c \notin digits /\ cur.at # start.at + 2
    <3>1. Return(mode, cur)
      BY <1>2, <2>4 DEF PrefixedDigits
    <3>. QED
      BY <3>1, ReturnSound
  <2>. QED
    BY <2>2, <2>3, <2>4
<1>3. CASE Decimal
  <2>1. Ready /\ mode \notin InLine
    BY <1>3 DEF Decimal, At, InLine
  <2>2. \/ Goto(mode, Adv(cur)) \/ Goto("fraction", Adv(cur)) \/ Return("NUMBER", cur)
    BY <1>3 DEF Decimal
  <2>. QED
    BY <2>1, <2>2, GotoSound, ReturnSound DEF InLine
<1>4. CASE Fraction
  <2>1. Ready /\ mode \notin InLine
    BY <1>4 DEF Fraction, At, InLine
  <2>2. Goto(mode, Adv(cur)) \/ Return("FLOATING", cur)
    BY <1>4 DEF Fraction
  <2>. QED
    BY <2>1, <2>2, GotoSound, ReturnSound
<1>. QED
  BY <1>1, <1>2, <1>3, <1>4

LEMMA LiteralSound ==
  ASSUME IInv, mem' = mem,
         \/ String \/ Char \/ CharEnd
         \/ Escape \/ HexDigit \/ HexDigit2 \/ BadEscape
  PROVE  IInv'
<1>1. Ready /\ mode \notin InLine
  BY DEF String, Char, CharEnd, Escape, HexDigit, HexDigit2, BadEscape, At, InLine
<1>2. Reached(cur) /\ Reached(Adv(cur))
  BY <1>1, ReachedCursors
<1>3. ASSUME NEW m, m \notin InLine, Goto(m, cur) \/ Goto(m, Adv(cur)) PROVE IInv'
  BY <1>2, <1>3, GotoSound
<1>4. ASSUME NEW k \in {cur, Adv(cur)}, ReturnErrorAtStart(k) PROVE IInv'
  BY <1>2, <1>4, ErrorAtStartSound
<1>5. mode \notin InLine /\ Resume \notin InLine
  BY <1>1 DEF InLine, Resume
<1>6. CASE String
  <2>1. \/ ReturnErrorAtStart(cur) \/ Return("STRINGLIT", Adv(cur))
        \/ Goto("escape", Adv(cur)) \/ Goto(mode, Adv(cur))
    BY <1>6 DEF String
  <2>. QED
    BY <1>2, <1>3, <1>4, <1>5, <2>1, ReturnSound DEF InLine
<1>7. CASE Char
  <2>1. CASE ReturnError(1, start.line, start.col, cur)
    <3>1. start.at + 1 <= Len(mem) + 1
      <4>1. start.at <= cur.at /\ cur.at <= Len(mem)
        BY <1>1 DEF IInv, Ready
      <4>2. start.at \in Nat /\ cur.at \in Nat /\ Len(mem) \in Nat
        BY LenProperties DEF IInv, Cursor
      <4>. QED
        BY <4>1, <4>2
    <3>2. \A r : (r.at = start.at /\ r.line = start.line /\ r.col = start.col)
                => Tracked(mem, r)
      BY DEF IInv, Tracked, Position
    <3>. QED
      BY <1>2, <2>1, <3>1, <3>2, ReturnErrorSound
  <2>2. CASE Goto("escape", Adv(cur)) \/ Goto("char_end", Adv(cur))
    BY <1>3, <2>2 DEF InLine
  <2>. QED
    BY <1>7, <2>1, <2>2 DEF Char
<1>8. CASE CharEnd
  BY <1>2, <1>4, <1>8, ReturnSound DEF CharEnd
<1>9. CASE Escape
  <2>1. \/ Goto(Resume, Adv(cur)) \/ Goto("hex_digit", Adv(cur)) \/ Goto("bad_escape", cur)
    BY <1>9 DEF Escape
  <2>. QED
    BY <1>3, <1>5, <2>1 DEF InLine
<1>10. CASE HexDigit
  <2>1. Goto("hex_digit_2", Adv(cur)) \/ Goto("bad_escape", cur)
    BY <1>10 DEF HexDigit
  <2>. QED
    BY <1>3, <2>1 DEF InLine
<1>11. CASE HexDigit2
  <2>1. Goto(Resume, Adv(cur)) \/ Goto(Resume, cur)
    BY <1>11 DEF HexDigit2
  <2>. QED
    BY <1>3, <1>5, <2>1
<1>12. CASE BadEscape
  <2>1. ReturnErrorAtStart(Adv(cur)) \/ Goto(mode, Adv(cur))
    BY <1>12 DEF BadEscape
  <2>. QED
    BY <1>3, <1>4, <1>5, <2>1
<1>. QED
  BY <1>6, <1>7, <1>8, <1>9, <1>10, <1>11, <1>12

LEMMA WordSound ==
  ASSUME IInv, mem' = mem, Word
  PROVE  IInv'
<1>1. Ready /\ mode \notin InLine
  BY DEF Word, At, InLine
<1>2. \/ Goto(mode, Adv(cur))
      \/ Return(Spelling(Keywords, Text(cur), "ID"), cur)
  BY DEF Word
<1>. QED
  BY <1>1, <1>2, ReachedCursors, GotoSound, ReturnSound

LEMMA RevealByte ==
  ASSUME IInv, Reveal
  PROVE  \E byte \in Bytes : mem' = Append(mem, byte)
<1>1. Len(mem) \in Nat
  BY LenProperties DEF IInv
<1>2. CASE mem' = Append(mem, "NUL")
  BY <1>2 DEF Bytes
<1>3. CASE \E shape \in Shapes :
             /\ Len(mem) < Len(shape)
             /\ \E byte \in shape[Len(mem) + 1] : mem' = Append(mem, byte)
  <2>1. PICK shape \in Shapes :
             /\ Len(mem) < Len(shape)
             /\ \E byte \in shape[Len(mem) + 1] : mem' = Append(mem, byte)
    BY <1>3
  <2>2. Len(mem) + 1 \in 1 .. Len(shape)
    BY <1>1, <2>1, ShapesAssumption
  <2>3. shape[Len(mem) + 1] \subseteq Bytes
    BY <2>2 DEF Bytes
  <2>. QED
    BY <2>1, <2>3
<1>. QED
  BY <1>2, <1>3 DEF Reveal

(* Revealing a byte changes nothing that was read before. *)
LEMMA RevealSound ==
  ASSUME IInv, Reveal
  PROVE  IInv'
<1>1. PICK byte \in Bytes : mem' = Append(mem, byte)
  BY RevealByte
<1>2. /\ cur' = cur /\ mode' = mode /\ start' = start
      /\ toks' = toks /\ diags' = diags
  BY DEF Reveal
<1>3. /\ mem' \in Seq(Bytes) /\ Len(mem) \in Nat /\ Len(mem') = Len(mem) + 1
      /\ \A i \in 1 .. Len(mem) : mem'[i] = mem[i]
  BY <1>1, AppendProperties, LenProperties DEF IInv
<1>4. Tracked(mem', cur) /\ Tracked(mem', start)
  BY <1>1, TrackedAppend DEF IInv
<1>5. ASSUME mode \in InLine PROVE OneLine(mem', start.at, cur.at)
  <2>1. \A i \in start.at .. cur.at - 1 : i \in 1 .. Len(mem) /\ mem[i] # "NL"
    BY <1>3, <1>5 DEF IInv, OneLine, Tracked, Cursor
  <2>. QED
    BY <1>3, <2>1 DEF OneLine
<1>6. ASSUME NEW i \in 1 .. Len(toks) PROVE TokenTracked(mem', toks[i])
  <2>. DEFINE t == toks[i]
  <2>1. TokenTracked(mem, t)
    BY DEF IInv
  <2>. HIDE DEF t
  <2>2. /\ t.at \in Nat \ {0} /\ t.len \in Nat /\ t.at + t.len <= Len(mem) + 1
    BY <2>1 DEF TokenTracked
  <2>3. \A j \in t.at .. t.at + t.len - 1 : mem'[j] = mem[j]
    <3>1. \A j \in t.at .. t.at + t.len - 1 : j \in 1 .. Len(mem)
      BY <1>3, <2>2
    <3>. QED
      BY <1>3, <3>1
  <2>4. OneLine(mem', t.at, t.at + t.len) => Tracked(mem, t)
    BY <2>1, <2>3 DEF TokenTracked, OneLine
  <2>5. Tracked(mem, t) => Tracked(mem', t)
    BY <1>1, TrackedAppend DEF IInv
  <2>6. TokenTracked(mem', t)
    BY <1>3, <2>2, <2>4, <2>5 DEF TokenTracked
  <2>. QED
    BY <2>6 DEF t
<1>7. \A i \in 1 .. Len(diags) : Tracked(mem', diags[i])
  BY <1>1, TrackedAppend DEF IInv
<1>. QED
  BY <1>2, <1>3, <1>4, <1>5, <1>6, <1>7 DEF IInv

-----------------------------------------------------------------------------
LEMMA InitSound == Init => IInv
<1>. SUFFICES ASSUME Init PROVE IInv
  OBVIOUS
<1>1. /\ mem = << >> /\ cur = [at |-> 1, line |-> 1, col |-> 0] /\ start = cur
      /\ mode = "noise" /\ toks = << >> /\ diags = << >>
  BY DEF Init
<1>2. cur \in Cursor /\ cur.at = 1 /\ cur.line = 1 /\ cur.col = 0
  BY <1>1 DEF Cursor
<1>3. Cardinality(NewLines(mem, 0)) = 0
  <2>1. NewLines(mem, 0) = {}
    BY DEF NewLines
  <2>. QED
    BY <2>1, FS_EmptySet
<1>4. Position(mem, cur)
  BY <1>2, <1>3, PositionParts
<1>5. mem \in Seq(Bytes) /\ Len(mem) = 0
  BY <1>1
<1>6. Tracked(mem, cur)
  BY <1>2, <1>4, <1>5 DEF Tracked
<1>7. toks \in Seq(Range(toks)) /\ diags \in Seq(Range(diags))
  BY <1>1
<1>. QED
  BY <1>1, <1>2, <1>5, <1>6, <1>7 DEF IInv, InLine

LEMMA NextSound == IInv /\ [Next]_vars => IInv'
<1>. SUFFICES ASSUME IInv, [Next]_vars PROVE IInv'
  OBVIOUS
<1>1. CASE Reveal
  BY <1>1, RevealSound
<1>2. CASE Step /\ UNCHANGED mem
  BY <1>2, NoiseSound, PunctuatorSound, WordSound, NumberSound, LiteralSound DEF Step
<1>3. CASE UNCHANGED vars
  BY <1>3 DEF vars, IInv
<1>. QED
  BY <1>1, <1>2, <1>3 DEF Next, Terminated

(* The line and column of lexer_context are those of the byte it is at, for *)
(* every source: advance() is the only way the lexer moves.                 *)
THEOREM CursorAlwaysTracked == Spec => []CursorIsTracked
<1>1. IInv => CursorIsTracked
  BY DEF IInv, Tracked, CursorIsTracked
<1>. QED
  BY InitSound, NextSound, <1>1, PTL DEF Spec

(* Every lexical report carries the line it is on and a column from which   *)
(* diag_flush() finds the beginning of that line.                           *)
THEOREM ReportsAlwaysPointAtSource == Spec => []ReportsPointAtSource
<1>1. IInv => ReportsPointAtSource
  BY DEF IInv, Tracked, ReportsPointAtSource
<1>. QED
  BY InitSound, NextSound, <1>1, PTL DEF Spec

(* create_token() computes the right column for every token on one line.    *)
THEOREM TokensAlwaysPointAtSource == Spec => []TokensPointAtSource
<1>1. IInv => TokensPointAtSource
  <2>1. ASSUME NEW t, TokenTracked(mem, t) PROVE TokenPointsAtSource(mem, t)
    BY <2>1 DEF TokenTracked, Tracked, OneLine, TokenPointsAtSource
  <2>2. IInv => \A i \in 1 .. Len(toks) : TokenTracked(mem, toks[i])
    BY DEF IInv
  <2>. QED
    BY <2>1, <2>2 DEF TokensPointAtSource
<1>. QED
  BY InitSound, NextSound, <1>1, PTL DEF Spec
-----------------------------------------------------------------------------
(* Noise.  IsNoise is a recursive function of a text; the lemmas give the  *)
(* same fact as a set of places where the noise may be cut, which needs no *)
(* recursion and grows with the lexer.                                     *)

(* The bytes from k up to l are one blank or one comment. *)
Piece(m, k, l) ==
  \/ l = k + 1 /\ m[k] \in Blank
  \/ k < l /\ IsPassed(SubSeq(m, k, l - 1))

(* The bytes from a up to b are noise, cut at the members of T. *)
Cuts(m, a, b, T) == \A k \in T : k = b \/ \E l \in T : k < l /\ Piece(m, k, l)

Skips(m, a, b) == \E T \in SUBSET (a .. b) : a \in T /\ Cuts(m, a, b, T)

(* A set of numbers up to n has a greatest one. *)
LEMMA Greatest ==
  ASSUME NEW n \in Nat, NEW T, T \subseteq 0 .. n, T # {}
  PROVE  \E x \in T : \A y \in T : y <= x
<1>. DEFINE R == OpToRel(<, Nat)
            U == {n - x : x \in T}
<1>1. U \subseteq Nat /\ U # {}
  <2>1. ASSUME NEW x \in T PROVE n - x \in Nat /\ n - x \in U
    <3>1. x \in 0 .. n
      OBVIOUS
    <3>. QED
      BY <3>1
  <2>. QED
    BY <2>1
<1>2. IsWellFoundedOn(R, Nat)
  BY NatLessThanWellFounded
<1>3. PICK u \in U : \A v \in U : ~ (<< v, u >> \in R)
  <2>. HIDE DEF R, U
  <2>. QED
    BY <1>1, <1>2, WFMin
<1>4. PICK x \in T : u = n - x
  BY <1>3
<1>5. ASSUME NEW y \in T PROVE y <= x
  <2>1. << n - y, u >> \notin R
    BY <1>3
  <2>2. ~(n - y < u)
    BY <1>1, <2>1 DEF OpToRel
  <2>. QED
    BY <1>4, <2>2
<1>. QED
  BY <1>5

LEMMA SkipsNothing ==
  ASSUME NEW m, NEW a \in Nat
  PROVE  Skips(m, a, a)
<1>1. {a} \in SUBSET (a .. a) /\ a \in {a} /\ Cuts(m, a, a, {a})
  BY DEF Cuts
<1>. QED
  BY <1>1 DEF Skips

(* Noise followed by a blank or a comment is noise. *)
LEMMA SkipsMore ==
  ASSUME NEW m, NEW a \in Nat, NEW b \in Nat, NEW d \in Nat, a <= b, b < d,
         Skips(m, a, b), Piece(m, b, d)
  PROVE  Skips(m, a, d)
<1>1. PICK T \in SUBSET (a .. b) : a \in T /\ Cuts(m, a, b, T)
  BY DEF Skips
<1>2. T \cup {d} \in SUBSET (a .. d)
  BY <1>1
<1>3. ASSUME NEW k \in T \cup {d}
      PROVE  k = d \/ \E l \in T \cup {d} : k < l /\ Piece(m, k, l)
  BY <1>1, <1>3 DEF Cuts
<1>. QED
  BY <1>1, <1>2, <1>3 DEF Skips, Cuts

(* The fixed point that IsNoise names. *)
LEMMA NoiseStep ==
  ASSUME NEW S, NEW text \in Seq(S), NEW i \in 1 .. Len(text) + 1
  PROVE  Skips(text, i, Len(text) + 1) <=>
           \/ i = Len(text) + 1
           \/ text[i] \in Blank /\ Skips(text, i + 1, Len(text) + 1)
           \/ \E j \in i .. Len(text) :
                IsPassed(SubSeq(text, i, j)) /\ Skips(text, j + 1, Len(text) + 1)
<1>. DEFINE n == Len(text) + 1
<1>0. n \in Nat /\ Len(text) \in Nat /\ i \in Nat /\ i <= n
  BY LenProperties
<1>1. ASSUME Skips(text, i, n), i # n
      PROVE  \/ text[i] \in Blank /\ Skips(text, i + 1, n)
             \/ \E j \in i .. Len(text) :
                  IsPassed(SubSeq(text, i, j)) /\ Skips(text, j + 1, n)
  <2>1. PICK T \in SUBSET (i .. n) : i \in T /\ Cuts(text, i, n, T)
    BY <1>1 DEF Skips
  <2>2. PICK l \in T : i < l /\ Piece(text, i, l)
    BY <1>1, <2>1 DEF Cuts
  <2>3. l \in Nat /\ l <= n
    BY <1>0, <2>1, <2>2
  <2>4. Skips(text, l, n)
    <3>. DEFINE U == {k \in T : l <= k}
    <3>1. U \in SUBSET (l .. n) /\ l \in U
      <4>1. ASSUME NEW k \in U PROVE k \in l .. n
        <5>1. k \in i .. n /\ l <= k
          BY <2>1
        <5>. QED
          BY <1>0, <2>3, <5>1
      <4>2. l \in U
        BY <2>2, <2>3
      <4>. HIDE DEF U
      <4>. QED
        BY <4>1, <4>2
    <3>2. ASSUME NEW k \in U PROVE k = n \/ \E o \in U : k < o /\ Piece(text, k, o)
      <4>1. k \in T /\ l <= k /\ k \in Nat
        BY <1>0, <2>1
      <4>2. CASE k # n
        <5>1. PICK o \in T : k < o /\ Piece(text, k, o)
          BY <2>1, <4>1, <4>2 DEF Cuts
        <5>2. o \in Nat
          BY <1>0, <2>1, <5>1
        <5>3. o \in U
          BY <2>3, <4>1, <5>1, <5>2
        <5>. QED
          BY <5>1, <5>3
      <4>. QED
        BY <4>2
    <3>. HIDE DEF U
    <3>. QED
      BY <3>1, <3>2 DEF Skips, Cuts
  <2>5. CASE l = i + 1 /\ text[i] \in Blank
    BY <2>4, <2>5
  <2>6. CASE IsPassed(SubSeq(text, i, l - 1))
    <3>1. l - 1 \in i .. Len(text) /\ (l - 1) + 1 = l
      BY <1>0, <2>2, <2>3
    <3>. QED
      BY <2>4, <2>6, <3>1
  <2>. QED
    BY <2>2, <2>5, <2>6 DEF Piece
<1>2. ASSUME NEW l \in i + 1 .. n, Piece(text, i, l), Skips(text, l, n) PROVE Skips(text, i, n)
  <2>1. PICK T \in SUBSET (l .. n) : l \in T /\ Cuts(text, l, n, T)
    BY <1>2 DEF Skips
  <2>2. T \cup {i} \in SUBSET (i .. n)
    BY <1>0, <1>2, <2>1
  <2>3. ASSUME NEW k \in T \cup {i}
        PROVE  k = n \/ \E o \in T \cup {i} : k < o /\ Piece(text, k, o)
    <3>1. CASE k = i
      BY <1>0, <1>2, <2>1, <3>1
    <3>2. CASE k \in T
      BY <2>1, <3>2 DEF Cuts
    <3>. QED
      BY <3>1, <3>2
  <2>. QED
    BY <2>2, <2>3 DEF Skips, Cuts
<1>3. ASSUME i = n PROVE Skips(text, i, n)
  BY <1>0, <1>3, SkipsNothing
<1>4. ASSUME i # n, text[i] \in Blank, Skips(text, i + 1, n) PROVE Skips(text, i, n)
  <2>1. i + 1 \in i + 1 .. n /\ Piece(text, i, i + 1)
    BY <1>0, <1>4 DEF Piece
  <2>. QED
    BY <1>2, <1>4, <2>1
<1>5. ASSUME NEW j \in i .. Len(text), IsPassed(SubSeq(text, i, j)), Skips(text, j + 1, n)
      PROVE  Skips(text, i, n)
  <2>1. j + 1 \in i + 1 .. n /\ (j + 1) - 1 = j /\ i < j + 1
    BY <1>0
  <2>2. Piece(text, i, j + 1)
    BY <1>5, <2>1 DEF Piece
  <2>. QED
    BY <1>2, <1>5, <2>1, <2>2
<1>. QED
  BY <1>1, <1>3, <1>4, <1>5

LEMMA NoiseOfCuts ==
  ASSUME NEW S, NEW text \in Seq(S), Skips(text, 1, Len(text) + 1)
  PROVE  IsNoise(text)
<1>. DEFINE n == Len(text) + 1
            D == 1 .. n
            Def(f) == [i \in D |->
                         \/ i = Len(text) + 1
                         \/ text[i] \in Blank /\ f[i + 1]
                         \/ \E j \in i .. Len(text) : IsPassed(SubSeq(text, i, j)) /\ f[j + 1]]
            skips == [i \in D |-> Skips(text, i, n)]
            e == CHOOSE f : f = Def(f)
<1>0. Len(text) \in Nat /\ n \in Nat
  BY LenProperties
<1>1. skips = Def(skips)
  <2>1. ASSUME NEW i \in D
        PROVE  skips[i] = ( \/ i = Len(text) + 1
                            \/ text[i] \in Blank /\ skips[i + 1]
                            \/ \E j \in i .. Len(text) :
                                 IsPassed(SubSeq(text, i, j)) /\ skips[j + 1] )
    <3>1. i # n => i + 1 \in D
      BY <1>0
    <3>2. \A j \in i .. Len(text) : j + 1 \in D
      BY <1>0
    <3>3. \A k \in D : skips[k] = Skips(text, k, n)
      OBVIOUS
    <3>4. Skips(text, i, n) <=>
            \/ i = n
            \/ text[i] \in Blank /\ Skips(text, i + 1, n)
            \/ \E j \in i .. Len(text) :
                 IsPassed(SubSeq(text, i, j)) /\ Skips(text, j + 1, n)
      BY NoiseStep
    <3>5. /\ skips[i] \in BOOLEAN
          /\ skips[i] <=> \/ i = n
                          \/ text[i] \in Blank /\ skips[i + 1]
                          \/ \E j \in i .. Len(text) :
                               IsPassed(SubSeq(text, i, j)) /\ skips[j + 1]
      <4>1. skips[i] = Skips(text, i, n) /\ Skips(text, i, n) \in BOOLEAN
        BY <3>3 DEF Skips
      <4>2. i # n => skips[i + 1] = Skips(text, i + 1, n)
        BY <3>1, <3>3
      <4>3. \A j \in i .. Len(text) : skips[j + 1] = Skips(text, j + 1, n)
        BY <3>2, <3>3
      <4>. HIDE DEF skips, D, n
      <4>. QED
        BY <3>4, <4>1, <4>2, <4>3
    <3>. HIDE DEF skips, D
    <3>. QED
      BY <3>5
  <2>. QED
    BY <2>1
<1>2. e = Def(e)
  BY <1>1
<1>3. IsNoise(text) = e[1]
  BY DEF IsNoise
<1>. HIDE DEF e
<1>4. \A i \in D : e[i] = ( \/ i = Len(text) + 1
                            \/ text[i] \in Blank /\ e[i + 1]
                            \/ \E j \in i .. Len(text) :
                                 IsPassed(SubSeq(text, i, j)) /\ e[j + 1] )
  BY <1>2
<1>5. PICK T \in SUBSET (1 .. n) : 1 \in T /\ Cuts(text, 1, n, T)
  BY DEF Skips
<1>. DEFINE Bad == {k \in T : ~e[k]}
<1>6. Bad = {}
  <2>. SUFFICES ASSUME Bad # {} PROVE FALSE
    OBVIOUS
  <2>1. PICK k \in Bad : \A o \in Bad : o <= k
    <3>1. Bad \subseteq 0 .. n
      <4>1. ASSUME NEW k \in Bad PROVE k \in 0 .. n
        <5>1. k \in 1 .. n
          BY <1>5
        <5>. QED
          BY <1>0, <5>1
      <4>. QED
        BY <4>1
    <3>. HIDE DEF Bad
    <3>. QED
      BY <1>0, <3>1, Greatest
  <2>2. k \in D /\ k \in T /\ ~e[k] /\ k # n
    BY <1>4, <1>5, <2>1
  <2>3. PICK l \in T : k < l /\ Piece(text, k, l)
    BY <1>5, <2>2 DEF Cuts
  <2>4. l \in D /\ k \in Nat /\ l \in Nat
    BY <1>0, <1>5, <2>2, <2>3
  <2>5. e[l]
    BY <2>1, <2>3, <2>4
  <2>6. CASE l = k + 1 /\ text[k] \in Blank
    BY <1>4, <2>2, <2>5, <2>6
  <2>7. CASE IsPassed(SubSeq(text, k, l - 1))
    <3>1. l - 1 \in k .. Len(text) /\ (l - 1) + 1 = l
      BY <1>0, <2>3, <2>4
    <3>2. e[(l - 1) + 1] /\ IsPassed(SubSeq(text, k, l - 1))
      BY <2>5, <2>7, <3>1
    <3>. QED
      BY <1>4, <2>2, <3>1, <3>2
  <2>. QED
    BY <2>3, <2>6, <2>7 DEF Piece
<1>. QED
  BY <1>3, <1>5, <1>6

(* Bytes of a part of memory. *)
LEMMA PartBytes ==
  ASSUME NEW S, NEW m \in Seq(S), NEW a \in Nat \ {0}, NEW b \in Nat, b <= Len(m), a <= b + 1
  PROVE  /\ SubSeq(m, a, b) \in Seq(S)
         /\ Len(SubSeq(m, a, b)) = b - a + 1
         /\ \A i \in 1 .. b - a + 1 : SubSeq(m, a, b)[i] = m[a + i - 1]
<1>1. Len(m) \in Nat
  BY LenProperties
<1>2. a \in 1 .. Len(m) + 1 /\ b \in a - 1 .. Len(m)
  BY <1>1
<1>3. /\ SubSeq(m, a, b) \in Seq(S)
      /\ Len(SubSeq(m, a, b)) = b - a + 1
      /\ \A i \in 1 .. b - a + 1 : SubSeq(m, a, b)[i] = m[a + i - 1]
  BY <1>2, SubSeqProperties
<1>. QED
  BY <1>3

(* Two parts with the same bytes, d apart, are equal. *)
LEMMA SameParts ==
  ASSUME NEW S, NEW m \in Seq(S), NEW a \in Nat \ {0}, NEW b \in Nat, b <= Len(m), a <= b + 1,
         NEW U, NEW o \in Seq(U), NEW d \in Int, a + d \in Nat \ {0}, b + d \in Nat,
         b + d <= Len(o), \A i \in a .. b : o[i + d] = m[i]
  PROVE  SubSeq(m, a, b) = SubSeq(o, a + d, b + d)
<1>. DEFINE v == SubSeq(m, a, b)
            w == SubSeq(o, a + d, b + d)
            n == b - a + 1
<1>0. n \in Nat
  OBVIOUS
<1>1. v \in Seq(S) /\ Len(v) = n /\ \A i \in 1 .. n : v[i] = m[a + i - 1]
  BY PartBytes
<1>2. w \in Seq(U) /\ Len(w) = n /\ \A i \in 1 .. n : w[i] = o[(a + d) + i - 1]
  <2>. DEFINE p == a + d
              q == b + d
  <2>1. q - p + 1 = n /\ p <= q + 1 /\ p \in Nat \ {0} /\ q \in Nat /\ q <= Len(o)
    OBVIOUS
  <2>2. w = SubSeq(o, p, q)
    OBVIOUS
  <2>3. \A i : o[(a + d) + i - 1] = o[p + i - 1]
    OBVIOUS
  <2>. HIDE DEF w, n, p, q
  <2>4. w \in Seq(U) /\ Len(w) = q - p + 1 /\ \A i \in 1 .. q - p + 1 : w[i] = o[p + i - 1]
    BY <2>1, <2>2, PartBytes
  <2>. QED
    BY <2>1, <2>3, <2>4
<1>3. ASSUME NEW i \in 1 .. n PROVE v[i] = w[i]
  <2>1. a + i - 1 \in a .. b /\ (a + i - 1) + d = (a + d) + i - 1
    OBVIOUS
  <2>2. o[(a + i - 1) + d] = m[a + i - 1]
    BY <2>1
  <2>. QED
    BY <1>1, <1>2, <2>1, <2>2
<1>4. v \in [1 .. n -> S] /\ w \in [1 .. n -> U]
  <2>. HIDE DEF v, w, n
  <2>. QED
    BY <1>1, <1>2, LenProperties
<1>. HIDE DEF v, w, n
<1>5. v = w
  <2>1. v = [i \in 1 .. n |-> v[i]] /\ w = [i \in 1 .. n |-> w[i]]
    BY <1>4
  <2>2. [i \in 1 .. n |-> v[i]] = [i \in 1 .. n |-> w[i]]
    BY <1>3
  <2>. QED
    BY <2>1, <2>2
<1>. QED
  BY <1>5 DEF v, w

(* A piece is a piece wherever its bytes lie. *)
LEMMA SamePiece ==
  ASSUME NEW S, NEW m \in Seq(S), NEW k \in Nat \ {0}, NEW l \in Nat, k < l, l <= Len(m) + 1,
         NEW U, NEW o \in Seq(U), NEW d \in Int, k + d \in Nat \ {0}, l + d <= Len(o) + 1,
         \A i \in k .. l - 1 : o[i + d] = m[i],
         Piece(m, k, l)
  PROVE  Piece(o, k + d, l + d)
<1>0. Len(m) \in Nat /\ Len(o) \in Nat
  BY LenProperties
<1>1. CASE l = k + 1 /\ m[k] \in Blank
  <2>1. o[k + d] = m[k]
    OBVIOUS
  <2>2. l = k + 1
    BY <1>1
  <2>3. l + d = (k + d) + 1
    BY <2>2
  <2>. QED
    BY <1>1, <2>1, <2>3 DEF Piece
<1>2. CASE IsPassed(SubSeq(m, k, l - 1))
  <2>. DEFINE e == l - 1
  <2>1. /\ e \in Nat /\ e <= Len(m) /\ k <= e + 1
        /\ e + d \in Nat /\ e + d <= Len(o)
        /\ (l + d) - 1 = e + d /\ k + d < l + d
    BY <1>0
  <2>2. \A i \in k .. e : o[i + d] = m[i]
    OBVIOUS
  <2>3. IsPassed(SubSeq(m, k, e))
    BY <1>2
  <2>. HIDE DEF e
  <2>4. SubSeq(m, k, e) = SubSeq(o, k + d, e + d)
    BY <2>1, <2>2, SameParts
  <2>. QED
    BY <2>1, <2>3, <2>4 DEF Piece
<1>. QED
  BY <1>1, <1>2 DEF Piece

(* Noise in memory is noise as a text. *)
LEMMA SkipsIsNoise ==
  ASSUME NEW S, NEW m \in Seq(S), NEW a \in Nat \ {0}, NEW b \in Nat, a <= b, b <= Len(m) + 1,
         Skips(m, a, b)
  PROVE  IsNoise(SubSeq(m, a, b - 1))
<1>. DEFINE text == SubSeq(m, a, b - 1)
            n == b - a
<1>0. Len(m) \in Nat /\ n \in Nat /\ b - 1 \in Nat /\ b - 1 <= Len(m) /\ (b - 1) - a + 1 = n
  BY LenProperties
<1>1. text \in Seq(S) /\ Len(text) = n /\ \A i \in 1 .. n : text[i] = m[a + i - 1]
  <2>1. a <= (b - 1) + 1
    OBVIOUS
  <2>2. /\ text \in Seq(S) /\ Len(text) = (b - 1) - a + 1
        /\ \A i \in 1 .. (b - 1) - a + 1 : text[i] = m[a + i - 1]
    BY <1>0, <2>1, PartBytes
  <2>. HIDE DEF text, n
  <2>. QED
    BY <1>0, <2>2
<1>2. PICK T \in SUBSET (a .. b) : a \in T /\ Cuts(m, a, b, T)
  BY DEF Skips
<1>. DEFINE U == {k - a + 1 : k \in T}
<1>3. U \in SUBSET (1 .. n + 1) /\ 1 \in U
  <2>1. ASSUME NEW k \in T PROVE k - a + 1 \in 1 .. n + 1
    <3>1. k \in a .. b
      BY <1>2
    <3>. QED
      BY <3>1
  <2>2. a - a + 1 = 1
    OBVIOUS
  <2>. QED
    BY <1>2, <2>1, <2>2
<1>. HIDE DEF text
<1>4. ASSUME NEW k \in T, NEW l \in T, k < l, Piece(m, k, l)
      PROVE  Piece(text, k - a + 1, l - a + 1)
  <2>1. k \in a .. b /\ l \in a .. b
    BY <1>2
  <2>. DEFINE d == 1 - a
  <2>2. /\ d \in Int /\ k + d = k - a + 1 /\ l + d = l - a + 1
        /\ k + d \in Nat \ {0} /\ l + d <= Len(text) + 1
        /\ k \in Nat \ {0} /\ l \in Nat /\ l <= Len(m) + 1
    BY <1>0, <1>1, <1>4, <2>1
  <2>3. \A i \in k .. l - 1 : text[i + d] = m[i]
    <3>. SUFFICES ASSUME NEW i \in k .. l - 1 PROVE text[i + d] = m[i]
      OBVIOUS
    <3>1. i + d \in 1 .. n /\ a + (i + d) - 1 = i
      BY <1>0, <1>4, <2>1
    <3>. QED
      BY <1>1, <3>1
  <2>. HIDE DEF d, n
  <2>4. Piece(text, k + d, l + d)
    BY <1>1, <1>4, <2>2, <2>3, SamePiece
  <2>. QED
    BY <2>2, <2>4
<1>5. Cuts(text, 1, n + 1, U)
  <2>. SUFFICES ASSUME NEW p \in U, p # n + 1
                PROVE  \E q \in U : p < q /\ Piece(text, p, q)
    BY DEF Cuts
  <2>1. PICK k \in T : p = k - a + 1
    OBVIOUS
  <2>2. k \in a .. b
    BY <1>2
  <2>3. k # b
    BY <1>0, <2>1, <2>2
  <2>4. PICK l \in T : k < l /\ Piece(m, k, l)
    BY <1>2, <2>3 DEF Cuts
  <2>5. l \in a .. b
    BY <1>2
  <2>6. l - a + 1 \in U /\ k - a + 1 < l - a + 1
    BY <2>2, <2>4, <2>5
  <2>. QED
    BY <1>4, <2>1, <2>4, <2>6
<1>6. Skips(text, 1, Len(text) + 1)
  <2>. HIDE DEF U
  <2>. QED
    BY <1>1, <1>3, <1>5 DEF Skips
<1>7. IsNoise(text)
  BY <1>1, <1>6, NoiseOfCuts
<1>. QED
  BY <1>7 DEF text

(* Revealing a byte leaves the noise before it alone. *)
LEMMA SkipsAppend ==
  ASSUME NEW S, NEW m \in Seq(S), NEW byte \in S, NEW a \in Nat \ {0}, NEW b \in Nat,
         b <= Len(m) + 1, Skips(m, a, b)
  PROVE  Skips(Append(m, byte), a, b)
<1>. DEFINE o == Append(m, byte)
<1>1. o \in Seq(S) /\ Len(m) \in Nat /\ Len(o) = Len(m) + 1 /\ \A i \in 1 .. Len(m) : o[i] = m[i]
  BY AppendProperties, LenProperties
<1>. HIDE DEF o
<1>2. PICK T \in SUBSET (a .. b) : a \in T /\ Cuts(m, a, b, T)
  BY DEF Skips
<1>3. ASSUME NEW k \in T, NEW l \in T, k < l, Piece(m, k, l)
      PROVE  Piece(o, k, l)
  <2>1. k \in a .. b /\ l \in a .. b
    BY <1>2
  <2>. DEFINE d == 0
  <2>2. /\ k \in Nat \ {0} /\ l \in Nat /\ l <= Len(m) + 1 /\ l + d <= Len(o) + 1
        /\ d \in Int /\ k + d \in Nat \ {0} /\ k + d = k /\ l + d = l
    BY <1>1, <1>3, <2>1
  <2>3. \A i \in k .. l - 1 : o[i + d] = m[i]
    <3>. SUFFICES ASSUME NEW i \in k .. l - 1 PROVE o[i + d] = m[i]
      OBVIOUS
    <3>1. i \in 1 .. Len(m) /\ i + d = i
      BY <1>1, <2>1, <2>2
    <3>. QED
      BY <1>1, <3>1
  <2>. HIDE DEF d
  <2>4. Piece(o, k + d, l + d)
    BY <1>1, <1>3, <2>2, <2>3, SamePiece
  <2>. QED
    BY <2>2, <2>4
<1>4. Cuts(o, a, b, T)
  BY <1>2, <1>3 DEF Cuts
<1>. QED
  BY <1>2, <1>4 DEF Skips, o

-----------------------------------------------------------------------------
(* Where the tokens lie.  While a token or a comment is open the cursor is  *)
(* beyond its first byte, and every token ends at the cursor or before it.  *)
TokenModes == Modes \ {"noise", "line_comment", "block_comment", "done"}

Placed ==
  /\ mode \in Modes
  /\ mode \notin {"noise", "done"} => start.at < cur.at
  /\ \A i \in 1 .. Len(toks) : toks[i].at + toks[i].len <= cur.at

(* What a step that reads a token may do, with the cursor at k after it.    *)
Moves(k) ==
  \/ \E m \in TokenModes : Goto(m, k)
  \/ \E type : Return(type, k)
  \/ \E len \in Nat : \E line, col : start.at + len <= k.at /\ ReturnError(len, line, col, k)

Numbers ==
  /\ start.at \in Nat \ {0} /\ cur.at \in Nat \ {0} /\ Len(mem) \in Nat
  /\ start.at <= cur.at /\ cur.at <= Len(mem) + 1

LEMMA NumbersHold ==
  ASSUME IInv
  PROVE  /\ Numbers
         /\ Adv(cur).at = cur.at + 1
         /\ Adv(Adv(cur)).at = cur.at + 2
<1>1. Numbers
  BY LenProperties DEF Numbers, IInv, Tracked, Cursor
<1>2. Adv(cur).at = cur.at + 1
  BY DEF IInv, Cursor, Adv
<1>3. Adv(Adv(cur)).at = cur.at + 2
  <2>1. Adv(cur).at \in Nat /\ Adv(Adv(cur)).at = Adv(cur).at + 1
    <3>1. Adv(cur) \in Cursor
      <4>1. cur.at \in Nat \ {0} /\ cur.line \in Nat \ {0} /\ cur.col \in Nat
        BY DEF IInv, Cursor
      <4>2. CASE mem[cur.at] = "NL"
        <5>1. Adv(cur) = [at |-> cur.at + 1, line |-> cur.line + 1, col |-> 0]
          BY <4>2 DEF Adv, Byte
        <5>. QED
          BY <4>1, <5>1 DEF Cursor
      <4>3. CASE mem[cur.at] # "NL"
        <5>1. Adv(cur) = [at |-> cur.at + 1, line |-> cur.line, col |-> cur.col + 1]
          BY <4>3 DEF Adv, Byte, IInv, Cursor
        <5>. QED
          BY <4>1, <5>1 DEF Cursor
      <4>. QED
        BY <4>2, <4>3
    <3>2. ASSUME NEW k \in Cursor PROVE Adv(k).at = k.at + 1 /\ k.at \in Nat
      BY DEF Cursor, Adv
    <3>. QED
      BY <3>1, <3>2
  <2>. QED
    BY <1>1, <1>2, <2>1 DEF Numbers
<1>. QED
  BY <1>1, <1>2, <1>3

LEMMA TokenMoves ==
  ASSUME IInv, Placed,
         \/ Punctuator \/ Word \/ Number \/ PrefixedDigits \/ Decimal \/ Fraction
         \/ String \/ Char \/ CharEnd \/ Escape \/ HexDigit \/ HexDigit2 \/ BadEscape
  PROVE  mode \in TokenModes /\ (Moves(cur) \/ Moves(Adv(cur)))
<1>1. mode \in TokenModes
  BY DEF Punctuator, Word, Number, PrefixedDigits, Decimal, Fraction, String, Char, CharEnd,
         Escape, HexDigit, HexDigit2, BadEscape, At, TokenModes, Modes
<1>2. /\ Numbers /\ Adv(cur).at = cur.at + 1 /\ start.at < cur.at
  BY <1>1, NumbersHold DEF Placed, TokenModes
<1>3. ASSUME NEW m \in TokenModes, NEW k, Goto(m, k) PROVE Moves(k)
  BY <1>3 DEF Moves
<1>4. ASSUME NEW type, NEW k, Return(type, k) PROVE Moves(k)
  BY <1>4 DEF Moves
<1>5. ASSUME NEW len \in Nat, NEW line, NEW col, NEW k,
             start.at + len <= k.at, ReturnError(len, line, col, k)
      PROVE  Moves(k)
  BY <1>5 DEF Moves
<1>6. /\ cur.at - start.at \in Nat /\ start.at + (cur.at - start.at) <= cur.at
      /\ Adv(cur).at - start.at \in Nat /\ start.at + (Adv(cur).at - start.at) <= Adv(cur).at
      /\ start.at + 1 <= cur.at
  BY <1>2 DEF Numbers
<1>7. ASSUME NEW k \in {cur, Adv(cur)}, ReturnErrorAtStart(k) PROVE Moves(k)
  BY <1>5, <1>6, <1>7 DEF ReturnErrorAtStart
<1>8. Resume \in TokenModes
  BY DEF Resume, TokenModes, Modes
<1>9. CASE Punctuator
  <2>1. \/ Goto(mode, Adv(cur))
        \/ ReturnError(cur.at - start.at, cur.line, cur.col - (cur.at - start.at), cur)
        \/ \E type : Return(type, cur)
    BY <1>9 DEF Punctuator
  <2>. QED
    BY <1>1, <1>3, <1>4, <1>5, <1>6, <2>1
<1>10. CASE Word
  <2>1. Goto(mode, Adv(cur)) \/ Return(Spelling(Keywords, Text(cur), "ID"), cur)
    BY <1>10 DEF Word
  <2>. QED
    BY <1>1, <1>3, <1>4, <2>1
<1>11. CASE Number
  <2>1. Goto(Radix, Adv(cur)) \/ Goto("decimal", cur)
    BY <1>11 DEF Number
  <2>2. Radix \in TokenModes /\ "decimal" \in TokenModes
    BY DEF Radix, TokenModes, Modes
  <2>. QED
    BY <1>1, <1>3, <2>1, <2>2
<1>12. CASE PrefixedDigits
  <2>1. \/ Goto(mode, Adv(cur)) \/ Return(mode, cur)
        \/ ReturnError(cur.at - start.at, cur.line, cur.col - 2, cur)
    BY <1>12 DEF PrefixedDigits
  <2>. QED
    BY <1>1, <1>3, <1>4, <1>5, <1>6, <2>1
<1>13. CASE Decimal
  <2>1. Goto(mode, Adv(cur)) \/ Goto("fraction", Adv(cur)) \/ Return("NUMBER", cur)
    BY <1>13 DEF Decimal
  <2>2. "fraction" \in TokenModes
    BY DEF TokenModes, Modes
  <2>. QED
    BY <1>1, <1>3, <1>4, <2>1, <2>2
<1>14. CASE Fraction
  <2>1. Goto(mode, Adv(cur)) \/ Return("FLOATING", cur)
    BY <1>14 DEF Fraction
  <2>. QED
    BY <1>1, <1>3, <1>4, <2>1
<1>15. CASE String
  <2>1. \/ ReturnErrorAtStart(cur) \/ Return("STRINGLIT", Adv(cur))
        \/ Goto("escape", Adv(cur)) \/ Goto(mode, Adv(cur))
    BY <1>15 DEF String
  <2>2. "escape" \in TokenModes
    BY DEF TokenModes, Modes
  <2>. QED
    BY <1>1, <1>3, <1>4, <1>7, <2>1, <2>2
<1>16. CASE Char
  <2>1. \/ ReturnError(1, start.line, start.col, cur)
        \/ Goto("escape", Adv(cur)) \/ Goto("char_end", Adv(cur))
    BY <1>16 DEF Char
  <2>2. "escape" \in TokenModes /\ "char_end" \in TokenModes
    BY DEF TokenModes, Modes
  <2>. QED
    BY <1>1, <1>3, <1>5, <1>6, <2>1, <2>2
<1>17. CASE CharEnd
  <2>1. Return("CHARLIT", Adv(cur)) \/ ReturnErrorAtStart(cur)
    BY <1>17 DEF CharEnd
  <2>. QED
    BY <1>1, <1>4, <1>7, <2>1
<1>18. CASE Escape \/ HexDigit \/ HexDigit2
  <2>1. \/ \E m \in {Resume, "hex_digit", "hex_digit_2", "bad_escape"} :
             Goto(m, cur) \/ Goto(m, Adv(cur))
    BY <1>18 DEF Escape, HexDigit, HexDigit2
  <2>2. {Resume, "hex_digit", "hex_digit_2", "bad_escape"} \subseteq TokenModes
    BY <1>8 DEF TokenModes, Modes
  <2>. QED
    BY <1>1, <1>3, <2>1, <2>2
<1>19. CASE BadEscape
  <2>1. ReturnErrorAtStart(Adv(cur)) \/ Goto(mode, Adv(cur))
    BY <1>19 DEF BadEscape
  <2>. QED
    BY <1>1, <1>3, <1>7, <2>1
<1>. QED
  BY <1>1, <1>9, <1>10, <1>11, <1>12, <1>13, <1>14, <1>15, <1>16, <1>17, <1>18, <1>19

(* Appending a token that ends at the cursor keeps the tokens before it.    *)
LEMMA PlacedAppend ==
  ASSUME IInv, Placed, NEW t, toks' = Append(toks, t), cur.at <= cur'.at, cur'.at \in Nat,
         t.at + t.len <= cur'.at
  PROVE  \A i \in 1 .. Len(toks') : toks'[i].at + toks'[i].len <= cur'.at
<1>1. /\ Len(toks) \in Nat /\ Len(toks') = Len(toks) + 1
      /\ \A i \in 1 .. Len(toks) : toks'[i] = toks[i]
      /\ toks'[Len(toks) + 1] = t
  BY AppendRange DEF IInv
<1>2. cur.at \in Nat
  BY NumbersHold DEF Numbers
<1>3. ASSUME NEW i \in 1 .. Len(toks) PROVE toks[i].at + toks[i].len <= cur'.at
  <2>1. toks[i].at \in Nat /\ toks[i].len \in Nat /\ toks[i].at + toks[i].len <= cur.at
    BY DEF IInv, TokenTracked, Placed
  <2>. QED
    BY <1>2, <2>1
<1>4. \A i \in 1 .. Len(toks') : i \in 1 .. Len(toks) \/ i = Len(toks) + 1
  BY <1>1
<1>. QED
  BY <1>1, <1>3, <1>4

LEMMA MovesPlaced ==
  ASSUME IInv, Placed, mode \in TokenModes, NEW k \in {cur, Adv(cur)}, Moves(k)
  PROVE  Placed'
<1>1. /\ Numbers /\ start.at < cur.at /\ cur.at <= k.at /\ k.at \in Nat
  BY NumbersHold DEF Placed, TokenModes, Numbers
<1>2. CASE \E m \in TokenModes : Goto(m, k)
  <2>1. mode' \in TokenModes /\ cur' = k /\ start' = start /\ toks' = toks
    BY <1>2 DEF Goto
  <2>2. start'.at < cur'.at
    BY <1>1, <2>1 DEF Numbers
  <2>3. ASSUME NEW i \in 1 .. Len(toks) PROVE toks[i].at + toks[i].len <= k.at
    <3>1. toks[i].at \in Nat /\ toks[i].len \in Nat /\ toks[i].at + toks[i].len <= cur.at
      BY DEF IInv, TokenTracked, Placed
    <3>. QED
      BY <1>1, <3>1 DEF Numbers
  <2>. QED
    BY <2>1, <2>2, <2>3 DEF Placed, TokenModes
<1>3. CASE \E type : Return(type, k)
  <2>1. PICK type : Return(type, k)
    BY <1>3
  <2>. DEFINE t == [type |-> type, at |-> start.at, len |-> k.at - start.at,
                    line |-> k.line, col |-> k.col - (k.at - start.at)]
  <2>2. mode' = "noise" /\ cur' = k /\ start' = start /\ toks' = Append(toks, t)
    BY <2>1 DEF Return
  <2>3. t.at = start.at /\ t.len = k.at - start.at
    OBVIOUS
  <2>. HIDE DEF t
  <2>4. t.at + t.len <= k.at
    BY <1>1, <2>3 DEF Numbers
  <2>5. \A i \in 1 .. Len(toks') : toks'[i].at + toks'[i].len <= cur'.at
    BY <1>1, <2>2, <2>4, PlacedAppend
  <2>. QED
    BY <2>2, <2>5 DEF Placed, Modes
<1>4. CASE \E len \in Nat : \E line, col : start.at + len <= k.at /\ ReturnError(len, line, col, k)
  <2>0. PICK len \in Nat : \E line, col : start.at + len <= k.at /\ ReturnError(len, line, col, k)
    BY <1>4
  <2>1. PICK line, col : start.at + len <= k.at /\ ReturnError(len, line, col, k)
    BY <2>0
  <2>. DEFINE t == [type |-> "ERROR", at |-> start.at, len |-> len, line |-> line, col |-> col]
  <2>2. mode' = "noise" /\ cur' = k /\ start' = start /\ toks' = Append(toks, t)
    BY <2>1 DEF ReturnError
  <2>3. t.at + t.len <= k.at
    BY <2>1
  <2>. HIDE DEF t
  <2>4. \A i \in 1 .. Len(toks') : toks'[i].at + toks'[i].len <= cur'.at
    BY <1>1, <2>2, <2>3, PlacedAppend
  <2>. QED
    BY <2>2, <2>4 DEF Placed, Modes
<1>. QED
  BY <1>2, <1>3, <1>4 DEF Moves

LEMMA PlacedSound == IInv /\ Placed /\ [Next]_vars => Placed'
<1>. SUFFICES ASSUME IInv, Placed, [Next]_vars PROVE Placed'
  OBVIOUS
<1>0. Numbers /\ Adv(cur).at = cur.at + 1 /\ Adv(Adv(cur)).at = cur.at + 2
  BY NumbersHold
<1>1. ASSUME toks' = toks, cur.at <= cur'.at, cur'.at \in Nat, mode' \in Modes,
             mode' \notin {"noise", "done"} => start'.at < cur'.at
      PROVE  Placed'
  <2>1. ASSUME NEW i \in 1 .. Len(toks) PROVE toks[i].at + toks[i].len <= cur'.at
    <3>1. toks[i].at \in Nat /\ toks[i].len \in Nat /\ toks[i].at + toks[i].len <= cur.at
      BY DEF IInv, TokenTracked, Placed
    <3>. QED
      BY <1>0, <1>1, <3>1 DEF Numbers
  <2>. QED
    BY <1>1, <2>1 DEF Placed
<1>2. CASE Reveal \/ UNCHANGED vars
  BY <1>2 DEF Reveal, vars, Placed
<1>3. CASE SkipBlank
  <2>1. mode' = "noise" /\ cur' = Adv(cur) /\ toks' = toks
    BY <1>3 DEF SkipBlank, Goto
  <2>. QED
    BY <1>0, <1>1, <2>1 DEF Modes, Numbers
<1>4. CASE OpenComment
  <2>1. /\ mode' \in {"line_comment", "block_comment"} /\ start' = cur
        /\ cur' = Adv(Adv(cur)) /\ toks' = toks
    BY <1>4 DEF OpenComment
  <2>. QED
    BY <1>0, <1>1, <2>1 DEF Modes, Numbers
<1>5. CASE LineComment \/ BlockComment
  <2>1. /\ mode \in {"line_comment", "block_comment"} /\ mode' \in {mode, "noise"}
        /\ cur' \in {cur, Adv(cur), Adv(Adv(cur))} /\ start' = start /\ toks' = toks
    BY <1>5 DEF LineComment, BlockComment, At, Goto
  <2>2. start.at < cur.at
    BY <2>1 DEF Placed
  <2>. QED
    BY <1>0, <1>1, <2>1, <2>2 DEF Modes, Numbers
<1>6. CASE Eof
  <2>. DEFINE t == [type |-> "EOF", at |-> cur.at, len |-> 0, line |-> cur.line, col |-> cur.col]
  <2>1. mode' = "done" /\ cur' = cur /\ toks' = Append(toks, t)
    BY <1>6 DEF Eof
  <2>2. t.at + t.len <= cur.at
    BY <1>0 DEF Numbers
  <2>. HIDE DEF t
  <2>3. \A i \in 1 .. Len(toks') : toks'[i].at + toks'[i].len <= cur'.at
    BY <1>0, <2>1, <2>2, PlacedAppend DEF Numbers
  <2>. QED
    BY <2>1, <2>3 DEF Placed, Modes
<1>7. CASE Begin
  <2>1. /\ mode' \in Modes /\ start' = cur /\ cur' = Adv(cur) /\ toks' = toks
    BY <1>7 DEF Begin, Modes
  <2>. QED
    BY <1>0, <1>1, <2>1 DEF Numbers
<1>8. CASE \/ Punctuator \/ Word \/ Number \/ PrefixedDigits \/ Decimal \/ Fraction
           \/ String \/ Char \/ CharEnd \/ Escape \/ HexDigit \/ HexDigit2 \/ BadEscape
  BY <1>8, TokenMoves, MovesPlaced
<1>. QED
  BY <1>2, <1>3, <1>4, <1>5, <1>6, <1>7, <1>8 DEF Next, Step, Terminated

LEMMA PlacedInit == Init => Placed
  BY DEF Init, Placed, Modes

(* Type correctness.  The cursor stays within the memory that was read, a   *)
(* token or comment begins before it, and each token lies behind it: the    *)
(* lexer never takes a byte it has not looked at.                           *)
THEOREM LexerTypeCorrect == Spec => []TypeOK
<1>1. IInv /\ Placed => TypeOK
  BY NumbersHold DEF IInv, Placed, TypeOK, Numbers
<1>. QED
  BY InitSound, NextSound, PlacedInit, PlacedSound, <1>1, PTL DEF Spec

-----------------------------------------------------------------------------
(* What was skipped.  Without a report, the bytes before each token are     *)
(* noise, and so are those after the last token up to the cursor, or up to  *)
(* the token or comment that is open; an open comment has not met its end.  *)
Begins(s, i) == IF i = 1 THEN 1 ELSE EndOf(s[i - 1]) + 1

Opened == IF mode = "noise" THEN cur.at ELSE start.at

InComment(second) ==
  mem[start.at] = "/" /\ mem[start.at + 1] = second /\ start.at + 2 <= cur.at

LineIsOpen == InComment("/") /\ \A i \in start.at .. cur.at - 1 : mem[i] # "NL"

BlockIsOpen ==
  /\ InComment("*")
  /\ \A i \in start.at + 2 .. cur.at - 1 :
       mem[i] = "*" /\ (i = cur.at - 1 \/ mem[i + 1] = "/")
       => i > start.at + 2 /\ mem[i - 1] = "*"

Skipped ==
  diags = << >> =>
    /\ \A i \in 1 .. Len(toks) : Skips(mem, Begins(toks, i), toks[i].at)
    /\ mode # "done" => Skips(mem, Begins(toks, Len(toks) + 1), Opened)
    /\ mode = "line_comment" => LineIsOpen
    /\ mode = "block_comment" => BlockIsOpen

LEMMA SkipsForward ==
  ASSUME NEW m, NEW a \in Nat, NEW b \in Nat, Skips(m, a, b)
  PROVE  a <= b
<1>1. a \in a .. b
  BY DEF Skips
<1>. QED
  BY <1>1

LEMMA BeginsNumber ==
  ASSUME IInv, NEW i \in 1 .. Len(toks) + 1
  PROVE  Begins(toks, i) \in Nat \ {0} /\ Len(toks) \in Nat
<1>1. Len(toks) \in Nat
  BY LenProperties DEF IInv
<1>2. CASE i # 1
  <2>1. i - 1 \in 1 .. Len(toks)
    BY <1>1, <1>2
  <2>2. toks[i - 1].at \in Nat \ {0} /\ toks[i - 1].len \in Nat
    BY <2>1 DEF IInv, TokenTracked
  <2>3. Begins(toks, i) = (toks[i - 1].at + toks[i - 1].len - 1) + 1
    BY <1>2 DEF Begins, EndOf
  <2>4. \A x \in Nat \ {0} : \A y \in Nat : (x + y - 1) + 1 \in Nat \ {0}
    OBVIOUS
  <2>. QED
    BY <1>1, <2>2, <2>3, <2>4
<1>. QED
  BY <1>1, <1>2 DEF Begins

(* A report is never taken back. *)
LEMMA ReportStays ==
  ASSUME IInv, NEW len, NEW line, NEW col, Report(len, line, col)
  PROVE  diags' # << >>
<1>. DEFINE d == [at |-> start.at, len |-> len, line |-> line, col |-> col]
<1>1. diags' = Append(diags, d)
  BY DEF Report
<1>. HIDE DEF d
<1>2. Len(diags) \in Nat /\ Len(diags') = Len(diags) + 1
  BY <1>1, AppendRange DEF IInv
<1>. QED
  BY <1>2

LEMMA AppendBegins ==
  ASSUME IInv, NEW t, toks' = Append(toks, t)
  PROVE  /\ Len(toks) \in Nat /\ Len(toks') = Len(toks) + 1
         /\ \A i \in 1 .. Len(toks) : toks'[i] = toks[i]
         /\ toks'[Len(toks) + 1] = t
         /\ \A i \in 1 .. Len(toks) + 1 : Begins(toks', i) = Begins(toks, i)
         /\ Begins(toks', Len(toks') + 1) = EndOf(t) + 1
<1>1. /\ Len(toks) \in Nat /\ Len(toks') = Len(toks) + 1
      /\ \A i \in 1 .. Len(toks) : toks'[i] = toks[i]
      /\ toks'[Len(toks) + 1] = t
  BY AppendRange DEF IInv
<1>2. ASSUME NEW i \in 1 .. Len(toks) + 1 PROVE Begins(toks', i) = Begins(toks, i)
  <2>1. i # 1 => i - 1 \in 1 .. Len(toks)
    BY <1>1
  <2>. QED
    BY <1>1, <2>1 DEF Begins
<1>3. (Len(toks') + 1) - 1 = Len(toks) + 1 /\ Len(toks') + 1 # 1
  BY <1>1
<1>4. Begins(toks', Len(toks') + 1) = EndOf(t) + 1
  BY <1>1, <1>3 DEF Begins
<1>. QED
  BY <1>1, <1>2, <1>4

(* A token or TK_EOF is returned where the noise ended. *)
LEMMA AppendSkipped ==
  ASSUME IInv, Skipped, diags = << >>, mode # "done", NEW t, toks' = Append(toks, t),
         t.at = Opened, mem' = mem
  PROVE  \A i \in 1 .. Len(toks') : Skips(mem', Begins(toks', i), toks'[i].at)
<1>1. /\ Len(toks) \in Nat /\ Len(toks') = Len(toks) + 1
      /\ \A i \in 1 .. Len(toks) : toks'[i] = toks[i]
      /\ toks'[Len(toks) + 1] = t
      /\ \A i \in 1 .. Len(toks) + 1 : Begins(toks', i) = Begins(toks, i)
  BY AppendBegins
<1>2. /\ \A i \in 1 .. Len(toks) : Skips(mem, Begins(toks, i), toks[i].at)
      /\ Skips(mem, Begins(toks, Len(toks) + 1), t.at)
  BY DEF Skipped
<1>3. \A i \in 1 .. Len(toks') : i \in 1 .. Len(toks) + 1 /\ (i \in 1 .. Len(toks) \/ i = Len(toks) + 1)
  BY <1>1
<1>. QED
  BY <1>1, <1>2, <1>3

LEMMA MovesSkipped ==
  ASSUME IInv, Placed, Skipped, mem' = mem, mode \in TokenModes,
         NEW k \in {cur, Adv(cur)}, Moves(k)
  PROVE  Skipped'
<1>1. Numbers /\ start.at < cur.at /\ cur.at <= k.at /\ k.at \in Nat
  BY NumbersHold DEF Placed, TokenModes, Numbers
<1>2. mode \notin {"noise", "line_comment", "block_comment", "done"} /\ Opened = start.at
  BY DEF TokenModes, Opened
<1>3. CASE \E m \in TokenModes : Goto(m, k)
  <2>1. mode' \in TokenModes /\ start' = start /\ toks' = toks /\ diags' = diags
    BY <1>3 DEF Goto
  <2>2. mode' \notin {"noise", "line_comment", "block_comment", "done"} /\ Opened' = Opened
    BY <1>2, <2>1 DEF TokenModes, Opened
  <2>. QED
    BY <1>2, <2>1, <2>2 DEF Skipped, Begins, EndOf
<1>4. CASE \E type : Return(type, k)
  <2>1. PICK type : Return(type, k)
    BY <1>4
  <2>. DEFINE t == [type |-> type, at |-> start.at, len |-> k.at - start.at,
                    line |-> k.line, col |-> k.col - (k.at - start.at)]
  <2>2. mode' = "noise" /\ cur' = k /\ diags' = diags /\ toks' = Append(toks, t)
    BY <2>1 DEF Return
  <2>3. t.at = start.at /\ t.len = k.at - start.at
    OBVIOUS
  <2>. HIDE DEF t
  <2>. SUFFICES ASSUME diags = << >>
                PROVE  /\ \A i \in 1 .. Len(toks') : Skips(mem', Begins(toks', i), toks'[i].at)
                       /\ Skips(mem', Begins(toks', Len(toks') + 1), Opened')
    BY <2>2 DEF Skipped
  <2>4. \A i \in 1 .. Len(toks') : Skips(mem', Begins(toks', i), toks'[i].at)
    BY <1>2, <2>2, <2>3, AppendSkipped
  <2>5. Begins(toks', Len(toks') + 1) = EndOf(t) + 1
    BY <2>2, AppendBegins
  <2>6. EndOf(t) + 1 = k.at /\ Opened' = k.at
    BY <1>1, <2>2, <2>3 DEF EndOf, Opened, Numbers
  <2>. QED
    BY <1>1, <2>4, <2>5, <2>6, SkipsNothing
<1>5. CASE \E len \in Nat : \E line, col : start.at + len <= k.at /\ ReturnError(len, line, col, k)
  <2>1. diags' # << >>
    BY <1>5, ReportStays DEF ReturnError
  <2>. QED
    BY <2>1 DEF Skipped
<1>. QED
  BY <1>3, <1>4, <1>5 DEF Moves

(* The noise before an open comment and the comment are noise together.     *)
LEMMA CommentSkipped ==
  ASSUME IInv, Placed, Skipped, mem' = mem, diags = << >>,
         mode \in {"line_comment", "block_comment"}, mode' = "noise", toks' = toks,
         diags' = diags, NEW b \in Nat, start.at < b, cur'.at = b, b <= Len(mem) + 1,
         IsPassed(SubSeq(mem, start.at, b - 1))
  PROVE  Skipped'
<1>1. Numbers /\ Len(toks) \in Nat
  BY NumbersHold, LenProperties DEF IInv
<1>. DEFINE a == Begins(toks, Len(toks) + 1)
<1>2. a \in Nat
  BY <1>1, BeginsNumber
<1>3. Skips(mem, a, start.at)
  BY DEF Skipped, Opened
<1>4. Piece(mem, start.at, b)
  BY DEF Piece
<1>. HIDE DEF a
<1>5. Skips(mem, a, b)
  BY <1>1, <1>2, <1>3, <1>4, SkipsForward, SkipsMore DEF Numbers
<1>6. Opened' = b /\ Begins(toks', Len(toks') + 1) = a
  BY DEF Opened, a, Begins, EndOf
<1>7. \A i \in 1 .. Len(toks) : Skips(mem, Begins(toks, i), toks[i].at)
  BY DEF Skipped
<1>8. \A i : Begins(toks', i) = Begins(toks, i)
  BY DEF Begins, EndOf
<1>. QED
  BY <1>5, <1>6, <1>7, <1>8 DEF Skipped

LEMMA Within ==
  ASSUME NEW a \in Nat, NEW b \in Nat, NEW i \in 1 .. b - a
  PROVE  a + i - 1 \in a .. b - 1
OBVIOUS

LEMMA FirstTwo ==
  ASSUME NEW a \in Nat, NEW b \in Nat, a + 2 <= b
  PROVE  1 \in 1 .. b - a /\ 2 \in 1 .. b - a /\ a + 1 - 1 = a /\ a + 2 - 1 = a + 1
OBVIOUS

(* The bytes of the comment that is open. *)
LEMMA CommentText ==
  ASSUME IInv, NEW b \in Nat, start.at + 2 <= b, b <= Len(mem) + 1,
         NEW second, mem[start.at] = "/", mem[start.at + 1] = second
  PROVE  /\ Opens(SubSeq(mem, start.at, b - 1), second)
         /\ Len(SubSeq(mem, start.at, b - 1)) = b - start.at
         /\ \A i \in 1 .. b - start.at : SubSeq(mem, start.at, b - 1)[i] = mem[start.at + i - 1]
<1>. DEFINE text == SubSeq(mem, start.at, b - 1)
            e == b - 1
<1>1. /\ start.at \in Nat \ {0} /\ Len(mem) \in Nat /\ mem \in Seq(Bytes)
      /\ e \in Nat /\ e <= Len(mem) /\ start.at <= e + 1 /\ e - start.at + 1 = b - start.at
  BY NumbersHold DEF Numbers, IInv
<1>2. /\ Len(text) = b - start.at
      /\ \A i \in 1 .. b - start.at : text[i] = mem[start.at + i - 1]
  <2>1. /\ Len(SubSeq(mem, start.at, e)) = e - start.at + 1
        /\ \A i \in 1 .. e - start.at + 1 : SubSeq(mem, start.at, e)[i] = mem[start.at + i - 1]
    <3>. DEFINE a == start.at
    <3>1. mem \in Seq(Bytes) /\ a \in Nat \ {0} /\ e \in Nat /\ e <= Len(mem) /\ a <= e + 1
      BY <1>1
    <3>. HIDE DEF e, a
    <3>2. /\ Len(SubSeq(mem, a, e)) = e - a + 1
          /\ \A i \in 1 .. e - a + 1 : SubSeq(mem, a, e)[i] = mem[a + i - 1]
      BY <3>1, PartBytes
    <3>. QED
      BY <3>2 DEF a
  <2>2. text = SubSeq(mem, start.at, e)
    OBVIOUS
  <2>. HIDE DEF text, e
  <2>. QED
    BY <1>1, <2>1, <2>2
<1>. HIDE DEF text, e
<1>3. /\ 1 \in 1 .. b - start.at /\ 2 \in 1 .. b - start.at
      /\ start.at + 1 - 1 = start.at /\ start.at + 2 - 1 = start.at + 1
  BY <1>1, FirstTwo
<1>4. text[1] = "/" /\ text[2] = second /\ Len(text) >= 2
  <2>1. text[1] = mem[start.at + 1 - 1] /\ text[2] = mem[start.at + 2 - 1]
    BY <1>2, <1>3
  <2>2. Len(text) >= 2
    BY <1>1, <1>2
  <2>. QED
    BY <1>3, <2>1, <2>2
<1>. QED
  BY <1>2, <1>4 DEF Opens, text

LEMMA LineCommentSkipped ==
  ASSUME IInv, Placed, Skipped, mem' = mem, LineComment
  PROVE  Skipped'
<1>1. /\ Numbers /\ Adv(cur).at = cur.at + 1 /\ mode = "line_comment" /\ Ready
      /\ toks' = toks /\ diags' = diags /\ start' = start
  BY NumbersHold DEF LineComment, At, Goto
<1>. SUFFICES ASSUME diags = << >> PROVE Skipped'
  BY <1>1 DEF Skipped
<1>2. LineIsOpen
  BY <1>1 DEF Skipped
<1>3. CASE c \in {"NUL", "NL"}
  <2>1. mode' = "noise" /\ cur' = cur
    BY <1>3 DEF LineComment, Goto
  <2>. DEFINE text == SubSeq(mem, start.at, cur.at - 1)
  <2>2. /\ Opens(text, "/") /\ Len(text) = cur.at - start.at
        /\ \A i \in 1 .. cur.at - start.at : text[i] = mem[start.at + i - 1]
    BY <1>1, <1>2, CommentText DEF LineIsOpen, InComment, Numbers
  <2>. HIDE DEF text
  <2>3. ASSUME NEW i \in 1 .. Len(text) PROVE text[i] # "NL"
    <3>1. i \in 1 .. cur.at - start.at /\ start.at \in Nat /\ cur.at \in Nat
      BY <1>1, <2>2 DEF Numbers
    <3>2. start.at + i - 1 \in start.at .. cur.at - 1
      BY <3>1, Within
    <3>. QED
      BY <1>2, <2>2, <3>1, <3>2 DEF LineIsOpen
  <2>4. IsPassed(text)
    BY <2>2, <2>3 DEF IsPassed, IsLineComment
  <2>5. start.at < cur.at
    BY <1>1 DEF Placed
  <2>. QED
    BY <1>1, <2>1, <2>4, <2>5, CommentSkipped DEF Numbers, text
<1>4. CASE c \notin {"NUL", "NL"}
  <2>1. mode' = mode /\ cur' = Adv(cur)
    BY <1>4 DEF LineComment, Goto
  <2>2. InComment("/")'
    BY <1>1, <1>2, <2>1 DEF LineIsOpen, InComment, Numbers
  <2>3. ASSUME NEW i \in start'.at .. cur'.at - 1 PROVE mem[i] # "NL"
    <3>1. i \in start.at .. cur.at - 1 \/ i = cur.at
      BY <1>1, <2>1 DEF Numbers
    <3>. QED
      BY <1>2, <1>4, <3>1 DEF LineIsOpen, c, Byte
  <2>4. LineIsOpen'
    BY <1>1, <2>1, <2>2, <2>3 DEF LineIsOpen
  <2>5. Opened' = Opened /\ \A i : Begins(toks', i) = Begins(toks, i)
    BY <1>1, <2>1 DEF Opened, Begins, EndOf
  <2>. QED
    BY <1>1, <2>1, <2>4, <2>5 DEF Skipped
<1>. QED
  BY <1>3, <1>4

(* A block comment that goes on: the byte after a star is passed with it.   *)
LEMMA BlockGoesOn ==
  ASSUME IInv, Placed, BlockIsOpen, start' = start, mem' = mem,
         \/ c # "*" /\ cur' = Adv(cur)
         \/ c = "*" /\ next # "/" /\ cur' = Adv(Adv(cur))
  PROVE  BlockIsOpen'
<1>1. Numbers /\ Adv(cur).at = cur.at + 1 /\ Adv(Adv(cur)).at = cur.at + 2
  BY NumbersHold
<1>2. InComment("*")'
  BY <1>1 DEF BlockIsOpen, InComment, Numbers
<1>3. c = mem[cur.at] /\ next = mem[cur.at + 1] /\ start.at + 2 <= cur.at
  BY DEF c, next, Byte, BlockIsOpen, InComment
<1>4. ASSUME NEW i \in start.at + 2 .. cur.at - 1, mem[i] = "*", mem[i + 1] = "/"
      PROVE  i > start.at + 2 /\ mem[i - 1] = "*"
  BY <1>4 DEF BlockIsOpen
<1>5. CASE c # "*" /\ cur' = Adv(cur)
  <2>0. cur'.at - 1 = cur.at
    BY <1>1, <1>5 DEF Numbers
  <2>1. ASSUME NEW i \in start'.at + 2 .. cur'.at - 1, mem[i] = "*",
               i = cur'.at - 1 \/ mem[i + 1] = "/"
        PROVE  i > start'.at + 2 /\ mem[i - 1] = "*"
    <3>1. i # cur.at
      BY <1>3, <1>5, <2>1
    <3>2. mem[i + 1] = "/"
      BY <2>0, <2>1, <3>1
    <3>3. i \in start.at + 2 .. cur.at - 1
      BY <1>1, <2>0, <3>1 DEF Numbers
    <3>. QED
      BY <1>4, <2>1, <3>2, <3>3
  <2>. QED
    BY <1>2, <2>1 DEF BlockIsOpen
<1>6. CASE c = "*" /\ next # "/" /\ cur' = Adv(Adv(cur))
  <2>0. cur'.at - 1 = cur.at + 1
    BY <1>1, <1>6 DEF Numbers
  <2>1. ASSUME NEW i \in start'.at + 2 .. cur'.at - 1, mem[i] = "*",
               i = cur'.at - 1 \/ mem[i + 1] = "/"
        PROVE  i > start'.at + 2 /\ mem[i - 1] = "*"
    <3>1. CASE i = cur.at + 1
      <4>1. i > start.at + 2 /\ i - 1 = cur.at
        BY <1>1, <1>3, <3>1 DEF Numbers
      <4>. QED
        BY <1>3, <1>6, <4>1
    <3>2. CASE i = cur.at
      <4>1. i # cur'.at - 1
        BY <1>1, <2>0, <3>2 DEF Numbers
      <4>. QED
        BY <1>3, <1>6, <2>1, <3>2, <4>1
    <3>3. CASE i # cur.at /\ i # cur.at + 1
      <4>1. i \in start.at + 2 .. cur.at - 1
        BY <1>1, <2>0, <3>3 DEF Numbers
      <4>2. mem[i + 1] = "/"
        BY <2>0, <2>1, <3>3
      <4>. QED
        BY <1>4, <2>1, <4>1, <4>2
    <3>. QED
      BY <3>1, <3>2, <3>3
  <2>. QED
    BY <1>2, <2>1 DEF BlockIsOpen
<1>. QED
  BY <1>5, <1>6

(* A block comment that ends is one the lexer passes.                       *)
LEMMA BlockEnds ==
  ASSUME IInv, Placed, BlockIsOpen, Ready, c = "*", next = "/"
  PROVE  /\ cur.at + 2 <= Len(mem) + 1
         /\ IsPassed(SubSeq(mem, start.at, (cur.at + 2) - 1))
<1>. DEFINE b == cur.at + 2
            text == SubSeq(mem, start.at, b - 1)
<1>1. /\ Numbers /\ cur.at # Len(mem)
      /\ c = mem[cur.at] /\ next = mem[cur.at + 1] /\ start.at + 2 <= cur.at
      /\ mem[start.at] = "/" /\ mem[start.at + 1] = "*"
  BY NumbersHold DEF Ready, c, next, Byte, BlockIsOpen, InComment
<1>2. b \in Nat /\ b <= Len(mem) + 1 /\ start.at + 2 <= b
  BY <1>1 DEF Numbers, Ready
<1>3. /\ Opens(text, "*") /\ Len(text) = b - start.at
      /\ \A i \in 1 .. b - start.at : text[i] = mem[start.at + i - 1]
  <2>. HIDE DEF b
  <2>. QED
    BY <1>1, <1>2, CommentText
<1>. HIDE DEF text
<1>. DEFINE n == Len(text)
            a == start.at
            k == cur.at
<1>4. /\ a \in Nat \ {0} /\ k \in Nat /\ a + 2 <= k /\ n \in Nat /\ n = k + 2 - a
      /\ \A i \in 1 .. n : text[i] = mem[a + i - 1]
  BY <1>1, <1>3 DEF Numbers
<1>. HIDE DEF n, a, k
<1>5. n - 1 \in Ends(text)
  <2>1. n - 1 \in 3 .. n - 1 /\ n - 1 \in 1 .. n /\ (n - 1) + 1 \in 1 .. n
    BY <1>4
  <2>2. a + (n - 1) - 1 = k /\ a + ((n - 1) + 1) - 1 = k + 1
    BY <1>4
  <2>3. text[n - 1] = mem[k] /\ text[(n - 1) + 1] = mem[k + 1]
    BY <1>4, <2>1, <2>2
  <2>. QED
    BY <1>1, <2>1, <2>3 DEF Ends, n, k
<1>6. ASSUME NEW i \in Ends(text), i # n - 1 PROVE i > 3 /\ text[i - 1] = "*"
  <2>. DEFINE j == a + i - 1
  <2>1. i \in 3 .. n - 1 /\ text[i] = "*" /\ text[i + 1] = "/"
    BY DEF Ends, n
  <2>2. i \in 3 .. n - 1 /\ i # n - 1
    BY <1>6, <2>1
  <2>3. i \in 1 .. n /\ i + 1 \in 1 .. n /\ i - 1 \in 1 .. n
    BY <1>4, <2>2
  <2>4. a + (i + 1) - 1 = j + 1 /\ a + (i - 1) - 1 = j - 1
    BY <1>4, <2>2
  <2>5. j \in a + 2 .. k - 1 /\ (j > a + 2 => i > 3)
    BY <1>4, <2>2
  <2>. HIDE DEF j
  <2>6. mem[j] = "*" /\ mem[j + 1] = "/" /\ text[i - 1] = mem[j - 1]
    BY <1>4, <2>1, <2>3, <2>4 DEF j
  <2>7. j > a + 2 /\ mem[j - 1] = "*"
    BY <2>5, <2>6 DEF BlockIsOpen, a, k
  <2>. QED
    BY <2>5, <2>6, <2>7
<1>7. IsPassed(text)
  BY <1>3, <1>5, <1>6 DEF IsPassed, n
<1>. QED
  BY <1>2, <1>7 DEF text

LEMMA BlockCommentSkipped ==
  ASSUME IInv, Placed, Skipped, mem' = mem, BlockComment
  PROVE  Skipped'
<1>1. /\ Numbers /\ Adv(Adv(cur)).at = cur.at + 2 /\ mode = "block_comment" /\ Ready
  BY NumbersHold DEF BlockComment, At
<1>2. CASE c = "NUL"
  <2>1. diags' # << >>
    BY <1>2, ReportStays DEF BlockComment
  <2>. QED
    BY <2>1 DEF Skipped
<1>3. CASE c # "NUL"
  <2>1. toks' = toks /\ diags' = diags /\ start' = start
    BY <1>3 DEF BlockComment, Goto
  <2>. SUFFICES ASSUME diags = << >> PROVE Skipped'
    BY <2>1 DEF Skipped
  <2>2. BlockIsOpen
    BY <1>1 DEF Skipped
  <2>3. CASE c = "*" /\ next = "/"
    <3>1. mode' = "noise" /\ cur' = Adv(Adv(cur))
      BY <1>3, <2>3 DEF BlockComment, Goto
    <3>. DEFINE b == cur.at + 2
    <3>2. b \in Nat /\ start.at < b /\ cur'.at = b
      BY <1>1, <3>1 DEF Numbers
    <3>3. b <= Len(mem) + 1 /\ IsPassed(SubSeq(mem, start.at, b - 1))
      BY <1>1, <2>2, <2>3, BlockEnds
    <3>. HIDE DEF b
    <3>. QED
      BY <1>1, <2>1, <3>1, <3>2, <3>3, CommentSkipped
  <2>4. CASE ~(c = "*" /\ next = "/")
    <3>1. /\ mode' = mode
          /\ \/ c # "*" /\ cur' = Adv(cur)
             \/ c = "*" /\ next # "/" /\ cur' = Adv(Adv(cur))
      BY <1>3, <2>4 DEF BlockComment, Goto
    <3>2. BlockIsOpen'
      BY <2>1, <2>2, <3>1, BlockGoesOn
    <3>3. Opened' = Opened /\ \A i : Begins(toks', i) = Begins(toks, i)
      BY <1>1, <2>1, <3>1 DEF Opened, Begins, EndOf
    <3>. QED
      BY <1>1, <2>1, <3>1, <3>2, <3>3 DEF Skipped
  <2>. QED
    BY <2>3, <2>4
<1>. QED
  BY <1>2, <1>3

LEMMA RevealSkipped ==
  ASSUME IInv, Placed, Skipped, Reveal
  PROVE  Skipped'
<1>1. PICK byte : mem' = Append(mem, byte)
  BY DEF Reveal
<1>2. /\ cur' = cur /\ mode' = mode /\ start' = start /\ toks' = toks /\ diags' = diags
  BY DEF Reveal
<1>. SUFFICES ASSUME diags = << >> PROVE Skipped'
  BY <1>2 DEF Skipped
<1>3. Numbers /\ Len(toks) \in Nat
  BY NumbersHold, LenProperties DEF IInv
<1>4. mem \in Seq(Bytes \cup {byte}) /\ byte \in Bytes \cup {byte}
  BY SeqMonotonic DEF IInv
<1>5. \A i \in 1 .. Len(mem) : mem'[i] = mem[i]
  BY <1>1, <1>4, AppendProperties
<1>6. ASSUME NEW a \in Nat \ {0}, NEW b \in Nat, b <= Len(mem) + 1, Skips(mem, a, b)
      PROVE  Skips(mem', a, b)
  BY <1>1, <1>4, <1>6, SkipsAppend
<1>7. \A i : Begins(toks', i) = Begins(toks, i)
  BY <1>2 DEF Begins, EndOf
<1>8. ASSUME NEW i \in 1 .. Len(toks') PROVE Skips(mem', Begins(toks', i), toks'[i].at)
  <2>1. i \in 1 .. Len(toks) /\ i \in 1 .. Len(toks) + 1
    BY <1>2, <1>3
  <2>2. toks[i].at \in Nat /\ toks[i].at <= Len(mem) + 1
    <3>1. /\ toks[i].at \in Nat /\ toks[i].len \in Nat
          /\ toks[i].at + toks[i].len <= Len(mem) + 1
      BY <2>1 DEF IInv, TokenTracked
    <3>. QED
      BY <1>3, <3>1 DEF Numbers
  <2>3. Skips(mem, Begins(toks, i), toks[i].at) /\ Begins(toks, i) \in Nat \ {0}
    BY <2>1, BeginsNumber DEF Skipped
  <2>. QED
    BY <1>2, <1>6, <1>7, <2>2, <2>3
<1>9. ASSUME mode # "done" PROVE Skips(mem', Begins(toks', Len(toks') + 1), Opened')
  <2>1. Opened' = Opened /\ Opened \in Nat /\ Opened <= Len(mem) + 1
    BY <1>2, <1>3 DEF Opened, Numbers
  <2>2. Skips(mem, Begins(toks, Len(toks) + 1), Opened)
    BY <1>9 DEF Skipped
  <2>3. Begins(toks, Len(toks) + 1) \in Nat \ {0}
    BY <1>3, BeginsNumber
  <2>. QED
    BY <1>2, <1>6, <1>7, <2>1, <2>2, <2>3
<1>10. ASSUME NEW second, InComment(second) PROVE InComment(second)'
  <2>1. start.at \in 1 .. Len(mem) /\ start.at + 1 \in 1 .. Len(mem)
    BY <1>3, <1>10 DEF InComment, Numbers
  <2>. QED
    BY <1>2, <1>5, <1>10, <2>1 DEF InComment
<1>11. ASSUME mode = "line_comment" PROVE LineIsOpen'
  <2>1. LineIsOpen
    BY <1>11 DEF Skipped
  <2>2. \A i \in start.at .. cur.at - 1 : i \in 1 .. Len(mem)
    BY <1>3 DEF Numbers
  <2>. QED
    BY <1>2, <1>5, <1>10, <2>1, <2>2 DEF LineIsOpen
<1>12. ASSUME mode = "block_comment" PROVE BlockIsOpen'
  <2>1. BlockIsOpen
    BY <1>12 DEF Skipped
  <2>2. InComment("*")'
    BY <1>10, <2>1 DEF BlockIsOpen
  <2>3. ASSUME NEW i \in start.at + 2 .. cur.at - 1, mem'[i] = "*",
               i = cur.at - 1 \/ mem'[i + 1] = "/"
        PROVE  i > start.at + 2 /\ mem'[i - 1] = "*"
    <3>1. i \in 1 .. Len(mem) /\ i - 1 \in 1 .. Len(mem)
      BY <1>3 DEF Numbers
    <3>2. i = cur.at - 1 \/ i + 1 \in 1 .. Len(mem)
      BY <1>3 DEF Numbers
    <3>3. mem[i] = "*" /\ (i = cur.at - 1 \/ mem[i + 1] = "/")
      BY <1>5, <2>3, <3>1, <3>2
    <3>4. i > start.at + 2 /\ mem[i - 1] = "*"
      BY <2>1, <3>3 DEF BlockIsOpen
    <3>. QED
      BY <1>5, <3>1, <3>4
  <2>. QED
    BY <1>2, <2>2, <2>3 DEF BlockIsOpen
<1>. QED
  BY <1>2, <1>8, <1>9, <1>11, <1>12 DEF Skipped

LEMMA NoiseSkipped ==
  ASSUME IInv, Placed, Skipped, mem' = mem, SkipBlank \/ OpenComment \/ Eof \/ Begin
  PROVE  Skipped'
<1>1. /\ Numbers /\ Len(toks) \in Nat /\ mode = "noise" /\ Ready /\ Opened = cur.at
      /\ Adv(cur).at = cur.at + 1 /\ Adv(Adv(cur)).at = cur.at + 2
      /\ diags' = diags
  BY NumbersHold, LenProperties
  DEF IInv, SkipBlank, OpenComment, Eof, Begin, At, Goto, Opened
<1>. SUFFICES ASSUME diags = << >> PROVE Skipped'
  BY <1>1 DEF Skipped
<1>. DEFINE a == Begins(toks, Len(toks) + 1)
<1>2. a \in Nat
  BY <1>1, BeginsNumber
<1>3. Skips(mem, a, cur.at) /\ \A i \in 1 .. Len(toks) : Skips(mem, Begins(toks, i), toks[i].at)
  BY <1>1 DEF Skipped
<1>4. ASSUME toks' = toks
      PROVE  /\ Begins(toks', Len(toks') + 1) = a
             /\ \A i \in 1 .. Len(toks') : Skips(mem', Begins(toks', i), toks'[i].at)
  BY <1>3, <1>4 DEF Begins, EndOf
<1>. HIDE DEF a
<1>5. CASE SkipBlank
  <2>1. mode' = "noise" /\ cur' = Adv(cur) /\ toks' = toks /\ c \in Blank
    BY <1>5 DEF SkipBlank, Goto
  <2>2. Piece(mem, cur.at, cur.at + 1)
    BY <2>1 DEF Piece, c, Byte
  <2>3. Skips(mem, a, cur.at + 1)
    <3>1. a <= cur.at /\ cur.at \in Nat /\ cur.at + 1 \in Nat /\ cur.at < cur.at + 1
      BY <1>1, <1>2, <1>3, SkipsForward DEF Numbers
    <3>. QED
      BY <1>2, <1>3, <2>2, <3>1, SkipsMore
  <2>4. Opened' = cur.at + 1
    BY <1>1, <2>1 DEF Opened
  <2>. QED
    BY <1>1, <1>4, <2>1, <2>3, <2>4 DEF Skipped
<1>6. CASE OpenComment
  <2>1. /\ start' = cur /\ cur' = Adv(Adv(cur)) /\ toks' = toks
        /\ c = "/" /\ next \in {"/", "*"}
        /\ mode' = IF next = "/" THEN "line_comment" ELSE "block_comment"
    BY <1>6 DEF OpenComment
  <2>2. Opened' = cur.at
    BY <2>1 DEF Opened
  <2>3. \A second : next = second => InComment(second)'
    BY <1>1, <2>1 DEF InComment, c, next, Byte, Numbers
  <2>4. ASSUME next = "/" PROVE LineIsOpen'
    <3>1. \A i \in start'.at .. cur'.at - 1 : i = cur.at \/ i = cur.at + 1
      BY <1>1, <2>1 DEF Numbers
    <3>2. \A i \in start'.at .. cur'.at - 1 : mem'[i] # "NL"
      BY <2>1, <2>4, <3>1 DEF c, next, Byte
    <3>. QED
      BY <2>3, <2>4, <3>2 DEF LineIsOpen
  <2>5. ASSUME next = "*" PROVE BlockIsOpen'
    <3>1. start'.at + 2 .. cur'.at - 1 = {}
      BY <1>1, <2>1 DEF Numbers
    <3>. QED
      BY <2>3, <2>5, <3>1 DEF BlockIsOpen
  <2>. QED
    BY <1>1, <1>3, <1>4, <2>1, <2>2, <2>4, <2>5 DEF Skipped
<1>7. CASE Eof
  <2>. DEFINE t == [type |-> "EOF", at |-> cur.at, len |-> 0, line |-> cur.line, col |-> cur.col]
  <2>1. mode' = "done" /\ toks' = Append(toks, t) /\ t.at = cur.at
    BY <1>7 DEF Eof
  <2>. HIDE DEF t
  <2>2. \A i \in 1 .. Len(toks') : Skips(mem', Begins(toks', i), toks'[i].at)
    BY <1>1, <2>1, AppendSkipped
  <2>. QED
    BY <2>1, <2>2 DEF Skipped
<1>8. CASE Begin
  <2>1. /\ start' = cur /\ toks' = toks
        /\ mode' \notin {"noise", "done", "line_comment", "block_comment"}
    BY <1>8 DEF Begin
  <2>2. Opened' = cur.at
    BY <2>1 DEF Opened
  <2>. QED
    BY <1>3, <1>4, <2>1, <2>2 DEF Skipped
<1>. QED
  BY <1>5, <1>6, <1>7, <1>8

LEMMA SkippedSound == IInv /\ Placed /\ Skipped /\ [Next]_vars => Skipped'
<1>. SUFFICES ASSUME IInv, Placed, Skipped, [Next]_vars PROVE Skipped'
  OBVIOUS
<1>1. CASE Reveal
  BY <1>1, RevealSkipped
<1>2. CASE UNCHANGED vars
  <2>1. /\ mem' = mem /\ cur' = cur /\ mode' = mode /\ start' = start
        /\ toks' = toks /\ diags' = diags
    BY <1>2 DEF vars
  <2>. QED
    BY <2>1 DEF Skipped, Opened, Begins, EndOf, LineIsOpen, BlockIsOpen, InComment
<1>3. CASE Step /\ UNCHANGED mem
  <2>1. CASE SkipBlank \/ OpenComment \/ Eof \/ Begin
    BY <1>3, <2>1, NoiseSkipped
  <2>2. CASE LineComment
    BY <1>3, <2>2, LineCommentSkipped
  <2>3. CASE BlockComment
    BY <1>3, <2>3, BlockCommentSkipped
  <2>4. CASE \/ Punctuator \/ Word \/ Number \/ PrefixedDigits \/ Decimal \/ Fraction
             \/ String \/ Char \/ CharEnd \/ Escape \/ HexDigit \/ HexDigit2 \/ BadEscape
    BY <1>3, <2>4, TokenMoves, MovesSkipped
  <2>. QED
    BY <1>3, <2>1, <2>2, <2>3, <2>4 DEF Step
<1>. QED
  BY <1>1, <1>2, <1>3 DEF Next, Terminated

LEMMA SkippedInit == Init => Skipped
<1>. SUFFICES ASSUME Init PROVE Skipped
  OBVIOUS
<1>1. toks = << >> /\ mode = "noise" /\ cur.at = 1
  BY DEF Init
<1>2. Begins(toks, Len(toks) + 1) = 1 /\ Opened = 1 /\ Len(toks) = 0
  BY <1>1 DEF Begins, Opened
<1>3. Skips(mem, 1, 1)
  BY SkipsNothing
<1>. QED
  BY <1>1, <1>2, <1>3 DEF Skipped

(* Nothing is lost between tokens.  When the lexer ends without a report,   *)
(* its tokens lie in source order without overlap and only blanks and whole *)
(* comments lie between them, however long the source is and however the    *)
(* comments and blanks follow each other.                                   *)
THEOREM NothingIsEverSkipped == Spec => []NothingIsSkipped
<1>1. ASSUME IInv, Skipped PROVE NothingIsSkipped
  <2>. SUFFICES ASSUME diags = << >>, NEW i \in 1 .. Len(toks),
                       NEW from, from = Begins(toks, i)
                PROVE  from <= toks[i].at /\ IsNoise(Between(from, toks[i].at - 1))
    BY DEF NothingIsSkipped, Clean, Begins
  <2>1. Len(toks) \in Nat /\ Len(mem) \in Nat /\ mem \in Seq(Bytes)
    BY <1>1, LenProperties DEF IInv
  <2>2. i \in 1 .. Len(toks) + 1
    BY <2>1
  <2>3. Skips(mem, from, toks[i].at) /\ from \in Nat \ {0}
    BY <2>2, <1>1, BeginsNumber DEF Skipped
  <2>4. /\ toks[i].at \in Nat /\ toks[i].len \in Nat
        /\ toks[i].at + toks[i].len <= Len(mem) + 1
    BY <1>1 DEF IInv, TokenTracked
  <2>5. toks[i].at <= Len(mem) + 1
    BY <2>1, <2>4
  <2>6. from <= toks[i].at
    BY <2>3, <2>4, SkipsForward
  <2>. QED
    BY <2>1, <2>3, <2>4, <2>5, <2>6, SkipsIsNoise DEF Between
<1>. QED
  BY InitSound, NextSound, PlacedInit, PlacedSound, SkippedInit, SkippedSound, <1>1, PTL
  DEF Spec

-----------------------------------------------------------------------------
(* Lexemes in a memory: the bytes of m from a to b are one of this type.    *)
Follow(m, b) == IF b < Len(m) THEN m[b + 1] ELSE "NUL"

Lexeme(m, type, a, b) == IsLexeme(type, SubSeq(m, a, b), Follow(m, b))

Run(m, a, b, set) == \A i \in a .. b : m[i] \in set

NameByte == Alnum \cup {"UNDERSCORE"}

Radixes == {"HEX", "OCTAL", "BINARY"}

LettersOf(radix) ==
  CASE radix = "HEX" -> {"x", "X"} [] radix = "OCTAL" -> {"o", "O"} [] OTHER -> {"b", "B"}

DigitsOf(radix) == CASE radix = "HEX" -> Hex [] radix = "OCTAL" -> Oct [] OTHER -> Bin

(* The tables: no punctuator begins like a name, a number or a literal, and *)
(* the table has every prefix of a punctuator that has two bytes or more.   *)
LEMMA PunctuatorTable ==
  /\ \A type \in DOMAIN Punctuators :
       /\ Len(Punctuators[type]) \in 1 .. 3
       /\ Punctuators[type][1] \notin Alnum \cup {"DQ", "SQ"}
       /\ Punctuators[type][1] = "UNDERSCORE" => Len(Punctuators[type]) = 1
       /\ Len(Punctuators[type]) = 3 => Punctuators[type][1] = "." /\ Punctuators[type][2] = "."
  /\ {"DOT", "RANGE", "UNDERSCORE"} \subseteq DOMAIN Punctuators
  /\ Punctuators["DOT"] = << "." >> /\ Punctuators["RANGE"] = << ".", "." >>
  /\ Punctuators["UNDERSCORE"] = << "UNDERSCORE" >>
<1>1. \A type \in DOMAIN Punctuators : Len(Punctuators[type]) \in 1 .. 3
  BY SMT DEF Punctuators
<1>2. \A type \in DOMAIN Punctuators :
         Punctuators[type][1] \notin Alnum \cup {"DQ", "SQ"}
  BY SMT DEF Punctuators, Alnum, Alpha, Digit, Oct, Bin, Hex
<1>3. \A type \in DOMAIN Punctuators :
         Punctuators[type][1] = "UNDERSCORE" => Len(Punctuators[type]) = 1
  BY SMT DEF Punctuators
<1>4. \A type \in DOMAIN Punctuators :
         Len(Punctuators[type]) = 3 => Punctuators[type][1] = "." /\ Punctuators[type][2] = "."
  <2>1. \A type \in DOMAIN Punctuators \ {"SPREAD"} : Len(Punctuators[type]) \in 1 .. 2
    BY SMT DEF Punctuators
  <2>2. Punctuators["SPREAD"] = << ".", ".", "." >>
    BY SMT DEF Punctuators
  <2>. QED
    BY <2>1, <2>2
<1>5. /\ {"DOT", "RANGE", "UNDERSCORE"} \subseteq DOMAIN Punctuators
      /\ Punctuators["DOT"] = << "." >> /\ Punctuators["RANGE"] = << ".", "." >>
      /\ Punctuators["UNDERSCORE"] = << "UNDERSCORE" >>
  BY SMT DEF Punctuators
<1>. QED
  BY <1>1, <1>2, <1>3, <1>4, <1>5

(* What the lexer refuses of "++" and "--".                                 *)
LEMMA SignTable ==
  /\ {"Increment", "Decrement"} \subseteq DOMAIN Punctuators
  /\ Punctuators["Increment"] = << "+", "+" >> /\ Punctuators["Decrement"] = << "-", "-" >>
  /\ \A type \in DOMAIN Punctuators \ {"PLUS", "MINUS", "Increment", "Decrement"} :
       /\ Punctuators[type][1] \in {"+", "-"} =>
            /\ Len(Punctuators[type]) = 2
            /\ Punctuators[type][2] \notin {"+", "-"}
<1>1. /\ {"Increment", "Decrement"} \subseteq DOMAIN Punctuators
      /\ Punctuators["Increment"] = << "+", "+" >> /\ Punctuators["Decrement"] = << "-", "-" >>
  BY SMT DEF Punctuators
<1>2. \A type \in DOMAIN Punctuators \ {"PLUS", "MINUS", "Increment", "Decrement"} :
         /\ Punctuators[type][1] \in {"+", "-"} =>
            /\ Len(Punctuators[type]) = 2
            /\ Punctuators[type][2] \notin {"+", "-"}
  BY SMT DEF Punctuators
<1>. QED
  BY <1>1, <1>2

LEMMA KeywordTable ==
  \A type \in DOMAIN Keywords :
    /\ Len(Keywords[type]) \in Nat \ {0, 1}
    /\ \A i \in 1 .. Len(Keywords[type]) : Keywords[type][i] \in Alpha
<1>1. \A type \in DOMAIN Keywords : Len(Keywords[type]) \in Nat \ {0, 1}
  BY SMT DEF Keywords
<1>. DEFINE Letters == {"a", "b", "c", "d", "e", "f", "i", "j", "k", "l", "m", "n", "o", "p",
                        "r", "s", "t", "u"}
<1>2. ASSUME NEW type \in DOMAIN Keywords, NEW i \in 1 .. Len(Keywords[type])
      PROVE  Keywords[type][i] \in Letters
  <2>1. CASE type = "if"
    BY SMT, <2>1 DEF Keywords
  <2>2. CASE type = "in"
    BY SMT, <2>2 DEF Keywords
  <2>3. CASE type = "ret"
    BY SMT, <2>3 DEF Keywords
  <2>4. CASE type = "else"
    BY SMT, <2>4 DEF Keywords
  <2>5. CASE type = "loop"
    BY SMT, <2>5 DEF Keywords
  <2>6. CASE type = "true"
    BY SMT, <2>6 DEF Keywords
  <2>7. CASE type = "false"
    BY SMT, <2>7 DEF Keywords
  <2>8. CASE type = "break"
    BY SMT, <2>8 DEF Keywords
  <2>9. CASE type = "enum"
    BY SMT, <2>9 DEF Keywords
  <2>10. CASE type = "continue"
    BY SMT, <2>10 DEF Keywords
  <2>11. CASE type = "obj"
    BY SMT, <2>11 DEF Keywords
  <2>. QED
    BY <2>1, <2>2, <2>3, <2>4, <2>5, <2>6, <2>7, <2>8, <2>9, <2>10, <2>11 DEF Keywords
<1>3. Letters \subseteq Alpha
  BY SMT DEF Alpha, Hex, Digit, Oct, Bin
<1>. QED
  BY <1>1, <1>2, <1>3

Literals == {"STRINGLIT", "CHARLIT", "HEX", "OCTAL", "BINARY", "NUMBER", "FLOATING", "ID"}

LEMMA TypesApart ==
  /\ Types = Literals \cup DOMAIN Keywords \cup DOMAIN Punctuators
  /\ \A type \in DOMAIN Keywords : type \notin Literals \cup DOMAIN Punctuators
  /\ \A type \in DOMAIN Punctuators : type \notin Literals
  /\ "ERROR" \notin Types /\ "EOF" \notin Types /\ "none" \notin Types
<1>1. \A type \in DOMAIN Keywords : type \notin Literals \cup DOMAIN Punctuators
  BY SMT DEF Keywords, Punctuators, Literals
<1>2. \A type \in DOMAIN Punctuators : type \notin Literals \cup {"ERROR", "EOF", "none"}
  BY SMT DEF Punctuators, Literals
<1>3. \A type \in DOMAIN Keywords : type \notin {"ERROR", "EOF", "none"}
  BY SMT DEF Keywords
<1>4. Types = Literals \cup DOMAIN Keywords \cup DOMAIN Punctuators
  BY DEF Types, Literals
<1>. QED
  BY <1>1, <1>2, <1>3, <1>4 DEF Literals

(* IsLexeme by type. *)
LEMMA LexemeOfType ==
  ASSUME NEW text, NEW after
  PROVE  /\ IsLexeme("STRINGLIT", text, after) <=>
              Quoted(text, "DQ") /\ IsUnits(Inside(text), "DQ")
         /\ IsLexeme("CHARLIT", text, after) <=>
              Quoted(text, "SQ") /\ Len(text) > 2 /\ IsUnit(Inside(text), "SQ")
         /\ \A radix \in Radixes : IsLexeme(radix, text, after) <=>
              Prefixed(text, LettersOf(radix), DigitsOf(radix))
         /\ IsLexeme("NUMBER", text, after) <=> All(text, Digit)
         /\ IsLexeme("FLOATING", text, after) <=>
              \E i \in 2 .. Len(text) :
                /\ All(SubSeq(text, 1, i - 1), Digit)
                /\ text[i] = "."
                /\ All(From(text, i + 1), Digit)
                /\ i = Len(text) => after # "."
         /\ IsLexeme("ID", text, after) <=>
              IsName(text) /\ \A k \in DOMAIN Keywords : Keywords[k] # text
         /\ \A type \in DOMAIN Keywords : IsLexeme(type, text, after) <=> text = Keywords[type]
         /\ \A type \in DOMAIN Punctuators :
              IsLexeme(type, text, after) <=> text = Punctuators[type]
<1>1. IsLexeme("STRINGLIT", text, after) <=>
           Quoted(text, "DQ") /\ IsUnits(Inside(text), "DQ")
  BY TypesApart DEF IsLexeme, Literals
<1>2. IsLexeme("CHARLIT", text, after) <=>
           Quoted(text, "SQ") /\ Len(text) > 2 /\ IsUnit(Inside(text), "SQ")
  BY TypesApart DEF IsLexeme, Literals
<1>3. \A radix \in Radixes : IsLexeme(radix, text, after) <=>
        Prefixed(text, LettersOf(radix), DigitsOf(radix))
  <2>1. LettersOf("HEX") = {"x", "X"} /\ DigitsOf("HEX") = Hex
    BY DEF LettersOf, DigitsOf
  <2>2. LettersOf("OCTAL") = {"o", "O"} /\ DigitsOf("OCTAL") = Oct
    BY DEF LettersOf, DigitsOf
  <2>3. LettersOf("BINARY") = {"b", "B"} /\ DigitsOf("BINARY") = Bin
    BY DEF LettersOf, DigitsOf
  <2>4. IsLexeme("HEX", text, after) <=> Prefixed(text, {"x", "X"}, Hex)
    BY TypesApart DEF IsLexeme, Literals
  <2>5. IsLexeme("OCTAL", text, after) <=> Prefixed(text, {"o", "O"}, Oct)
    BY TypesApart DEF IsLexeme, Literals
  <2>6. IsLexeme("BINARY", text, after) <=> Prefixed(text, {"b", "B"}, Bin)
    BY TypesApart DEF IsLexeme, Literals
  <2>. QED
    BY <2>1, <2>2, <2>3, <2>4, <2>5, <2>6 DEF Radixes
<1>6. IsLexeme("NUMBER", text, after) <=> All(text, Digit)
  BY TypesApart DEF IsLexeme, Literals
<1>7. IsLexeme("FLOATING", text, after) <=>
         \E i \in 2 .. Len(text) :
           /\ All(SubSeq(text, 1, i - 1), Digit)
           /\ text[i] = "."
           /\ All(From(text, i + 1), Digit)
           /\ i = Len(text) => after # "."
  BY TypesApart DEF IsLexeme, Literals
<1>8. IsLexeme("ID", text, after) <=>
         IsName(text) /\ \A k \in DOMAIN Keywords : Keywords[k] # text
  BY TypesApart DEF IsLexeme, Literals
<1>4. \A type \in DOMAIN Keywords : IsLexeme(type, text, after) <=> text = Keywords[type]
  BY TypesApart DEF IsLexeme, Literals
<1>5. \A type \in DOMAIN Punctuators :
        IsLexeme(type, text, after) <=> text = Punctuators[type]
  BY TypesApart DEF IsLexeme, Literals
<1>. QED
  BY <1>1, <1>2, <1>3, <1>4, <1>5, <1>6, <1>7, <1>8

(* A part of a part. *)
LEMMA PartOfPart ==
  ASSUME NEW S, NEW m \in Seq(S), NEW a \in Nat \ {0}, NEW b \in Nat, b <= Len(m), a <= b + 1,
         NEW i \in Nat \ {0}, NEW j \in Nat, i <= j + 1, j <= b - a + 1
  PROVE  SubSeq(SubSeq(m, a, b), i, j) = SubSeq(m, a + i - 1, a + j - 1)
<1>. DEFINE text == SubSeq(m, a, b)
            d == a - 1
<1>1. text \in Seq(S) /\ Len(text) = b - a + 1 /\ \A k \in 1 .. b - a + 1 : text[k] = m[a + k - 1]
  BY PartBytes
<1>2. /\ d \in Int /\ i + d \in Nat \ {0} /\ j + d \in Nat
      /\ j + d <= Len(m) /\ i + d = a + i - 1 /\ j + d = a + j - 1
  BY LenProperties
<1>3. \A k \in i .. j : m[k + d] = text[k]
  <2>1. ASSUME NEW k \in i .. j PROVE k \in 1 .. b - a + 1 /\ k + d = a + k - 1
    OBVIOUS
  <2>. HIDE DEF text, d
  <2>. QED
    BY <1>1, <2>1
<1>. HIDE DEF text, d
<1>4. SubSeq(text, i, j) = SubSeq(m, i + d, j + d)
  BY <1>1, <1>2, <1>3, SameParts
<1>. QED
  BY <1>2, <1>4 DEF text

LEMMA PartAll ==
  ASSUME NEW S, NEW m \in Seq(S), NEW a \in Nat \ {0}, NEW b \in Nat, b <= Len(m), a <= b + 1,
         NEW set
  PROVE  All(SubSeq(m, a, b), set) <=> Run(m, a, b, set)
<1>. DEFINE text == SubSeq(m, a, b)
            n == b - a + 1
<1>1. n \in Nat /\ Len(text) = n /\ \A i \in 1 .. n : text[i] = m[a + i - 1]
  BY PartBytes
<1>. HIDE DEF text
<1>2. ASSUME All(text, set), NEW k \in a .. b PROVE m[k] \in set
  <2>1. k - a + 1 \in 1 .. n /\ a + (k - a + 1) - 1 = k
    OBVIOUS
  <2>. HIDE DEF n
  <2>. QED
    BY <1>1, <1>2, <2>1 DEF All
<1>3. ASSUME Run(m, a, b, set), NEW i \in 1 .. n PROVE text[i] \in set
  <2>1. a + i - 1 \in a .. b
    OBVIOUS
  <2>. HIDE DEF n
  <2>. QED
    BY <1>1, <1>3, <2>1 DEF Run
<1>. HIDE DEF n
<1>4. All(text, set) <=> Run(m, a, b, set)
  BY <1>1, <1>2, <1>3 DEF All, Run
<1>. QED
  BY <1>4 DEF text

(* Numbers and names, by their bytes. *)
Radixed(m, radix, a, b) ==
  /\ a + 2 <= b
  /\ m[a] = "0" /\ m[a + 1] \in LettersOf(radix)
  /\ Run(m, a + 2, b, DigitsOf(radix))

Pointed(m, a, d, b) ==
  /\ Run(m, a, d - 1, Digit) /\ m[d] = "." /\ Run(m, d + 1, b, Digit)
  /\ d = b => Follow(m, b) # "."

Named(m, a, b) ==
  /\ m[a] \in Alpha \cup {"UNDERSCORE"} /\ Run(m, a, b, NameByte)
  /\ a = b => m[a] # "UNDERSCORE"

LEMMA LexemeForms ==
  ASSUME NEW S, NEW m \in Seq(S), NEW a \in Nat \ {0}, NEW b \in Nat, b <= Len(m), a <= b
  PROVE  /\ Lexeme(m, "STRINGLIT", a, b) <=>
              a < b /\ m[a] = "DQ" /\ m[b] = "DQ" /\ IsUnits(SubSeq(m, a + 1, b - 1), "DQ")
         /\ Lexeme(m, "CHARLIT", a, b) <=>
              a + 1 < b /\ m[a] = "SQ" /\ m[b] = "SQ" /\ IsUnit(SubSeq(m, a + 1, b - 1), "SQ")
         /\ \A radix \in Radixes : Lexeme(m, radix, a, b) <=> Radixed(m, radix, a, b)
         /\ Lexeme(m, "NUMBER", a, b) <=> Run(m, a, b, Digit)
         /\ Lexeme(m, "FLOATING", a, b) <=> \E d \in a + 1 .. b : Pointed(m, a, d, b)
         /\ Lexeme(m, "ID", a, b) <=>
              Named(m, a, b) /\ \A k \in DOMAIN Keywords : Keywords[k] # SubSeq(m, a, b)
         /\ \A type \in DOMAIN Keywords :
              Lexeme(m, type, a, b) <=> SubSeq(m, a, b) = Keywords[type]
         /\ \A type \in DOMAIN Punctuators :
              Lexeme(m, type, a, b) <=> SubSeq(m, a, b) = Punctuators[type]
<1>. DEFINE text == SubSeq(m, a, b)
            n == b - a + 1
<1>1. /\ text \in Seq(S) /\ n \in Nat \ {0} /\ Len(text) = n
      /\ \A i \in 1 .. n : text[i] = m[a + i - 1]
  BY PartBytes
<1>2. \A i \in Nat \ {0}, j \in Nat : i <= j + 1 /\ j <= n =>
        SubSeq(text, i, j) = SubSeq(m, a + i - 1, a + j - 1)
  BY PartOfPart
<1>3. /\ a = a + 1 - 1 /\ b = a + n - 1 /\ b - 1 = a + (n - 1) - 1 /\ a + 1 = a + 2 - 1
      /\ a + 2 = a + 3 - 1
  OBVIOUS
<1>4. text[1] = m[a] /\ text[n] = m[b] /\ (n >= 2 => text[2] = m[a + 1])
  <2>1. 1 \in 1 .. n /\ n \in 1 .. n /\ (n >= 2 => 2 \in 1 .. n)
    BY <1>1
  <2>. HIDE DEF text, n
  <2>. QED
    BY <1>1, <1>3, <2>1
<1>5. \A type : Lexeme(m, type, a, b) <=> IsLexeme(type, text, Follow(m, b))
  BY DEF Lexeme
<1>6. (n >= 2 <=> a < b) /\ (n > 2 <=> a + 1 < b) /\ (n > 2 <=> a + 2 <= b) /\ (n = 1 <=> a = b)
  OBVIOUS
<1>7. \A q : Quoted(text, q) <=> a < b /\ m[a] = q /\ m[b] = q
  <2>1. Head(text) = text[1] /\ Last(text) = text[n]
    <3>. HIDE DEF n, text
    <3>. QED
      BY <1>1 DEF Last
  <2>. HIDE DEF n, text
  <2>. QED
    BY <1>1, <1>4, <1>6, <2>1 DEF Quoted
<1>8. n >= 2 => Inside(text) = SubSeq(m, a + 1, b - 1)
  <2>1. n >= 2 => 2 \in Nat \ {0} /\ n - 1 \in Nat /\ 2 <= (n - 1) + 1 /\ n - 1 <= n
    BY <1>1
  <2>2. n >= 2 => SubSeq(text, 2, n - 1) = SubSeq(m, a + 2 - 1, a + (n - 1) - 1)
    <3>. HIDE DEF n, text
    <3>. QED
      BY <1>2, <2>1
  <2>. HIDE DEF n, text
  <2>. QED
    BY <1>1, <1>3, <2>2 DEF Inside
<1>9. \A set : All(text, set) <=> Run(m, a, b, set)
  BY PartAll
<1>10. \A set : n > 2 => (All(From(text, 3), set) <=> Run(m, a + 2, b, set))
  <2>. SUFFICES ASSUME NEW set, n > 2 PROVE All(From(text, 3), set) <=> Run(m, a + 2, b, set)
    OBVIOUS
  <2>1. From(text, 3) = SubSeq(m, a + 2, b)
    <3>1. 3 \in Nat \ {0} /\ 3 <= n + 1 /\ n <= n /\ n \in Nat
      BY <1>1
    <3>. HIDE DEF n, text
    <3>2. SubSeq(text, 3, n) = SubSeq(m, a + 3 - 1, a + n - 1)
      BY <1>2, <3>1
    <3>. QED
      BY <1>1, <1>3, <3>2 DEF From
  <2>2. a + 2 \in Nat \ {0} /\ a + 2 <= b + 1
    OBVIOUS
  <2>. HIDE DEF n, text
  <2>. QED
    BY <2>1, <2>2, PartAll
<1>. HIDE DEF n, text
<1>11. \A radix \in Radixes : Lexeme(m, radix, a, b) <=> Radixed(m, radix, a, b)
  <2>. SUFFICES ASSUME NEW radix \in Radixes
                PROVE  Lexeme(m, radix, a, b) <=> Radixed(m, radix, a, b)
    OBVIOUS
  <2>1. Lexeme(m, radix, a, b) <=> Prefixed(text, LettersOf(radix), DigitsOf(radix))
    BY <1>5, LexemeOfType
  <2>2. n > 2 => n >= 2
    BY <1>1
  <2>. QED
    BY <1>1, <1>4, <1>6, <1>10, <2>1, <2>2 DEF Prefixed, Radixed
<1>12. Lexeme(m, "NUMBER", a, b) <=> Run(m, a, b, Digit)
  BY <1>5, <1>9, LexemeOfType
<1>13. Lexeme(m, "FLOATING", a, b) <=> \E d \in a + 1 .. b : Pointed(m, a, d, b)
  <2>1. ASSUME NEW i \in 2 .. n
        PROVE  /\ a + i - 1 \in a + 1 .. b /\ (i = n <=> a + i - 1 = b)
               /\ (/\ All(SubSeq(text, 1, i - 1), Digit)
                   /\ text[i] = "."
                   /\ All(From(text, i + 1), Digit)
                   /\ i = Len(text) => Follow(m, b) # ".") <=> Pointed(m, a, a + i - 1, b)
    <3>. DEFINE d == a + i - 1
    <3>1. d \in a + 1 .. b /\ (i = n <=> d = b) /\ i \in 1 .. n
      BY DEF n
    <3>2. SubSeq(text, 1, i - 1) = SubSeq(m, a, d - 1)
      <4>1. 1 \in Nat \ {0} /\ i - 1 \in Nat /\ 1 <= (i - 1) + 1 /\ i - 1 <= n
        BY <1>1
      <4>2. SubSeq(text, 1, i - 1) = SubSeq(m, a + 1 - 1, a + (i - 1) - 1)
        BY <1>2, <4>1
      <4>3. a + (i - 1) - 1 = d - 1
        BY <1>1
      <4>. HIDE DEF d
      <4>. QED
        BY <1>3, <4>2, <4>3
    <3>3. From(text, i + 1) = SubSeq(m, d + 1, b)
      <4>1. i + 1 \in Nat \ {0} /\ i + 1 <= n + 1 /\ n <= n /\ n \in Nat
        BY <1>1
      <4>2. SubSeq(text, i + 1, n) = SubSeq(m, a + (i + 1) - 1, a + n - 1)
        BY <1>2, <4>1
      <4>3. a + (i + 1) - 1 = d + 1
        BY <1>1
      <4>. HIDE DEF d
      <4>. QED
        BY <1>1, <1>3, <4>2, <4>3 DEF From
    <3>4. text[i] = m[d]
      BY <1>1, <3>1
    <3>5. All(SubSeq(m, a, d - 1), Digit) <=> Run(m, a, d - 1, Digit)
      <4>1. d - 1 \in Nat /\ d - 1 <= Len(m) /\ a <= (d - 1) + 1
        BY <3>1, LenProperties
      <4>. HIDE DEF d
      <4>. QED
        BY <4>1, PartAll
    <3>6. All(SubSeq(m, d + 1, b), Digit) <=> Run(m, d + 1, b, Digit)
      <4>1. d + 1 \in Nat \ {0} /\ d + 1 <= b + 1
        BY <3>1
      <4>. HIDE DEF d
      <4>. QED
        BY <4>1, PartAll
    <3>. HIDE DEF d
    <3>7. (/\ All(SubSeq(text, 1, i - 1), Digit)
           /\ text[i] = "."
           /\ All(From(text, i + 1), Digit)
           /\ i = Len(text) => Follow(m, b) # ".") <=> Pointed(m, a, d, b)
      BY <1>1, <3>1, <3>2, <3>3, <3>4, <3>5, <3>6 DEF Pointed
    <3>. QED
      BY <3>1, <3>7 DEF d
  <2>2. ASSUME NEW d \in a + 1 .. b PROVE d - a + 1 \in 2 .. n /\ a + (d - a + 1) - 1 = d
    BY DEF n
  <2>3. Lexeme(m, "FLOATING", a, b) <=>
          \E i \in 2 .. n :
            /\ All(SubSeq(text, 1, i - 1), Digit)
            /\ text[i] = "."
            /\ All(From(text, i + 1), Digit)
            /\ i = Len(text) => Follow(m, b) # "."
    <3>1. Lexeme(m, "FLOATING", a, b) <=> IsLexeme("FLOATING", text, Follow(m, b))
      BY <1>5
    <3>2. Len(text) = n
      BY <1>1
    <3>. HIDE DEF text, n
    <3>. QED
      BY <3>1, <3>2, LexemeOfType
  <2>4. Lexeme(m, "FLOATING", a, b) <=> \E i \in 2 .. n : Pointed(m, a, a + i - 1, b)
    BY <2>1, <2>3
  <2>5. (\E i \in 2 .. n : Pointed(m, a, a + i - 1, b)) <=> \E d \in a + 1 .. b : Pointed(m, a, d, b)
    <3>1. ASSUME NEW i \in 2 .. n, Pointed(m, a, a + i - 1, b)
          PROVE  \E d \in a + 1 .. b : Pointed(m, a, d, b)
      BY <2>1, <3>1
    <3>2. ASSUME NEW d \in a + 1 .. b, Pointed(m, a, d, b)
          PROVE  \E i \in 2 .. n : Pointed(m, a, a + i - 1, b)
      <4>. DEFINE i == d - a + 1
      <4>1. i \in 2 .. n /\ a + i - 1 = d
        BY <2>2
      <4>. HIDE DEF i
      <4>. QED
        BY <3>2, <4>1
    <3>. QED
      BY <3>1, <3>2
  <2>. QED
    BY <2>4, <2>5
<1>14. Lexeme(m, "ID", a, b) <=>
         Named(m, a, b) /\ \A k \in DOMAIN Keywords : Keywords[k] # SubSeq(m, a, b)
  <2>1. text = << "UNDERSCORE" >> <=> a = b /\ m[a] = "UNDERSCORE"
    <3>1. ASSUME n = 1, text[1] = "UNDERSCORE" PROVE text = << "UNDERSCORE" >>
      BY <1>1, <3>1
    <3>2. Len(<< "UNDERSCORE" >>) = 1 /\ << "UNDERSCORE" >>[1] = "UNDERSCORE"
      OBVIOUS
    <3>. QED
      BY <1>1, <1>4, <1>6, <3>1, <3>2
  <2>2. IsName(text) <=> Named(m, a, b)
    BY <1>4, <1>9, <2>1 DEF IsName, Named, NameByte
  <2>3. Lexeme(m, "ID", a, b) <=>
          IsName(text) /\ \A k \in DOMAIN Keywords : Keywords[k] # text
    BY <1>5, LexemeOfType
  <2>. QED
    BY <2>2, <2>3 DEF text
<1>15. \A type \in DOMAIN Keywords :
         Lexeme(m, type, a, b) <=> SubSeq(m, a, b) = Keywords[type]
  <2>1. ASSUME NEW type \in DOMAIN Keywords
        PROVE  IsLexeme(type, text, Follow(m, b)) <=> text = Keywords[type]
    BY TypesApart DEF IsLexeme, Literals
  <2>. QED
    BY <1>5, <2>1 DEF text
<1>16. \A type \in DOMAIN Punctuators :
         Lexeme(m, type, a, b) <=> SubSeq(m, a, b) = Punctuators[type]
  <2>1. ASSUME NEW type \in DOMAIN Punctuators
        PROVE  IsLexeme(type, text, Follow(m, b)) <=> text = Punctuators[type]
    BY TypesApart DEF IsLexeme, Literals
  <2>. QED
    BY <1>5, <2>1 DEF text
<1>17. Lexeme(m, "STRINGLIT", a, b) <=>
         a < b /\ m[a] = "DQ" /\ m[b] = "DQ" /\ IsUnits(SubSeq(m, a + 1, b - 1), "DQ")
  <2>1. Lexeme(m, "STRINGLIT", a, b) <=> Quoted(text, "DQ") /\ IsUnits(Inside(text), "DQ")
    BY <1>5, LexemeOfType
  <2>. QED
    BY <1>6, <1>7, <1>8, <2>1
<1>18. Lexeme(m, "CHARLIT", a, b) <=>
         a + 1 < b /\ m[a] = "SQ" /\ m[b] = "SQ" /\ IsUnit(SubSeq(m, a + 1, b - 1), "SQ")
  <2>1. n > 2 => n >= 2
    BY <1>1
  <2>2. Lexeme(m, "CHARLIT", a, b) <=>
          Quoted(text, "SQ") /\ Len(text) > 2 /\ IsUnit(Inside(text), "SQ")
    BY <1>5, LexemeOfType
  <2>. QED
    BY <1>1, <1>6, <1>7, <1>8, <2>1, <2>2
<1>. QED
  BY <1>11, <1>12, <1>13, <1>14, <1>15, <1>16, <1>17, <1>18

-----------------------------------------------------------------------------
(* Units of a literal: the bytes from p up to j are one unit, those from a  *)
(* up to b are units, cut at the members of T.                              *)
Unit(m, q, p, j) ==
  \/ j = p + 1 /\ m[p] \notin {"BS", q, "NUL"}
  \/ j = p + 2 /\ m[p] = "BS" /\ m[p + 1] \in Escapes
  \/ j \in {p + 3, p + 4} /\ m[p] = "BS" /\ m[p + 1] = "x" /\ Run(m, p + 2, j - 1, Hex)

UnitCuts(m, q, b, T) == \A k \in T : k = b \/ \E l \in T : k < l /\ Unit(m, q, k, l)

Units(m, q, a, b) == \E T \in SUBSET (a .. b) : a \in T /\ UnitCuts(m, q, b, T)

LEMMA UnitForms ==
  ASSUME NEW S, NEW m \in Seq(S), NEW p \in Nat \ {0}, NEW j \in Nat, p < j, j <= Len(m) + 1, NEW q
  PROVE  IsUnit(SubSeq(m, p, j - 1), q) <=> Unit(m, q, p, j)
<1>. DEFINE text == SubSeq(m, p, j - 1)
            n == j - p
<1>1. /\ text \in Seq(S) /\ n \in Nat \ {0} /\ Len(text) = n
      /\ \A i \in 1 .. n : text[i] = m[p + i - 1]
  <2>. DEFINE b == j - 1
  <2>1. b \in Nat /\ b <= Len(m) /\ p <= b + 1 /\ b - p + 1 = n /\ n \in Nat \ {0}
    BY LenProperties
  <2>2. text = SubSeq(m, p, b)
    OBVIOUS
  <2>. HIDE DEF b, n, text
  <2>. QED
    BY <2>1, <2>2, PartBytes
<1>2. text[1] = m[p]
  <2>1. 1 \in 1 .. n /\ p + 1 - 1 = p
    OBVIOUS
  <2>. HIDE DEF n, text
  <2>. QED
    BY <1>1, <2>1
<1>3. n >= 2 => From(text, 2) = SubSeq(m, p + 1, j - 1)
  <2>. DEFINE b == j - 1
  <2>1. /\ n >= 2 => 2 <= n + 1 /\ n <= n
        /\ b \in Nat /\ b <= Len(m) /\ p <= b + 1 /\ b - p + 1 = n /\ n \in Nat
        /\ p + 2 - 1 = p + 1 /\ p + n - 1 = b
    BY LenProperties
  <2>2. text = SubSeq(m, p, b) /\ 2 \in Nat \ {0}
    OBVIOUS
  <2>. HIDE DEF b, n, text
  <2>3. n >= 2 => SubSeq(text, 2, n) = SubSeq(m, p + 2 - 1, p + n - 1)
    BY <2>1, <2>2, PartOfPart
  <2>. QED
    BY <1>1, <2>1, <2>3 DEF From, b
<1>. DEFINE t == From(text, 2)
<1>4. /\ Len(t) = n - 1
      /\ n >= 2 => t[1] = m[p + 1]
      /\ n >= 3 => \A set : All(From(t, 2), set) <=> Run(m, p + 2, j - 1, set)
  <2>1. CASE n = 1
    <3>1. t = SubSeq(text, 2, 1)
      BY <1>1, <2>1 DEF From
    <3>2. Len(SubSeq(text, 2, 1)) = 0
      <4>. HIDE DEF text, n
      <4>. QED
        BY <1>1, <2>1, SubSeqProperties
    <3>. HIDE DEF t, n
    <3>. QED
      BY <2>1, <3>1, <3>2
  <2>2. CASE n >= 2
    <3>. DEFINE b == j - 1
                a == p + 1
    <3>1. /\ b \in Nat /\ b <= Len(m) /\ a \in Nat \ {0} /\ a <= b + 1 /\ b - a + 1 = n - 1
          /\ n - 1 \in Nat \ {0} /\ a + 1 - 1 = p + 1 /\ 1 \in 1 .. n - 1
      BY <2>2, LenProperties
    <3>2. t = SubSeq(m, a, b)
      BY <1>3, <2>2
    <3>. HIDE DEF t, n, a, b
    <3>3. /\ Len(t) = n - 1
          /\ \A i \in 1 .. n - 1 : t[i] = m[a + i - 1]
      BY <3>1, <3>2, PartBytes
    <3>4. t[1] = m[p + 1]
      BY <3>1, <3>3
    <3>5. ASSUME n >= 3, NEW set PROVE All(From(t, 2), set) <=> Run(m, p + 2, j - 1, set)
      <4>1. 2 \in Nat \ {0} /\ n - 1 \in Nat /\ 2 <= (n - 1) + 1 /\ n - 1 <= b - a + 1
        BY <3>1, <3>5
      <4>2. SubSeq(t, 2, n - 1) = SubSeq(m, a + 2 - 1, a + (n - 1) - 1)
        BY <3>1, <3>2, <4>1, PartOfPart
      <4>3. a + 2 - 1 = p + 2 /\ a + (n - 1) - 1 = b /\ p + 2 \in Nat \ {0} /\ p + 2 <= b + 1
        BY <3>1, <3>5 DEF a, b, n
      <4>4. All(SubSeq(m, p + 2, b), set) <=> Run(m, p + 2, b, set)
        BY <3>1, <4>3, PartAll
      <4>. QED
        BY <3>3, <4>2, <4>3, <4>4 DEF From, b
    <3>. QED
      BY <3>3, <3>4, <3>5
  <2>. QED
    BY <1>1, <2>1, <2>2
<1>5. IsUnit(text, q) <=>
        IF m[p] = "BS" THEN IsEscape(t) ELSE n = 1 /\ m[p] \notin {q, "NUL"}
  <2>. HIDE DEF n, text
  <2>. QED
    BY <1>1, <1>2 DEF IsUnit
<1>6. n \in {1, 2, 3, 4} => (n = 1 <=> j = p + 1) /\ (n = 2 <=> j = p + 2)
      /\ (n = 3 <=> j = p + 3) /\ (n = 4 <=> j = p + 4)
  OBVIOUS
<1>7. j \in {p + 1, p + 2, p + 3, p + 4} => n \in {1, 2, 3, 4}
  OBVIOUS
<1>8. IsEscape(t) <=>
        \/ n = 2 /\ m[p + 1] \in Escapes
        \/ n \in {3, 4} /\ m[p + 1] = "x" /\ Run(m, p + 2, j - 1, Hex)
  <2>1. /\ Len(t) = 1 <=> n = 2
        /\ Len(t) \in {2, 3} <=> n \in {3, 4}
        /\ n \in {3, 4} => n >= 2 /\ n >= 3
        /\ n = 2 => n >= 2
    <3>. HIDE DEF n, t
    <3>. QED
      BY <1>1, <1>4
  <2>. HIDE DEF n, t
  <2>. QED
    BY <1>4, <2>1 DEF IsEscape
<1>. HIDE DEF n, text, t
<1>9. IsUnit(text, q) <=> Unit(m, q, p, j)
  BY <1>5, <1>6, <1>7, <1>8 DEF Unit
<1>. QED
  BY <1>9 DEF text

LEMMA UnitsNothing ==
  ASSUME NEW m, NEW q, NEW a \in Nat
  PROVE  Units(m, q, a, a)
<1>1. {a} \in SUBSET (a .. a) /\ a \in {a} /\ UnitCuts(m, q, a, {a})
  BY DEF UnitCuts
<1>. QED
  BY <1>1 DEF Units

LEMMA UnitsMore ==
  ASSUME NEW m, NEW q, NEW a \in Nat, NEW b \in Nat, NEW d \in Nat, a <= b, b < d,
         Units(m, q, a, b), Unit(m, q, b, d)
  PROVE  Units(m, q, a, d)
<1>1. PICK T \in SUBSET (a .. b) : a \in T /\ UnitCuts(m, q, b, T)
  BY DEF Units
<1>2. T \cup {d} \in SUBSET (a .. d)
  BY <1>1
<1>3. ASSUME NEW k \in T \cup {d}
      PROVE  k = d \/ \E l \in T \cup {d} : k < l /\ Unit(m, q, k, l)
  BY <1>1, <1>3 DEF UnitCuts
<1>. QED
  BY <1>1, <1>2, <1>3 DEF Units, UnitCuts

(* Units are a unit followed by units. *)
LEMMA UnitsStep ==
  ASSUME NEW m, NEW q, NEW a \in Nat, NEW b \in Nat, a <= b
  PROVE  Units(m, q, a, b) <=>
           a = b \/ \E l \in a + 1 .. b : Unit(m, q, a, l) /\ Units(m, q, l, b)
<1>1. ASSUME Units(m, q, a, b), a # b
      PROVE  \E l \in a + 1 .. b : Unit(m, q, a, l) /\ Units(m, q, l, b)
  <2>1. PICK T \in SUBSET (a .. b) : a \in T /\ UnitCuts(m, q, b, T)
    BY <1>1 DEF Units
  <2>2. PICK l \in T : a < l /\ Unit(m, q, a, l)
    BY <1>1, <2>1 DEF UnitCuts
  <2>3. l \in a + 1 .. b
    BY <2>1, <2>2
  <2>. DEFINE U == {k \in T : l <= k}
  <2>4. U \in SUBSET (l .. b) /\ l \in U
    <3>1. ASSUME NEW k \in U PROVE k \in l .. b
      <4>1. k \in a .. b /\ l <= k
        BY <2>1
      <4>. QED
        BY <2>3, <4>1
    <3>2. l \in U
      BY <2>2, <2>3
    <3>. HIDE DEF U
    <3>. QED
      BY <3>1, <3>2
  <2>5. ASSUME NEW k \in U PROVE k = b \/ \E o \in U : k < o /\ Unit(m, q, k, o)
    <3>1. k \in T /\ l <= k /\ k \in Nat
      BY <2>1
    <3>2. CASE k # b
      <4>1. PICK o \in T : k < o /\ Unit(m, q, k, o)
        BY <2>1, <3>1, <3>2 DEF UnitCuts
      <4>2. o \in Nat
        BY <2>1, <4>1
      <4>3. o \in U
        BY <2>3, <3>1, <4>1, <4>2
      <4>. QED
        BY <4>1, <4>3
    <3>. QED
      BY <3>2
  <2>. HIDE DEF U
  <2>. QED
    BY <2>2, <2>3, <2>4, <2>5 DEF Units, UnitCuts
<1>2. ASSUME NEW l \in a + 1 .. b, Unit(m, q, a, l), Units(m, q, l, b) PROVE Units(m, q, a, b)
  <2>1. PICK T \in SUBSET (l .. b) : l \in T /\ UnitCuts(m, q, b, T)
    BY <1>2 DEF Units
  <2>2. T \cup {a} \in SUBSET (a .. b)
    BY <1>2, <2>1
  <2>3. ASSUME NEW k \in T \cup {a}
        PROVE  k = b \/ \E o \in T \cup {a} : k < o /\ Unit(m, q, k, o)
    <3>1. CASE k = a
      BY <1>2, <2>1, <3>1
    <3>2. CASE k \in T
      BY <2>1, <3>2 DEF UnitCuts
    <3>. QED
      BY <3>1, <3>2
  <2>. QED
    BY <2>2, <2>3 DEF Units, UnitCuts
<1>. QED
  BY <1>1, <1>2, UnitsNothing

(* The fixed point that IsUnits names: the inside of a literal is units.    *)
LEMMA InsideUnits ==
  ASSUME NEW S, NEW m \in Seq(S), NEW p \in Nat \ {0}, NEW b \in Nat, p <= b, b <= Len(m) + 1, NEW q
  PROVE  IsUnits(SubSeq(m, p, b - 1), q) <=> Units(m, q, p, b)
<1>. DEFINE text == SubSeq(m, p, b - 1)
            n == b - p
            D == 1 .. n + 1
            Def(f) == [i \in 1 .. Len(text) + 1 |->
                         \/ i = Len(text) + 1
                         \/ \E j \in i .. Len(text) : IsUnit(SubSeq(text, i, j), q) /\ f[j + 1]]
            units == [i \in D |-> Units(m, q, p + i - 1, b)]
            e == CHOOSE f : f = Def(f)
<1>1. /\ text \in Seq(S) /\ n \in Nat /\ Len(text) = n
      /\ \A i \in Nat \ {0}, j \in Nat : i <= j + 1 /\ j <= n =>
           SubSeq(text, i, j) = SubSeq(m, p + i - 1, p + j - 1)
  <2>. DEFINE l == b - 1
  <2>1. l \in Nat /\ l <= Len(m) /\ p <= l + 1 /\ l - p + 1 = n /\ n \in Nat
    BY LenProperties
  <2>2. text = SubSeq(m, p, l)
    OBVIOUS
  <2>. HIDE DEF l, n, text
  <2>3. text \in Seq(S) /\ Len(text) = n
    BY <2>1, <2>2, PartBytes
  <2>4. \A i \in Nat \ {0}, j \in Nat : i <= j + 1 /\ j <= n =>
           SubSeq(text, i, j) = SubSeq(m, p + i - 1, p + j - 1)
    BY <2>1, <2>2, PartOfPart
  <2>. QED
    BY <2>1, <2>3, <2>4
<1>2. ASSUME NEW i \in D
      PROVE  Units(m, q, p + i - 1, b) <=>
               \/ i = n + 1
               \/ \E j \in i .. n : IsUnit(SubSeq(text, i, j), q) /\ Units(m, q, p + j, b)
  <2>. DEFINE k == p + i - 1
  <2>1. k \in Nat \ {0} /\ k <= b /\ i \in Nat \ {0} /\ (i = n + 1 <=> k = b)
    OBVIOUS
  <2>2. ASSUME NEW j \in i .. n
        PROVE  /\ p + j \in k + 1 .. b
               /\ IsUnit(SubSeq(text, i, j), q) <=> Unit(m, q, k, p + j)
    <3>. DEFINE l == p + j
    <3>1. l \in k + 1 .. b /\ l \in Nat /\ k < l /\ l <= Len(m) + 1 /\ p + j - 1 = l - 1
          /\ j \in Nat /\ i <= j + 1 /\ j <= n
      BY LenProperties
    <3>. HIDE DEF k, l, n, text
    <3>2. SubSeq(text, i, j) = SubSeq(m, k, l - 1)
      <4>1. SubSeq(text, i, j) = SubSeq(m, p + i - 1, p + j - 1)
        BY <1>1, <2>1, <3>1
      <4>. QED
        BY <3>1, <4>1 DEF k
    <3>3. IsUnit(SubSeq(m, k, l - 1), q) <=> Unit(m, q, k, l)
      BY <2>1, <3>1, UnitForms
    <3>. QED
      BY <3>1, <3>2, <3>3 DEF l
  <2>3. ASSUME NEW l \in k + 1 .. b PROVE l - p \in i .. n /\ p + (l - p) = l
    BY <2>1
  <2>4. Units(m, q, k, b) <=> k = b \/ \E l \in k + 1 .. b : Unit(m, q, k, l) /\ Units(m, q, l, b)
    <3>. HIDE DEF k
    <3>. QED
      BY <2>1, UnitsStep
  <2>5. (\E l \in k + 1 .. b : Unit(m, q, k, l) /\ Units(m, q, l, b)) <=>
          \E j \in i .. n : Unit(m, q, k, p + j) /\ Units(m, q, p + j, b)
    <3>1. ASSUME NEW l \in k + 1 .. b, Unit(m, q, k, l), Units(m, q, l, b)
          PROVE  \E j \in i .. n : Unit(m, q, k, p + j) /\ Units(m, q, p + j, b)
      <4>. DEFINE j == l - p
      <4>1. j \in i .. n /\ p + j = l
        BY <2>3
      <4>. HIDE DEF j, k, n
      <4>. QED
        BY <3>1, <4>1
    <3>. HIDE DEF k, n
    <3>. QED
      BY <2>2, <3>1
  <2>6. Units(m, q, k, b) <=>
          \/ i = n + 1
          \/ \E j \in i .. n : IsUnit(SubSeq(text, i, j), q) /\ Units(m, q, p + j, b)
    <3>. HIDE DEF k, n, text
    <3>. QED
      BY <2>1, <2>2, <2>4, <2>5
  <2>. QED
    BY <2>6
<1>3. \A i \in D : /\ units[i] = Units(m, q, p + i - 1, b)
                   /\ Units(m, q, p + i - 1, b) \in BOOLEAN
  BY DEF Units
<1>4. \A i \in D : \A j \in i .. n : j + 1 \in D /\ p + (j + 1) - 1 = p + j
  BY <1>1
<1>5. ASSUME NEW i \in D
      PROVE  /\ units[i] \in BOOLEAN
             /\ units[i] <=>
                  \/ i = n + 1
                  \/ \E j \in i .. n : IsUnit(SubSeq(text, i, j), q) /\ units[j + 1]
  <2>1. \A j \in i .. n : units[j + 1] = Units(m, q, p + j, b)
    BY <1>3, <1>4
  <2>. HIDE DEF units, D, n, text
  <2>. QED
    BY <1>2, <1>3, <2>1
<1>6. units = Def(units)
  <2>1. ASSUME NEW i \in D
        PROVE  units[i] = ( \/ i = Len(text) + 1
                            \/ \E j \in i .. Len(text) :
                                 IsUnit(SubSeq(text, i, j), q) /\ units[j + 1] )
    <3>. HIDE DEF units, D, text, n
    <3>. QED
      BY <1>1, <1>5
  <2>2. 1 .. Len(text) + 1 = D
    BY <1>1
  <2>. QED
    BY <2>1, <2>2
<1>7. e = Def(e)
  <2>. HIDE DEF units
  <2>. QED
    BY <1>6
<1>8. IsUnits(text, q) = e[1]
  BY DEF IsUnits
<1>. HIDE DEF e
<1>9. \A i \in D : e[i] = ( \/ i = n + 1
                            \/ \E j \in i .. n : IsUnit(SubSeq(text, i, j), q) /\ e[j + 1] )
  BY <1>1, <1>7
<1>. DEFINE Bad == {i \in D : ~(e[i] <=> units[i])}
<1>10. Bad = {}
  <2>. SUFFICES ASSUME Bad # {} PROVE FALSE
    OBVIOUS
  <2>1. PICK k \in Bad : \A o \in Bad : o <= k
    <3>1. Bad \subseteq 0 .. n + 1 /\ n + 1 \in Nat
      <4>1. \A i \in D : i \in 0 .. n + 1
        BY <1>1
      <4>. HIDE DEF D, n
      <4>. QED
        BY <1>1, <4>1
    <3>. HIDE DEF Bad
    <3>. QED
      BY <3>1, Greatest
  <2>2. k \in D /\ ~(e[k] <=> units[k])
    BY <2>1
  <2>3. \A j \in k .. n : e[j + 1] <=> units[j + 1]
    <3>1. ASSUME NEW j \in k .. n PROVE j + 1 \in D /\ ~(j + 1 <= k)
      BY <2>2, <1>1
    <3>. HIDE DEF D, n, units
    <3>. QED
      BY <2>1, <3>1
  <2>4. e[k] <=> \/ k = n + 1
                 \/ \E j \in k .. n : IsUnit(SubSeq(text, k, j), q) /\ e[j + 1]
    <3>. HIDE DEF D, n, units, text
    <3>. QED
      BY <1>9, <2>2
  <2>. HIDE DEF D, n, units, text
  <2>. QED
    BY <1>5, <2>2, <2>3, <2>4
<1>11. e[1] <=> units[1]
  <2>1. 1 \in D
    BY <1>1
  <2>. HIDE DEF units, D
  <2>. QED
    BY <1>10, <2>1
<1>12. units[1] = Units(m, q, p, b)
  <2>1. 1 \in D /\ p + 1 - 1 = p
    BY <1>1
  <2>. HIDE DEF units, D
  <2>. QED
    BY <1>3, <2>1
<1>. HIDE DEF text, units
<1>13. IsUnits(text, q) <=> Units(m, q, p, b)
  BY <1>8, <1>11, <1>12
<1>. QED
  BY <1>13 DEF text

-----------------------------------------------------------------------------
(* What may begin with a byte.                                              *)
LEMMA KeywordIsNamed ==
  ASSUME NEW S, NEW m \in Seq(S), NEW a \in Nat \ {0}, NEW b \in Nat, b <= Len(m), a <= b,
         NEW type \in DOMAIN Keywords, SubSeq(m, a, b) = Keywords[type]
  PROVE  Named(m, a, b)
<1>. DEFINE text == SubSeq(m, a, b)
            n == b - a + 1
<1>1. /\ n \in Nat \ {0} /\ Len(text) = n
      /\ \A i \in 1 .. n : text[i] = m[a + i - 1]
  BY PartBytes
<1>2. n \notin {0, 1} /\ \A i \in 1 .. n : text[i] \in Alpha
  BY <1>1, KeywordTable
<1>. HIDE DEF text
<1>3. ASSUME NEW i \in a .. b PROVE m[i] \in Alpha
  <2>1. i - a + 1 \in 1 .. n /\ a + (i - a + 1) - 1 = i
    OBVIOUS
  <2>. HIDE DEF n
  <2>. QED
    BY <1>1, <1>2, <2>1
<1>4. a \in a .. b /\ a # b
  BY <1>2
<1>. QED
  BY <1>3, <1>4 DEF Named, Run, NameByte, Alnum

LEMMA LexemesAt ==
  ASSUME NEW S, NEW m \in Seq(S), NEW a \in Nat \ {0}, NEW b \in Nat, b <= Len(m), a <= b,
         NEW type \in Types, Lexeme(m, type, a, b)
  PROVE  /\ m[a] = "DQ" =>
              type = "STRINGLIT" /\ a < b /\ m[b] = "DQ" /\ Units(m, "DQ", a + 1, b)
         /\ m[a] = "SQ" =>
              type = "CHARLIT" /\ a + 1 < b /\ m[b] = "SQ" /\ Unit(m, "SQ", a + 1, b)
         /\ m[a] \in Digit =>
              \/ type \in Radixes /\ Radixed(m, type, a, b)
              \/ type = "NUMBER" /\ Run(m, a, b, Digit)
              \/ type = "FLOATING" /\ \E d \in a + 1 .. b : Pointed(m, a, d, b)
         /\ m[a] \in Alpha => Named(m, a, b)
         /\ m[a] \notin Alnum \cup {"DQ", "SQ"} =>
              \/ type \in DOMAIN Punctuators /\ SubSeq(m, a, b) = Punctuators[type]
              \/ m[a] = "UNDERSCORE" /\ Named(m, a, b)
<1>1. /\ {"DQ", "SQ", "UNDERSCORE"} \cap Alnum = {} /\ Alpha \cap Digit = {}
      /\ Alpha \subseteq Alnum /\ Digit \subseteq Alnum /\ "0" \in Digit
  BY SMT DEF Alnum, Alpha, Digit, Oct, Bin, Hex
<1>2. CASE type = "STRINGLIT"
  <2>1. a < b /\ m[a] = "DQ" /\ m[b] = "DQ" /\ IsUnits(SubSeq(m, a + 1, b - 1), "DQ")
    BY <1>2, LexemeForms
  <2>2. a + 1 \in Nat \ {0} /\ a + 1 <= b /\ b <= Len(m) + 1
    BY <2>1, LenProperties
  <2>3. Units(m, "DQ", a + 1, b)
    BY <2>1, <2>2, InsideUnits
  <2>. QED
    BY <1>1, <1>2, <2>1, <2>3
<1>3. CASE type = "CHARLIT"
  <2>1. a + 1 < b /\ m[a] = "SQ" /\ m[b] = "SQ" /\ IsUnit(SubSeq(m, a + 1, b - 1), "SQ")
    BY <1>3, LexemeForms
  <2>2. a + 1 \in Nat \ {0} /\ a + 1 < b /\ b <= Len(m) + 1
    BY <2>1, LenProperties
  <2>3. Unit(m, "SQ", a + 1, b)
    BY <2>1, <2>2, UnitForms
  <2>. QED
    BY <1>1, <1>3, <2>1, <2>3
<1>4. CASE type \in Radixes
  <2>1. Radixed(m, type, a, b)
    BY <1>4, LexemeForms
  <2>2. m[a] = "0"
    BY <2>1 DEF Radixed
  <2>. QED
    BY <1>1, <1>4, <2>1, <2>2
<1>5. a \in a .. b
  OBVIOUS
<1>6. CASE type = "NUMBER"
  <2>1. Run(m, a, b, Digit)
    BY <1>6, LexemeForms
  <2>2. m[a] \in Digit
    BY <1>5, <2>1 DEF Run
  <2>. QED
    BY <1>1, <1>6, <2>1, <2>2
<1>7. CASE type = "FLOATING"
  <2>1. PICK d \in a + 1 .. b : Pointed(m, a, d, b)
    BY <1>7, LexemeForms
  <2>2. a \in a .. d - 1
    OBVIOUS
  <2>3. m[a] \in Digit
    BY <2>1, <2>2 DEF Pointed, Run
  <2>. QED
    BY <1>1, <1>7, <2>1, <2>3
<1>8. ASSUME Named(m, a, b)
      PROVE  /\ m[a] \in Alpha \cup {"UNDERSCORE"}
             /\ m[a] \notin {"DQ", "SQ"} \cup Digit
  BY <1>1, <1>8 DEF Named
<1>9. CASE type = "ID"
  <2>1. Named(m, a, b)
    BY <1>9, LexemeForms
  <2>. QED
    BY <1>1, <1>8, <2>1
<1>10. CASE type \in DOMAIN Keywords
  <2>1. SubSeq(m, a, b) = Keywords[type]
    BY <1>10, LexemeForms
  <2>2. Named(m, a, b)
    BY <1>10, <2>1, KeywordIsNamed
  <2>. QED
    BY <1>1, <1>8, <2>2
<1>11. CASE type \in DOMAIN Punctuators
  <2>1. SubSeq(m, a, b) = Punctuators[type]
    BY <1>11, LexemeForms
  <2>2. SubSeq(m, a, b)[1] = m[a]
    <3>1. 1 \in 1 .. b - a + 1 /\ a + 1 - 1 = a
      OBVIOUS
    <3>. QED
      BY <3>1, PartBytes
  <2>3. m[a] \notin Alnum \cup {"DQ", "SQ"}
    BY <1>11, <2>1, <2>2, PunctuatorTable
  <2>. QED
    BY <1>1, <1>11, <2>1, <2>3
<1>. QED
  BY <1>2, <1>3, <1>4, <1>6, <1>7, <1>9, <1>10, <1>11 DEF Types, Radixes

Longest(m, a, e) == \A b \in e + 1 .. Len(m) : \A type \in Types : ~Lexeme(m, type, a, b)

Refused == {"NUMBER", "PLUS", "MINUS", "Increment", "Decrement"}

Hopeless(m, a) == \A b \in a .. Len(m) : \A type \in Types \ Refused : ~Lexeme(m, type, a, b)

(* A word: the longest run of name bytes.                                   *)
LEMMA WordIsRight ==
  ASSUME NEW S, NEW m \in Seq(S), NEW a \in Nat \ {0}, NEW e \in Nat, a <= e, e < Len(m),
         m[a] \in Alpha \cup {"UNDERSCORE"}, Run(m, a, e, NameByte), m[e + 1] \notin NameByte,
         m[a] = "UNDERSCORE" => a < e
  PROVE  /\ Lexeme(m, Spelling(Keywords, SubSeq(m, a, e), "ID"), a, e)
         /\ Longest(m, a, e)
<1>0. Len(m) \in Nat /\ e <= Len(m)
  BY LenProperties
<1>1. Lexeme(m, Spelling(Keywords, SubSeq(m, a, e), "ID"), a, e)
  <2>. DEFINE text == SubSeq(m, a, e)
              type == Spelling(Keywords, text, "ID")
  <2>1. Named(m, a, e)
    BY DEF Named
  <2>2. CASE \E k \in DOMAIN Keywords : Keywords[k] = text
    <3>1. type \in DOMAIN Keywords /\ Keywords[type] = text
      BY <2>2 DEF Spelling
    <3>2. \A k \in DOMAIN Keywords : SubSeq(m, a, e) = Keywords[k] => Lexeme(m, k, a, e)
      BY <1>0, LexemeForms
    <3>. HIDE DEF type
    <3>3. Lexeme(m, type, a, e)
      BY <3>1, <3>2
    <3>. QED
      BY <3>3 DEF type
  <2>3. CASE ~ \E k \in DOMAIN Keywords : Keywords[k] = text
    <3>1. type = "ID"
      BY <2>3 DEF Spelling
    <3>2. Lexeme(m, "ID", a, e)
      BY <1>0, <2>1, <2>3, LexemeForms
    <3>. QED
      BY <3>1, <3>2
  <2>. QED
    BY <2>2, <2>3
<1>2. ASSUME NEW b \in e + 1 .. Len(m), NEW type \in Types, Lexeme(m, type, a, b) PROVE FALSE
  <2>1. b \in Nat /\ b <= Len(m) /\ a < b /\ e + 1 \in a .. b
    BY <1>0
  <2>2. CASE Named(m, a, b)
    BY <2>1, <2>2 DEF Named, Run
  <2>3. CASE m[a] \in Alpha
    BY <1>2, <2>1, <2>2, <2>3, LexemesAt
  <2>4. CASE m[a] = "UNDERSCORE"
    <3>1. m[a] \notin Alnum \cup {"DQ", "SQ"}
      BY <2>4, SMT DEF Alnum, Alpha, Digit, Oct, Bin, Hex
    <3>2. type \in DOMAIN Punctuators /\ SubSeq(m, a, b) = Punctuators[type]
      BY <1>2, <2>1, <2>2, <3>1, LexemesAt
    <3>3. Len(SubSeq(m, a, b)) = b - a + 1 /\ SubSeq(m, a, b)[1] = m[a]
      <4>1. 1 \in 1 .. b - a + 1 /\ a + 1 - 1 = a
        BY <2>1
      <4>. QED
        BY <2>1, <4>1, PartBytes
    <3>4. Len(Punctuators[type]) = 1
      BY <2>4, <3>2, <3>3, PunctuatorTable
    <3>5. b - a + 1 = 1
      BY <3>2, <3>3, <3>4
    <3>. QED
      BY <2>1, <3>5
  <2>. QED
    BY <2>3, <2>4
<1>. QED
  BY <1>1, <1>2 DEF Longest

(* Numbers.                                                                 *)
RadixLetters == {"x", "X", "o", "O", "b", "B"}

LEMMA RadixTable ==
  /\ "0" \in Digit /\ "." \notin Digit /\ "." \notin RadixLetters
  /\ RadixLetters \cap Digit = {}
  /\ \A radix \in Radixes : LettersOf(radix) \subseteq RadixLetters
  /\ \A r \in Radixes, s \in Radixes : \A x : x \in LettersOf(r) /\ x \in LettersOf(s) => r = s
<1>1. LettersOf("HEX") = {"x", "X"} /\ LettersOf("OCTAL") = {"o", "O"} /\ LettersOf("BINARY") = {"b", "B"}
  BY DEF LettersOf
<1>2. \A r \in Radixes, s \in Radixes : \A x : x \in LettersOf(r) /\ x \in LettersOf(s) => r = s
  BY <1>1 DEF Radixes
<1>3. \A radix \in Radixes : LettersOf(radix) \subseteq RadixLetters
  BY <1>1 DEF Radixes, RadixLetters
<1>4. /\ "0" \in Digit /\ "." \notin Digit /\ "." \notin RadixLetters
      /\ RadixLetters \cap Digit = {}
  BY SMT DEF RadixLetters, Digit, Oct, Bin
<1>. QED
  BY <1>2, <1>3, <1>4

(* After the "0" and the letter of a prefix only that prefix goes on.       *)
LEMMA RadixAt ==
  ASSUME NEW S, NEW m \in Seq(S), NEW a \in Nat \ {0}, NEW b \in Nat, b <= Len(m), a < b,
         NEW radix \in Radixes, m[a] = "0", m[a + 1] \in LettersOf(radix),
         NEW type \in Types, Lexeme(m, type, a, b)
  PROVE  type = radix /\ Radixed(m, radix, a, b)
<1>1. m[a] \in Digit /\ m[a + 1] \notin Digit /\ m[a + 1] # "."
  BY RadixTable
<1>2. CASE type \in Radixes /\ Radixed(m, type, a, b)
  BY <1>2, RadixTable DEF Radixed
<1>3. CASE Run(m, a, b, Digit)
  <2>1. a + 1 \in a .. b
    OBVIOUS
  <2>. QED
    BY <1>1, <1>3, <2>1 DEF Run
<1>4. ASSUME NEW d \in a + 1 .. b, Pointed(m, a, d, b) PROVE FALSE
  <2>1. d = a + 1 \/ a + 1 \in a .. d - 1
    OBVIOUS
  <2>. QED
    BY <1>1, <1>4, <2>1 DEF Pointed, Run
<1>. QED
  BY <1>1, <1>2, <1>3, <1>4, LexemesAt

LEMMA RadixIsRight ==
  ASSUME NEW S, NEW m \in Seq(S), NEW a \in Nat \ {0}, NEW e \in Nat, e < Len(m),
         NEW radix \in Radixes, Radixed(m, radix, a, e), m[e + 1] \notin DigitsOf(radix)
  PROVE  Lexeme(m, radix, a, e) /\ Longest(m, a, e)
<1>0. Len(m) \in Nat /\ e <= Len(m) /\ a + 2 <= e
  BY LenProperties DEF Radixed
<1>1. Lexeme(m, radix, a, e)
  BY <1>0, LexemeForms
<1>2. ASSUME NEW b \in e + 1 .. Len(m), NEW type \in Types, Lexeme(m, type, a, b) PROVE FALSE
  <2>1. b \in Nat /\ b <= Len(m) /\ a < b /\ e + 1 \in a + 2 .. b
    BY <1>0
  <2>2. m[a] = "0" /\ m[a + 1] \in LettersOf(radix)
    BY DEF Radixed
  <2>3. Radixed(m, radix, a, b)
    BY <1>2, <2>1, <2>2, RadixAt
  <2>. QED
    BY <2>1, <2>3 DEF Radixed, Run
<1>. QED
  BY <1>1, <1>2 DEF Longest

LEMMA RadixIsHopeless ==
  ASSUME NEW S, NEW m \in Seq(S), NEW a \in Nat \ {0}, a + 2 <= Len(m),
         NEW radix \in Radixes, m[a] = "0", m[a + 1] \in LettersOf(radix),
         m[a + 2] \notin DigitsOf(radix)
  PROVE  Hopeless(m, a)
<1>0. Len(m) \in Nat
  BY LenProperties
<1>1. SUFFICES ASSUME NEW b \in a .. Len(m), NEW type \in Types \ Refused, Lexeme(m, type, a, b)
               PROVE  FALSE
  BY DEF Hopeless
<1>2. b \in Nat /\ b <= Len(m) /\ a <= b
  BY <1>0
<1>3. CASE a < b
  <2>1. Radixed(m, radix, a, b)
    BY <1>1, <1>2, <1>3, RadixAt
  <2>2. a + 2 \in a + 2 .. b
    BY <2>1, <1>2 DEF Radixed
  <2>. QED
    BY <2>1, <2>2 DEF Radixed, Run
<1>4. CASE a = b
  <2>1. m[a] \in Digit /\ type # "NUMBER"
    BY RadixTable DEF Refused
  <2>2. ~Radixed(m, type, a, b)
    BY <1>4 DEF Radixed
  <2>3. a + 1 .. b = {}
    BY <1>4
  <2>. QED
    BY <1>1, <1>2, <2>1, <2>2, <2>3, LexemesAt
<1>. QED
  BY <1>2, <1>3, <1>4

LEMMA DecimalIsRight ==
  ASSUME NEW S, NEW m \in Seq(S), NEW a \in Nat \ {0}, NEW e \in Nat, a <= e, e < Len(m),
         Run(m, a, e, Digit), m[e + 1] \notin Digit,
         m[e + 1] = "." => e + 1 < Len(m) /\ m[e + 2] = ".",
         m[a] = "0" => m[a + 1] \notin RadixLetters
  PROVE  Lexeme(m, "NUMBER", a, e) /\ Longest(m, a, e)
<1>0. Len(m) \in Nat /\ e <= Len(m) /\ a \in a .. e
  BY LenProperties
<1>1. Lexeme(m, "NUMBER", a, e)
  BY <1>0, LexemeForms
<1>2. m[a] \in Digit
  BY <1>0 DEF Run
<1>3. ASSUME NEW b \in e + 1 .. Len(m), NEW type \in Types, Lexeme(m, type, a, b) PROVE FALSE
  <2>1. b \in Nat /\ b <= Len(m) /\ a <= b /\ e + 1 \in a .. b
    BY <1>0
  <2>2. CASE type \in Radixes /\ Radixed(m, type, a, b)
    BY <2>2, RadixTable DEF Radixed
  <2>3. CASE Run(m, a, b, Digit)
    BY <2>1, <2>3 DEF Run
  <2>4. ASSUME NEW d \in a + 1 .. b, Pointed(m, a, d, b) PROVE FALSE
    <3>1. CASE d <= e
      <4>1. d \in a .. e
        BY <1>0, <3>1
      <4>2. m[d] \in Digit
        BY <4>1 DEF Run
      <4>. QED
        BY <2>4, <4>2, RadixTable DEF Pointed
    <3>2. CASE d > e + 1
      <4>1. e + 1 \in a .. d - 1
        BY <1>0, <3>2
      <4>. QED
        BY <2>4, <4>1 DEF Pointed, Run
    <3>3. CASE d = e + 1
      <4>1. e + 1 < Len(m) /\ m[e + 2] = "."
        BY <2>4, <3>3 DEF Pointed
      <4>2. CASE d = b
        <5>1. b < Len(m) /\ b + 1 = e + 2
          BY <3>3, <4>1, <4>2
        <5>2. Follow(m, b) = "."
          BY <4>1, <5>1 DEF Follow
        <5>. QED
          BY <2>4, <4>2, <5>2 DEF Pointed
      <4>3. CASE d # b
        <5>1. e + 2 \in d + 1 .. b
          BY <3>3, <4>3
        <5>2. m[e + 2] \in Digit
          BY <2>4, <5>1 DEF Pointed, Run
        <5>. QED
          BY <4>1, <5>2, RadixTable
      <4>. QED
        BY <4>2, <4>3
    <3>4. d \in Int
      OBVIOUS
    <3>. QED
      BY <3>1, <3>2, <3>3, <3>4
  <2>. QED
    BY <1>2, <1>3, <2>1, <2>2, <2>3, <2>4, LexemesAt
<1>. QED
  BY <1>1, <1>3 DEF Longest

LEMMA FractionIsRight ==
  ASSUME NEW S, NEW m \in Seq(S), NEW a \in Nat \ {0}, NEW e \in Nat, e < Len(m),
         NEW d \in a + 1 .. e, Run(m, a, d - 1, Digit), m[d] = ".", m[d + 1] # ".",
         Run(m, d + 1, e, Digit), m[e + 1] \notin Digit
  PROVE  Lexeme(m, "FLOATING", a, e) /\ Longest(m, a, e)
<1>0. Len(m) \in Nat /\ e <= Len(m) /\ a <= e /\ a \in a .. d - 1
  BY LenProperties
<1>1. Lexeme(m, "FLOATING", a, e)
  <2>1. d = e => Follow(m, e) = m[d + 1]
    BY DEF Follow
  <2>2. Pointed(m, a, d, e)
    BY <2>1 DEF Pointed
  <2>. QED
    BY <1>0, <2>2, LexemeForms
<1>2. m[a] \in Digit
  BY <1>0 DEF Run
<1>3. ASSUME NEW b \in e + 1 .. Len(m), NEW type \in Types, Lexeme(m, type, a, b) PROVE FALSE
  <2>1. b \in Nat /\ b <= Len(m) /\ a <= b /\ d \in a .. b
    BY <1>0
  <2>2. CASE type \in Radixes /\ Radixed(m, type, a, b)
    <3>1. m[a + 1] \in RadixLetters
      BY <2>2, RadixTable DEF Radixed
    <3>2. d = a + 1 \/ a + 1 \in a .. d - 1
      OBVIOUS
    <3>3. d # a + 1
      BY <3>1, RadixTable
    <3>4. m[a + 1] \in Digit
      BY <3>2, <3>3 DEF Run
    <3>. QED
      BY <3>1, <3>4, RadixTable
  <2>3. CASE Run(m, a, b, Digit)
    <3>1. m[d] \in Digit
      BY <2>1, <2>3 DEF Run
    <3>. QED
      BY <3>1, RadixTable
  <2>4. ASSUME NEW f \in a + 1 .. b, Pointed(m, a, f, b) PROVE FALSE
    <3>1. ~(d < f)
      <4>1. d < f => d \in a .. f - 1
        OBVIOUS
      <4>2. d < f => m[d] \in Digit
        BY <2>4, <4>1 DEF Pointed, Run
      <4>. QED
        BY <4>2, RadixTable
    <3>2. ~(f < d)
      <4>1. f < d => f \in a .. d - 1
        OBVIOUS
      <4>2. f < d => m[f] \in Digit
        BY <4>1 DEF Run
      <4>. QED
        BY <2>4, <4>2, RadixTable DEF Pointed
    <3>3. f = d
      BY <3>1, <3>2
    <3>4. e + 1 \in f + 1 .. b
      BY <1>0, <3>3
    <3>. QED
      BY <2>4, <3>4 DEF Pointed, Run
  <2>. QED
    BY <1>2, <1>3, <2>1, <2>2, <2>3, <2>4, LexemesAt
<1>. QED
  BY <1>1, <1>3 DEF Longest

(* Punctuators.                                                             *)
LEMMA SpellingKnown ==
  ASSUME NEW text
  PROVE  /\ Spelling(Punctuators, text, "none") # "none" <=>
              \E type \in DOMAIN Punctuators : Punctuators[type] = text
         /\ Spelling(Punctuators, text, "none") # "none" =>
              /\ Spelling(Punctuators, text, "none") \in DOMAIN Punctuators
              /\ Punctuators[Spelling(Punctuators, text, "none")] = text
<1>. DEFINE type == Spelling(Punctuators, text, "none")
<1>1. CASE \E t \in DOMAIN Punctuators : Punctuators[t] = text
  <2>1. type \in DOMAIN Punctuators /\ Punctuators[type] = text
    BY <1>1 DEF Spelling
  <2>2. type # "none"
    BY <2>1, TypesApart
  <2>. QED
    BY <1>1, <2>1, <2>2
<1>2. CASE ~ \E t \in DOMAIN Punctuators : Punctuators[t] = text
  BY <1>2 DEF Spelling
<1>. QED
  BY <1>1, <1>2

LEMMA OneOrTwoBytes ==
  ASSUME NEW S, NEW m \in Seq(S), NEW a \in Nat \ {0}
  PROVE  /\ a <= Len(m) => SubSeq(m, a, a) = << m[a] >>
         /\ a + 1 <= Len(m) => SubSeq(m, a, a + 1) = << m[a], m[a + 1] >>
<1>1. ASSUME a <= Len(m) PROVE SubSeq(m, a, a) = << m[a] >>
  <2>. DEFINE t == SubSeq(m, a, a)
  <2>1. t \in Seq(S) /\ Len(t) = a - a + 1 /\ \A i \in 1 .. a - a + 1 : t[i] = m[a + i - 1]
    BY <1>1, PartBytes
  <2>2. a - a + 1 = 1 /\ 1 \in 1 .. 1 /\ a + 1 - 1 = a
    OBVIOUS
  <2>. HIDE DEF t
  <2>3. Len(t) = 1 /\ t[1] = m[a] /\ t \in Seq(S)
    BY <2>1, <2>2
  <2>4. t = << m[a] >>
    BY <2>3
  <2>. QED
    BY <2>4 DEF t
<1>2. ASSUME a + 1 <= Len(m) PROVE SubSeq(m, a, a + 1) = << m[a], m[a + 1] >>
  <2>. DEFINE b == a + 1
              t == SubSeq(m, a, b)
  <2>1. b \in Nat /\ b <= Len(m) /\ a <= b + 1 /\ b - a + 1 = 2
    BY <1>2
  <2>. HIDE DEF b
  <2>2. t \in Seq(S) /\ Len(t) = b - a + 1 /\ \A i \in 1 .. b - a + 1 : t[i] = m[a + i - 1]
    BY <2>1, PartBytes
  <2>3. 1 \in 1 .. 2 /\ 2 \in 1 .. 2 /\ a + 1 - 1 = a /\ a + 2 - 1 = b
    BY DEF b
  <2>. HIDE DEF t
  <2>4. Len(t) = 2 /\ t[1] = m[a] /\ t[2] = m[b] /\ t \in Seq(S)
    BY <2>1, <2>2, <2>3
  <2>5. t = << m[a], m[b] >>
    BY <2>4
  <2>. QED
    BY <2>5 DEF t, b
<1>. QED
  BY <1>1, <1>2

(* Where a punctuator may begin, only its bytes matter.                     *)
LEMMA PunctuatorAt ==
  ASSUME NEW S, NEW m \in Seq(S), NEW a \in Nat \ {0}, NEW b \in Nat, b <= Len(m), a <= b,
         m[a] \notin Alnum \cup {"DQ", "SQ"},
         m[a] = "UNDERSCORE" => m[a + 1] \notin NameByte,
         NEW type \in Types, Lexeme(m, type, a, b)
  PROVE  /\ type \in DOMAIN Punctuators /\ SubSeq(m, a, b) = Punctuators[type]
         /\ b \in {a, a + 1, a + 2}
         /\ b = a + 2 => m[a] = "." /\ m[a + 1] = "."
<1>1. ~(m[a] = "UNDERSCORE" /\ Named(m, a, b))
  <2>. SUFFICES ASSUME m[a] = "UNDERSCORE", Named(m, a, b) PROVE FALSE
    OBVIOUS
  <2>1. a # b
    BY DEF Named
  <2>2. a + 1 \in a .. b
    BY <2>1
  <2>. QED
    BY <2>2 DEF Named, Run
<1>2. type \in DOMAIN Punctuators /\ SubSeq(m, a, b) = Punctuators[type]
  BY <1>1, LexemesAt
<1>. DEFINE text == SubSeq(m, a, b)
            n == b - a + 1
<1>3. n \in Nat \ {0} /\ Len(text) = n /\ \A i \in 1 .. n : text[i] = m[a + i - 1]
  BY PartBytes
<1>4. n \in 1 .. 3 /\ (n = 3 => text[1] = "." /\ text[2] = ".")
  <2>1. /\ Len(Punctuators[type]) \in 1 .. 3
        /\ Len(Punctuators[type]) = 3 => Punctuators[type][1] = "." /\ Punctuators[type][2] = "."
    BY <1>2, PunctuatorTable
  <2>2. text = Punctuators[type] /\ Len(text) = n
    BY <1>2, <1>3
  <2>. HIDE DEF text, n
  <2>. QED
    BY <2>1, <2>2
<1>5. (n = 1 => b = a) /\ (n = 2 => b = a + 1) /\ (n = 3 <=> b = a + 2)
  OBVIOUS
<1>6. n = 3 => 1 \in 1 .. n /\ 2 \in 1 .. n /\ a + 1 - 1 = a /\ a + 2 - 1 = a + 1
  OBVIOUS
<1>. HIDE DEF text, n
<1>7. n = 3 => m[a] = "." /\ m[a + 1] = "."
  BY <1>3, <1>4, <1>6
<1>8. b \in {a, a + 1, a + 2}
  BY <1>4, <1>5
<1>. QED
  BY <1>2, <1>5, <1>7, <1>8

LEMMA PunctuatorIsRight ==
  ASSUME NEW S, NEW m \in Seq(S), NEW a \in Nat \ {0}, NEW e \in Nat, a <= e, e < Len(m),
         m[a] \notin Alnum \cup {"DQ", "SQ"},
         m[a] = "UNDERSCORE" => m[a + 1] \notin NameByte,
         NEW type \in DOMAIN Punctuators, SubSeq(m, a, e) = Punctuators[type],
         \A t \in DOMAIN Punctuators : SubSeq(m, a, e + 1) # Punctuators[t]
  PROVE  Lexeme(m, type, a, e) /\ Longest(m, a, e)
<1>0. Len(m) \in Nat /\ e <= Len(m)
  BY LenProperties
<1>1. Lexeme(m, type, a, e)
  BY <1>0, LexemeForms
<1>2. ASSUME NEW b \in e + 1 .. Len(m), NEW t \in Types, Lexeme(m, t, a, b) PROVE FALSE
  <2>1. b \in Nat /\ b <= Len(m) /\ a <= b /\ b # a /\ b # e
    BY <1>0
  <2>2. /\ t \in DOMAIN Punctuators /\ SubSeq(m, a, b) = Punctuators[t]
        /\ b \in {a, a + 1, a + 2}
        /\ b = a + 2 => m[a] = "." /\ m[a + 1] = "."
    BY <1>2, <2>1, PunctuatorAt
  <2>3. b # e + 1
    BY <2>2
  <2>4. e = a /\ b = a + 2
    BY <2>1, <2>2, <2>3
  <2>5. a + 1 <= Len(m)
    BY <1>0, <2>4
  <2>6. SubSeq(m, a, a + 1) = << ".", "." >>
    BY <2>2, <2>4, <2>5, OneOrTwoBytes
  <2>. QED
    BY <2>4, <2>6, PunctuatorTable
<1>. QED
  BY <1>1, <1>2 DEF Longest

LEMMA ByteIsHopeless ==
  ASSUME NEW S, NEW m \in Seq(S), NEW a \in Nat \ {0}, a < Len(m),
         m[a] \notin Alnum \cup {"DQ", "SQ"},
         m[a] = "UNDERSCORE" => m[a + 1] \notin NameByte,
         \A t \in DOMAIN Punctuators :
           SubSeq(m, a, a) # Punctuators[t] /\ SubSeq(m, a, a + 1) # Punctuators[t]
  PROVE  Hopeless(m, a)
<1>0. Len(m) \in Nat /\ a <= Len(m)
  BY LenProperties
<1>1. SUFFICES ASSUME NEW b \in a .. Len(m), NEW type \in Types \ Refused, Lexeme(m, type, a, b)
               PROVE  FALSE
  BY DEF Hopeless
<1>2. b \in Nat /\ b <= Len(m) /\ a <= b
  BY <1>0
<1>3. /\ type \in DOMAIN Punctuators /\ SubSeq(m, a, b) = Punctuators[type]
      /\ b \in {a, a + 1, a + 2}
      /\ b = a + 2 => m[a] = "."
  BY <1>1, <1>2, PunctuatorAt
<1>4. b = a + 2
  BY <1>3
<1>5. SubSeq(m, a, a) = << "." >>
  BY <1>0, <1>3, <1>4, OneOrTwoBytes
<1>. QED
  BY <1>5, PunctuatorTable

LEMMA SignsAreHopeless ==
  ASSUME NEW S, NEW m \in Seq(S), NEW a \in Nat \ {0}, a < Len(m),
         SubSeq(m, a, a + 1) \in {Punctuators["Increment"], Punctuators["Decrement"]}
  PROVE  Hopeless(m, a)
<1>0. Len(m) \in Nat /\ a <= Len(m) /\ a + 1 <= Len(m)
  BY LenProperties
<1>1. SUFFICES ASSUME NEW b \in a .. Len(m), NEW type \in Types \ Refused, Lexeme(m, type, a, b)
               PROVE  FALSE
  BY DEF Hopeless
<1>2. b \in Nat /\ b <= Len(m) /\ a <= b
  BY <1>0
<1>3. m[a] \in {"+", "-"} /\ m[a + 1] \in {"+", "-"}
  <2>. DEFINE x == m[a]
              y == m[a + 1]
  <2>1. << x, y >> \in {<< "+", "+" >>, << "-", "-" >>}
    BY <1>0, OneOrTwoBytes, SignTable
  <2>. HIDE DEF x, y
  <2>2. x \in {"+", "-"} /\ y \in {"+", "-"}
    BY <2>1
  <2>. QED
    BY <2>2 DEF x, y
<1>4. {"+", "-"} \cap (Alnum \cup {"DQ", "SQ", "UNDERSCORE", "."}) = {}
  BY SMT DEF Alnum, Alpha, Digit, Oct, Bin, Hex
<1>5. m[a] \notin Alnum \cup {"DQ", "SQ"} /\ m[a] # "UNDERSCORE" /\ m[a] # "."
  BY <1>3, <1>4
<1>6. /\ type \in DOMAIN Punctuators /\ SubSeq(m, a, b) = Punctuators[type]
      /\ b \in {a, a + 1, a + 2}
      /\ b = a + 2 => m[a] = "."
  BY <1>1, <1>2, <1>5, PunctuatorAt
<1>7. b \in {a, a + 1}
  BY <1>5, <1>6
<1>8. CASE b = a
  <2>1. Punctuators[type] = << m[a] >>
    BY <1>0, <1>6, <1>8, OneOrTwoBytes
  <2>2. Punctuators[type][1] = m[a] /\ Len(Punctuators[type]) = 1
    BY <2>1
  <2>. QED
    BY <1>3, <1>6, <2>2, SignTable DEF Refused
<1>9. CASE b = a + 1
  <2>1. Punctuators[type] = << m[a], m[a + 1] >>
    BY <1>0, <1>6, <1>9, OneOrTwoBytes
  <2>2. Punctuators[type][1] = m[a] /\ Punctuators[type][2] = m[a + 1]
    BY <2>1
  <2>. QED
    BY <1>3, <1>6, <2>2, SignTable DEF Refused
<1>. QED
  BY <1>7, <1>8, <1>9

-----------------------------------------------------------------------------
(* Literals.  A unit that check_valid_escape() takes is as long as it can   *)
(* be, so whoever else cuts the literal into units comes to the same places. *)
Extends(o, m) == Len(m) <= Len(o) /\ \A i \in 1 .. Len(m) : o[i] = m[i]

Greedy(m, q, p, l) ==
  /\ Unit(m, q, p, l)
  /\ m[p] = "BS" /\ m[p + 1] = "x" /\ l = p + 3 => p + 3 <= Len(m) /\ m[p + 3] \notin Hex

Ahead(m, q, p, u) ==
  \A o \in Seq(Bytes) : Extends(o, m) =>
    \A b \in p .. Len(o) : o[b] = q /\ Units(o, q, p, b) => u <= b /\ Units(o, q, u, b)

LEMMA EscapeTable ==
  /\ "x" \notin Escapes /\ "x" \notin Hex
  /\ Hex \cap {"BS", "DQ", "SQ", "NUL"} = {}
BY SMT DEF Escapes, Hex, Digit, Oct, Bin

(* Two units at the same place differ by the second digit of an escape.     *)
LEMMA GreedyOnly ==
  ASSUME NEW m, NEW q, NEW p \in Nat, NEW l \in Nat, NEW j \in Nat,
         Greedy(m, q, p, l), Unit(m, q, p, j)
  PROVE  j = l \/ (j + 1 = l /\ m[j] \in Hex)
<1>1. CASE m[p] # "BS"
  BY <1>1 DEF Greedy, Unit
<1>2. CASE m[p] = "BS" /\ m[p + 1] \in Escapes
  BY <1>2, EscapeTable DEF Greedy, Unit
<1>3. CASE m[p] = "BS" /\ m[p + 1] = "x"
  <2>1. l \in {p + 3, p + 4} /\ j \in {p + 3, p + 4}
    BY <1>3, EscapeTable DEF Greedy, Unit
  <2>2. CASE l = p + 3 /\ j = p + 4
    <3>1. Run(m, p + 2, j - 1, Hex)
      BY <1>3, <2>2, EscapeTable DEF Unit
    <3>2. p + 3 \in p + 2 .. j - 1
      BY <2>2
    <3>. QED
      BY <1>3, <2>2, <3>1, <3>2 DEF Run, Greedy
  <2>3. CASE l = p + 4 /\ j = p + 3
    <3>1. Run(m, p + 2, l - 1, Hex)
      BY <1>3, <2>3, EscapeTable DEF Greedy, Unit
    <3>2. p + 3 \in p + 2 .. l - 1
      BY <2>3
    <3>. QED
      BY <2>3, <3>1, <3>2 DEF Run
  <2>. QED
    BY <2>1, <2>2, <2>3
<1>. QED
  BY <1>1, <1>2, <1>3 DEF Unit, Greedy

LEMMA ExtendsItself ==
  ASSUME NEW m
  PROVE  Extends(m, m)
BY DEF Extends

LEMMA ExtendsFurther ==
  ASSUME NEW S, NEW k \in Seq(S), NEW m \in Seq(S), NEW o \in Seq(S), Extends(m, k), Extends(o, m)
  PROVE  Extends(o, k)
<1>1. Len(k) \in Nat /\ Len(m) \in Nat /\ Len(o) \in Nat
  BY LenProperties
<1>2. \A i \in 1 .. Len(k) : i \in 1 .. Len(m)
  BY <1>1 DEF Extends
<1>. QED
  BY <1>1, <1>2 DEF Extends

(* A unit stays a unit.                                                     *)
LEMMA UnitStays ==
  ASSUME NEW S, NEW m \in Seq(S), NEW o \in Seq(S), Extends(o, m), NEW q,
         NEW p \in Nat \ {0}, NEW l \in Nat, Unit(m, q, p, l), l <= Len(m) + 1
  PROVE  Unit(o, q, p, l)
<1>1. Len(m) \in Nat
  BY LenProperties
<1>2. CASE l = p + 1
  <2>1. p \in 1 .. Len(m)
    BY <1>1, <1>2
  <2>. QED
    BY <1>2, <2>1 DEF Unit, Extends
<1>3. CASE l = p + 2
  <2>1. p \in 1 .. Len(m) /\ p + 1 \in 1 .. Len(m)
    BY <1>1, <1>3
  <2>. QED
    BY <1>3, <2>1 DEF Unit, Extends
<1>4. CASE l \in {p + 3, p + 4}
  <2>1. p \in 1 .. Len(m) /\ p + 1 \in 1 .. Len(m)
    BY <1>1, <1>4
  <2>2. \A i \in p + 2 .. l - 1 : i \in 1 .. Len(m)
    BY <1>1, <1>4
  <2>3. Run(m, p + 2, l - 1, Hex) /\ m[p] = "BS" /\ m[p + 1] = "x"
    BY <1>4 DEF Unit
  <2>4. Run(o, p + 2, l - 1, Hex)
    BY <2>2, <2>3 DEF Run, Extends
  <2>. QED
    BY <1>4, <2>1, <2>3, <2>4 DEF Unit, Extends
<1>. QED
  BY <1>2, <1>3, <1>4 DEF Unit

LEMMA GreedyStays ==
  ASSUME NEW S, NEW m \in Seq(S), NEW o \in Seq(S), Extends(o, m), NEW q,
         NEW p \in Nat \ {0}, NEW l \in Nat, Greedy(m, q, p, l), l <= Len(m) + 1
  PROVE  Greedy(o, q, p, l)
<1>1. Len(m) \in Nat /\ Len(o) \in Nat /\ Len(m) <= Len(o)
  BY LenProperties DEF Extends
<1>2. Unit(m, q, p, l) /\ Unit(o, q, p, l)
  BY UnitStays DEF Greedy
<1>3. ASSUME o[p] = "BS", o[p + 1] = "x", l = p + 3
      PROVE  p + 3 <= Len(o) /\ o[p + 3] \notin Hex
  <2>1. p \in 1 .. Len(m) /\ p + 1 \in 1 .. Len(m)
    BY <1>1, <1>3
  <2>2. p + 3 <= Len(m) /\ m[p + 3] \notin Hex
    BY <1>3, <2>1 DEF Greedy, Extends
  <2>3. p + 3 \in 1 .. Len(m)
    BY <1>1, <2>2
  <2>. QED
    BY <1>1, <2>2, <2>3 DEF Extends
<1>. QED
  BY <1>2, <1>3 DEF Greedy

LEMMA UnitForward ==
  ASSUME NEW m, NEW q, NEW p \in Nat, NEW l, Unit(m, q, p, l)
  PROVE  l \in Nat /\ p < l
BY DEF Unit

LEMMA UnitsStay ==
  ASSUME NEW S, NEW m \in Seq(S), NEW o \in Seq(S), Extends(o, m), NEW q,
         NEW a \in Nat \ {0}, NEW b \in Nat, b <= Len(m) + 1, Units(m, q, a, b)
  PROVE  Units(o, q, a, b)
<1>1. PICK T \in SUBSET (a .. b) : a \in T /\ UnitCuts(m, q, b, T)
  BY DEF Units
<1>2. ASSUME NEW k \in T, k # b PROVE \E l \in T : k < l /\ Unit(o, q, k, l)
  <2>1. PICK l \in T : k < l /\ Unit(m, q, k, l)
    BY <1>1, <1>2 DEF UnitCuts
  <2>2. k \in a .. b /\ l \in a .. b
    BY <1>1
  <2>3. k \in Nat \ {0} /\ l \in Nat /\ l <= Len(m) + 1
    BY <2>2, LenProperties
  <2>4. Unit(o, q, k, l)
    BY <2>1, <2>3, UnitStays
  <2>. QED
    BY <2>1, <2>4
<1>. QED
  BY <1>1, <1>2 DEF Units, UnitCuts

(* Whoever comes to u comes to the end of the greedy unit at u.             *)
LEMMA AheadStep ==
  ASSUME NEW m \in Seq(Bytes), NEW q \in {"DQ", "SQ"}, NEW p \in Nat \ {0}, NEW u \in Nat \ {0},
         NEW l \in Nat, Ahead(m, q, p, u), Greedy(m, q, u, l), l <= Len(m) + 1
  PROVE  Ahead(m, q, p, l)
<1>1. SUFFICES ASSUME NEW o \in Seq(Bytes), Extends(o, m), NEW b \in p .. Len(o),
                      o[b] = q, Units(o, q, p, b)
               PROVE  l <= b /\ Units(o, q, l, b)
  BY DEF Ahead
<1>2. Greedy(o, q, u, l)
  BY <1>1, GreedyStays
<1>3. u <= b /\ Units(o, q, u, b) /\ b \in Nat
  BY <1>1 DEF Ahead
<1>4. u # b
  BY <1>1, <1>2 DEF Greedy, Unit
<1>5. PICK j \in u + 1 .. b : Unit(o, q, u, j) /\ Units(o, q, j, b)
  BY <1>3, <1>4, UnitsStep
<1>6. j \in Nat /\ j <= b /\ (j = l \/ (j + 1 = l /\ o[j] \in Hex))
  BY <1>2, <1>5, GreedyOnly
<1>7. CASE j = l
  BY <1>5, <1>6, <1>7
<1>8. CASE j + 1 = l /\ o[j] \in Hex
  <2>1. j # b /\ o[j] # "BS"
    BY <1>1, <1>8, EscapeTable
  <2>2. PICK k \in j + 1 .. b : Unit(o, q, j, k) /\ Units(o, q, k, b)
    BY <1>3, <1>5, <1>6, <2>1, UnitsStep
  <2>3. k = l
    BY <1>8, <2>1, <2>2 DEF Unit
  <2>. QED
    BY <1>3, <2>2, <2>3
<1>. QED
  BY <1>6, <1>7, <1>8

LEMMA AheadInit ==
  ASSUME NEW m, NEW q, NEW p \in Nat
  PROVE  Ahead(m, q, p, p)
BY DEF Ahead

LEMMA AheadStays ==
  ASSUME NEW m \in Seq(Bytes), NEW n \in Seq(Bytes), Extends(n, m), NEW q, NEW p, NEW u,
         Ahead(m, q, p, u)
  PROVE  Ahead(n, q, p, u)
<1>1. \A o \in Seq(Bytes) : Extends(o, n) => Extends(o, m)
  BY ExtendsFurther
<1>. QED
  BY <1>1 DEF Ahead

(* The unit that starts at u is the one the lexer reads in a literal that   *)
(* starts at a.                                                             *)
InLiteral(m, a, u) ==
  /\ m[a] \in {"DQ", "SQ"} /\ a < u
  /\ Units(m, m[a], a + 1, u) /\ Ahead(m, m[a], a + 1, u)
  /\ m[a] = "SQ" => u = a + 1

(* What closes a string closes it for everyone.                             *)
LEMMA StringIsRight ==
  ASSUME NEW m \in Seq(Bytes), NEW a \in Nat \ {0}, NEW e \in Nat, e <= Len(m),
         m[a] = "DQ", InLiteral(m, a, e), m[e] = "DQ"
  PROVE  Lexeme(m, "STRINGLIT", a, e) /\ Longest(m, a, e)
<1>0. Len(m) \in Nat /\ a < e
  BY LenProperties DEF InLiteral
<1>1. Lexeme(m, "STRINGLIT", a, e)
  <2>1. a + 1 \in Nat \ {0} /\ a + 1 <= e /\ e <= Len(m) + 1
    BY <1>0
  <2>2. IsUnits(SubSeq(m, a + 1, e - 1), "DQ")
    BY <2>1, InsideUnits DEF InLiteral
  <2>. QED
    BY <1>0, <2>2, LexemeForms
<1>2. ASSUME NEW b \in e + 1 .. Len(m), NEW type \in Types, Lexeme(m, type, a, b) PROVE FALSE
  <2>1. b \in Nat /\ b <= Len(m) /\ a <= b /\ b \in a + 1 .. Len(m) /\ e <= b /\ e # b
    BY <1>0
  <2>2. m[b] = "DQ" /\ Units(m, "DQ", a + 1, b)
    BY <1>2, <2>1, LexemesAt
  <2>3. Units(m, "DQ", e, b)
    BY <2>1, <2>2, ExtendsItself DEF InLiteral, Ahead
  <2>4. \E l \in e + 1 .. b : Unit(m, "DQ", e, l)
    BY <2>1, <2>3, UnitsStep
  <2>. QED
    BY <2>4 DEF Unit
<1>. QED
  BY <1>1, <1>2 DEF Longest

(* Where no unit can begin and no quote stands, no literal goes on.         *)
LEMMA LiteralIsHopeless ==
  ASSUME NEW m \in Seq(Bytes), NEW a \in Nat \ {0}, NEW u \in Nat, u <= Len(m),
         InLiteral(m, a, u), m[a] = "DQ" => m[u] # "DQ",
         \A l \in u + 1 .. Len(m) : ~Unit(m, m[a], u, l)
  PROVE  Hopeless(m, a)
<1>0. Len(m) \in Nat /\ a < u
  BY LenProperties DEF InLiteral
<1>1. SUFFICES ASSUME NEW b \in a .. Len(m), NEW type \in Types \ Refused, Lexeme(m, type, a, b)
               PROVE  FALSE
  BY DEF Hopeless
<1>2. b \in Nat /\ b <= Len(m) /\ a <= b
  BY <1>0
<1>3. CASE m[a] = "DQ"
  <2>1. a < b /\ m[b] = "DQ" /\ Units(m, "DQ", a + 1, b)
    BY <1>1, <1>2, <1>3, LexemesAt
  <2>2. b \in a + 1 .. Len(m)
    BY <1>2, <2>1
  <2>3. u <= b /\ Units(m, "DQ", u, b)
    BY <1>3, <2>1, <2>2, ExtendsItself DEF InLiteral, Ahead
  <2>4. u # b
    BY <1>3, <2>1
  <2>5. PICK l \in u + 1 .. b : Unit(m, "DQ", u, l)
    BY <1>2, <2>3, <2>4, UnitsStep
  <2>6. l \in u + 1 .. Len(m)
    BY <1>2, <2>5
  <2>. QED
    BY <1>3, <2>5, <2>6
<1>4. CASE m[a] = "SQ"
  <2>1. a + 1 < b /\ Unit(m, "SQ", a + 1, b) /\ u = a + 1
    BY <1>1, <1>2, <1>4, LexemesAt DEF InLiteral
  <2>2. b \in u + 1 .. Len(m)
    BY <1>2, <2>1
  <2>. QED
    BY <1>4, <2>1, <2>2
<1>. QED
  BY <1>3, <1>4 DEF InLiteral

(* A character literal holds one unit.                                      *)
LEMMA CharIsRight ==
  ASSUME NEW S, NEW m \in Seq(S), NEW a \in Nat \ {0}, NEW e \in Nat, e <= Len(m),
         m[a] = "SQ", Greedy(m, "SQ", a + 1, e), m[e] = "SQ"
  PROVE  Lexeme(m, "CHARLIT", a, e) /\ Longest(m, a, e)
<1>0. Len(m) \in Nat /\ a + 1 \in Nat \ {0}
  BY LenProperties
<1>1. Unit(m, "SQ", a + 1, e) /\ a + 1 < e
  BY <1>0, UnitForward DEF Greedy
<1>2. Lexeme(m, "CHARLIT", a, e)
  <2>1. e <= Len(m) + 1 /\ a <= e
    BY <1>0, <1>1
  <2>2. IsUnit(SubSeq(m, a + 1, e - 1), "SQ")
    BY <1>0, <1>1, <2>1, UnitForms
  <2>. QED
    BY <1>1, <2>1, <2>2, LexemeForms
<1>3. ASSUME NEW b \in e + 1 .. Len(m), NEW type \in Types, Lexeme(m, type, a, b) PROVE FALSE
  <2>1. b \in Nat /\ b <= Len(m) /\ a <= b /\ e < b
    BY <1>0, <1>1
  <2>2. Unit(m, "SQ", a + 1, b)
    BY <1>3, <2>1, LexemesAt
  <2>3. b = e \/ b + 1 = e
    BY <1>0, <2>1, <2>2, GreedyOnly
  <2>. QED
    BY <2>1, <2>3
<1>. QED
  BY <1>2, <1>3 DEF Longest

LEMMA CharIsHopeless ==
  ASSUME NEW S, NEW m \in Seq(S), NEW a \in Nat \ {0}, NEW e \in Nat, e <= Len(m),
         m[a] = "SQ", Greedy(m, "SQ", a + 1, e), m[e] # "SQ"
  PROVE  Hopeless(m, a)
<1>0. Len(m) \in Nat /\ a + 1 \in Nat \ {0}
  BY LenProperties
<1>1. SUFFICES ASSUME NEW b \in a .. Len(m), NEW type \in Types \ Refused, Lexeme(m, type, a, b)
               PROVE  FALSE
  BY DEF Hopeless
<1>2. b \in Nat /\ b <= Len(m) /\ a <= b
  BY <1>0
<1>3. m[b] = "SQ" /\ Unit(m, "SQ", a + 1, b)
  BY <1>1, <1>2, LexemesAt
<1>4. b = e \/ m[b] \in Hex
  BY <1>0, <1>2, <1>3, GreedyOnly
<1>. QED
  BY <1>3, <1>4, EscapeTable

-----------------------------------------------------------------------------
(* What each loop has read, from the first byte a of the token up to the    *)
(* cursor k: enough of a lexeme to know, whatever follows, what it becomes. *)
Known(text) == \E type \in DOMAIN Punctuators : Punctuators[type] = text

HopelessAt(m, a) == \A o \in Seq(Bytes) : Extends(o, m) => Hopeless(o, a)

RightAt(m, type, a, e) ==
  \A o \in Seq(Bytes) : Extends(o, m) => Lexeme(o, type, a, e) /\ Longest(o, a, e)

ReadingSign(m, a, k) ==
  /\ m[a] \notin Alnum \cup {"DQ", "SQ"}
  /\ m[a] = "UNDERSCORE" => m[a + 1] \notin NameByte
  /\ a + 1 <= Len(m)
  /\ k = a + 1 \/ Known(SubSeq(m, a, k - 1))

ReadingWord(m, a, k) ==
  /\ m[a] \in Alpha \cup {"UNDERSCORE"} /\ Run(m, a, k - 1, NameByte)
  /\ m[a] = "UNDERSCORE" => m[a + 1] \in NameByte
  /\ a + 1 <= Len(m)

ReadingRadix(m, radix, a, k) ==
  /\ a + 2 <= k /\ m[a] = "0" /\ m[a + 1] \in LettersOf(radix)
  /\ Run(m, a + 2, k - 1, DigitsOf(radix))

ReadingDecimal(m, a, k) ==
  /\ Run(m, a, k - 1, Digit)
  /\ m[a] = "0" => m[a + 1] \notin RadixLetters
  /\ a + 1 <= Len(m)

ReadingFraction(m, a, k) ==
  \E d \in a + 1 .. k - 1 :
    /\ Run(m, a, d - 1, Digit) /\ m[d] = "." /\ Run(m, d + 1, k - 1, Digit)
    /\ m[d + 1] # "." /\ d + 1 <= Len(m)

ReadingEscape(m, o, a, k) ==
  /\ o = "escape" => InLiteral(m, a, k - 1) /\ m[k - 1] = "BS"
  /\ o = "hex_digit" => InLiteral(m, a, k - 2) /\ m[k - 2] = "BS" /\ m[k - 1] = "x"
  /\ o = "hex_digit_2" =>
       InLiteral(m, a, k - 3) /\ m[k - 3] = "BS" /\ m[k - 2] = "x" /\ m[k - 1] \in Hex
  /\ o = "bad_escape" => HopelessAt(m, a)

Reading(m, o, a, k) ==
  /\ o = "punctuator" => ReadingSign(m, a, k)
  /\ o = "word" => ReadingWord(m, a, k)
  /\ o = "number" => k = a + 1 /\ m[a] \in Digit
  /\ o \in Radixes => ReadingRadix(m, o, a, k)
  /\ o = "decimal" => ReadingDecimal(m, a, k)
  /\ o = "fraction" => ReadingFraction(m, a, k)
  /\ o = "string" => m[a] = "DQ" /\ InLiteral(m, a, k)
  /\ o = "char" => m[a] = "SQ" /\ k = a + 1
  /\ o = "char_end" => m[a] = "SQ" /\ Greedy(m, "SQ", a + 1, k)
  /\ ReadingEscape(m, o, a, k)

(* A TK_ERROR token stands where no lexeme does; every other token but      *)
(* TK_EOF is the longest lexeme.                                            *)
Verdict(m, t) ==
  /\ t.type = "ERROR" => HopelessAt(m, t.at)
  /\ t.type \notin {"ERROR", "EOF"} => RightAt(m, t.type, t.at, EndOf(t))

Judged ==
  /\ StaysInSource =>
       /\ Reading(mem, mode, start.at, cur.at)
       /\ \A i \in 1 .. Len(toks) : Verdict(mem, toks[i])
  /\ \A i \in 1 .. Len(toks) :
       /\ toks[i].type = "EOF" => mode = "done" /\ i = Len(toks)
       /\ toks[i].type = "ERROR" => diags # << >>

(* Nothing of this changes when more bytes are revealed.                    *)
LEMMA VerdictStays ==
  ASSUME NEW m \in Seq(Bytes), NEW n \in Seq(Bytes), Extends(n, m), NEW t, Verdict(m, t)
  PROVE  Verdict(n, t)
<1>1. \A o \in Seq(Bytes) : Extends(o, n) => Extends(o, m)
  BY ExtendsFurther
<1>. QED
  BY <1>1 DEF Verdict, HopelessAt, RightAt

LEMMA RunStays ==
  ASSUME NEW S, NEW m \in Seq(S), NEW n \in Seq(S), Extends(n, m), NEW a \in Nat \ {0}, NEW b \in Int,
         b <= Len(m), NEW set, Run(m, a, b, set)
  PROVE  Run(n, a, b, set)
<1>1. \A i \in a .. b : i \in 1 .. Len(m)
  BY LenProperties
<1>. QED
  BY <1>1 DEF Run, Extends

LEMMA PartStays ==
  ASSUME NEW S, NEW m \in Seq(S), NEW n \in Seq(S), Extends(n, m), NEW a \in Nat \ {0}, NEW b \in Nat,
         a <= b + 1, b <= Len(m)
  PROVE  SubSeq(n, a, b) = SubSeq(m, a, b)
<1>1. Len(m) \in Nat /\ Len(n) \in Nat /\ Len(m) <= Len(n)
  BY LenProperties DEF Extends
<1>. DEFINE d == 0
<1>2. d \in Int /\ a + d = a /\ b + d = b /\ b + d <= Len(n) /\ a + d \in Nat \ {0} /\ b + d \in Nat
  BY <1>1
<1>3. \A i \in a .. b : i + d = i /\ i \in 1 .. Len(m)
  BY <1>1
<1>. HIDE DEF d
<1>4. \A i \in a .. b : n[i + d] = m[i]
  BY <1>3 DEF Extends
<1>5. SubSeq(m, a, b) = SubSeq(n, a + d, b + d)
  BY <1>2, <1>4, SameParts
<1>. QED
  BY <1>2, <1>5

LEMMA InLiteralStays ==
  ASSUME NEW m \in Seq(Bytes), NEW n \in Seq(Bytes), Extends(n, m), NEW a \in Nat \ {0}, NEW u \in Int,
         u <= Len(m) + 1, InLiteral(m, a, u)
  PROVE  InLiteral(n, a, u)
<1>1. Len(m) \in Nat /\ a < u
  BY LenProperties DEF InLiteral
<1>2. a \in 1 .. Len(m) /\ a + 1 \in Nat \ {0} /\ u \in Nat
  BY <1>1
<1>3. n[a] = m[a]
  BY <1>2 DEF Extends
<1>4. Units(n, m[a], a + 1, u)
  BY <1>2, UnitsStay DEF InLiteral
<1>5. Ahead(n, m[a], a + 1, u)
  BY AheadStays DEF InLiteral
<1>. QED
  BY <1>3, <1>4, <1>5 DEF InLiteral

LEMMA ReadingStays ==
  ASSUME NEW m \in Seq(Bytes), NEW n \in Seq(Bytes), Extends(n, m), NEW o,
         NEW a \in Nat \ {0}, NEW k \in Nat, a < k, k <= Len(m) + 1, Reading(m, o, a, k)
  PROVE  Reading(n, o, a, k)
<1>1. /\ Len(m) \in Nat /\ Len(n) \in Nat /\ Len(m) <= Len(n) /\ k - 1 \in Nat /\ k - 1 <= Len(m)
      /\ a + 1 \in Nat \ {0} /\ a + 2 \in Nat \ {0}
  BY LenProperties DEF Extends
<1>2. \A i \in 1 .. k - 1 : n[i] = m[i]
  BY <1>1 DEF Extends
<1>3. a \in 1 .. k - 1 /\ n[a] = m[a]
  BY <1>1, <1>2
<1>4. a + 1 <= Len(m) => n[a + 1] = m[a + 1] /\ a + 1 <= Len(n)
  <2>1. a + 1 <= Len(m) => a + 1 \in 1 .. Len(m)
    BY <1>1
  <2>. QED
    BY <1>1, <2>1 DEF Extends
<1>5. \A set : /\ Run(m, a, k - 1, set) => Run(n, a, k - 1, set)
               /\ Run(m, a + 2, k - 1, set) => Run(n, a + 2, k - 1, set)
  BY <1>1, RunStays
<1>6. \A u \in Int : u <= k /\ InLiteral(m, a, u) => InLiteral(n, a, u)
  <2>1. \A u \in Int : u <= k => u <= Len(m) + 1
    BY <1>1
  <2>. QED
    BY <2>1, InLiteralStays
<1>7. CASE o = "punctuator"
  <2>1. a <= (k - 1) + 1
    BY <1>1
  <2>2. SubSeq(n, a, k - 1) = SubSeq(m, a, k - 1)
    BY <1>1, <2>1, PartStays
  <2>3. ReadingSign(n, a, k)
    BY <1>3, <1>4, <1>7, <2>2 DEF Reading, ReadingSign
  <2>. QED
    BY <1>7, <2>3 DEF Reading, ReadingEscape, Radixes
<1>8. CASE o = "word"
  <2>1. ReadingWord(n, a, k)
    BY <1>3, <1>4, <1>5, <1>8 DEF Reading, ReadingWord
  <2>. QED
    BY <1>8, <2>1 DEF Reading, ReadingEscape, Radixes
<1>9. CASE o = "number"
  BY <1>3, <1>9 DEF Reading, ReadingEscape, Radixes
<1>10. CASE o \in Radixes
  <2>1. ReadingRadix(m, o, a, k)
    BY <1>10 DEF Reading
  <2>2. a + 1 <= Len(m)
    BY <1>1, <2>1 DEF ReadingRadix
  <2>3. ReadingRadix(n, o, a, k)
    BY <1>3, <1>4, <1>5, <2>1, <2>2 DEF ReadingRadix
  <2>. QED
    BY <1>10, <2>3 DEF Reading, ReadingEscape, Radixes
<1>11. CASE o = "decimal"
  <2>1. ReadingDecimal(n, a, k)
    BY <1>3, <1>4, <1>5, <1>11 DEF Reading, ReadingDecimal
  <2>. QED
    BY <1>11, <2>1 DEF Reading, ReadingEscape, Radixes
<1>12. CASE o = "fraction"
  <2>1. PICK d \in a + 1 .. k - 1 :
          /\ Run(m, a, d - 1, Digit) /\ m[d] = "." /\ Run(m, d + 1, k - 1, Digit)
          /\ m[d + 1] # "." /\ d + 1 <= Len(m)
    BY <1>12 DEF Reading, ReadingFraction
  <2>2. /\ d + 1 \in Nat \ {0} /\ d - 1 \in Int /\ d - 1 <= Len(m) /\ d \in 1 .. k - 1
        /\ d + 1 \in 1 .. Len(m) /\ d + 1 <= Len(n) /\ k - 1 \in Int
    BY <1>1, <2>1
  <2>3. Run(n, a, d - 1, Digit) /\ Run(n, d + 1, k - 1, Digit)
    BY <1>1, <2>1, <2>2, RunStays
  <2>4. n[d] = m[d] /\ n[d + 1] = m[d + 1]
    BY <1>2, <2>2 DEF Extends
  <2>5. ReadingFraction(n, a, k)
    BY <2>1, <2>2, <2>3, <2>4 DEF ReadingFraction
  <2>. QED
    BY <1>12, <2>5 DEF Reading, ReadingEscape, Radixes
<1>13. CASE o \in {"string", "char"}
  <2>1. o = "string" => InLiteral(n, a, k)
    BY <1>6, <1>13 DEF Reading
  <2>. QED
    BY <1>3, <1>13, <2>1 DEF Reading, ReadingEscape, Radixes
<1>14. CASE o = "char_end"
  <2>1. Greedy(n, "SQ", a + 1, k)
    BY <1>1, <1>14, GreedyStays DEF Reading
  <2>. QED
    BY <1>3, <1>14, <2>1 DEF Reading, ReadingEscape, Radixes
<1>15. ASSUME o \in {"escape", "hex_digit", "hex_digit_2", "bad_escape"}
       PROVE  ReadingEscape(n, o, a, k)
  <2>1. ReadingEscape(m, o, a, k)
    BY DEF Reading
  <2>2. CASE o = "escape"
    <3>1. InLiteral(m, a, k - 1) /\ k - 1 \in 1 .. k - 1
      BY <1>1, <1>3, <2>1, <2>2 DEF ReadingEscape
    <3>2. InLiteral(n, a, k - 1) /\ n[k - 1] = m[k - 1]
      BY <1>1, <1>2, <1>6, <3>1
    <3>. QED
      BY <2>1, <2>2, <3>2 DEF ReadingEscape
  <2>3. CASE o = "hex_digit"
    <3>1. InLiteral(m, a, k - 2)
      BY <2>1, <2>3 DEF ReadingEscape
    <3>2. k - 2 \in 1 .. k - 1 /\ k - 1 \in 1 .. k - 1 /\ k - 2 \in Int /\ k - 2 <= k
      BY <1>1, <3>1 DEF InLiteral
    <3>3. InLiteral(n, a, k - 2) /\ n[k - 1] = m[k - 1] /\ n[k - 2] = m[k - 2]
      BY <1>2, <1>6, <3>1, <3>2
    <3>. QED
      BY <2>1, <2>3, <3>3 DEF ReadingEscape
  <2>4. CASE o = "hex_digit_2"
    <3>1. InLiteral(m, a, k - 3)
      BY <2>1, <2>4 DEF ReadingEscape
    <3>2. /\ k - 3 \in 1 .. k - 1 /\ k - 2 \in 1 .. k - 1 /\ k - 1 \in 1 .. k - 1
          /\ k - 3 \in Int /\ k - 3 <= k
      BY <1>1, <3>1 DEF InLiteral
    <3>3. /\ InLiteral(n, a, k - 3)
          /\ n[k - 1] = m[k - 1] /\ n[k - 2] = m[k - 2] /\ n[k - 3] = m[k - 3]
      BY <1>2, <1>6, <3>1, <3>2
    <3>. QED
      BY <2>1, <2>4, <3>3 DEF ReadingEscape
  <2>5. CASE o = "bad_escape"
    <3>1. HopelessAt(n, a)
      BY <2>1, <2>5, ExtendsFurther DEF ReadingEscape, HopelessAt
    <3>. QED
      BY <2>5, <3>1 DEF ReadingEscape
  <2>. QED
    BY <1>15, <2>2, <2>3, <2>4, <2>5
<1>16. CASE o \in {"escape", "hex_digit", "hex_digit_2", "bad_escape"}
  BY <1>15, <1>16 DEF Reading, Radixes
<1>17. CASE o \notin {"punctuator", "word", "number", "decimal", "fraction", "string", "char",
                      "char_end", "escape", "hex_digit", "hex_digit_2", "bad_escape"} \cup Radixes
  BY <1>17 DEF Reading, ReadingEscape
<1>. QED
  BY <1>7, <1>8, <1>9, <1>10, <1>11, <1>12, <1>13, <1>14, <1>16, <1>17

-----------------------------------------------------------------------------
(* The steps.                                                               *)
LEMMA TokenFacts ==
  ASSUME IInv, Placed, mode \in TokenModes, Ready
  PROVE  /\ mem \in Seq(Bytes) /\ Len(mem) \in Nat
         /\ start.at \in Nat \ {0} /\ cur.at \in Nat /\ start.at < cur.at /\ cur.at <= Len(mem)
         /\ cur.at = Len(mem) => c = "NUL"
         /\ c = mem[cur.at] /\ next = mem[cur.at + 1]
         /\ Adv(cur).at = cur.at + 1
<1>1. Numbers /\ Adv(cur).at = cur.at + 1 /\ start.at < cur.at
  BY NumbersHold DEF Placed, TokenModes
<1>. QED
  BY <1>1 DEF Numbers, Ready, c, next, Byte, IInv

(* Reading on never leaves the NUL behind that it had passed.               *)
LEMMA StaysBack ==
  ASSUME IInv, mem' = mem, cur'.at \in Nat, cur.at <= cur'.at, StaysInSource'
  PROVE  StaysInSource
<1>1. cur.at \in Nat
  BY NumbersHold DEF Numbers
<1>2. \A i \in 1 .. cur.at - 1 : i \in 1 .. cur'.at - 1
  BY <1>1
<1>. QED
  BY <1>2 DEF StaysInSource

LEMMA GotoJudged ==
  ASSUME IInv, Placed, Judged, mem' = mem, mode # "done", NEW m, NEW k \in {cur, Adv(cur)}, Goto(m, k),
         StaysInSource' => Reading(mem, m, start.at, k.at)
  PROVE  Judged'
<1>1. mode' = m /\ cur' = k /\ start' = start /\ toks' = toks /\ diags' = diags
  BY DEF Goto
<1>2. cur.at <= cur'.at /\ cur'.at \in Nat
  BY <1>1, NumbersHold DEF Numbers
<1>3. \A i \in 1 .. Len(toks) : toks[i].type # "EOF"
  BY DEF Judged
<1>4. StaysInSource' => StaysInSource
  BY <1>2, StaysBack
<1>5. ASSUME StaysInSource'
      PROVE  /\ Reading(mem', mode', start'.at, cur'.at)
             /\ \A i \in 1 .. Len(toks') : Verdict(mem', toks'[i])
  BY <1>1, <1>4, <1>5 DEF Judged
<1>6. \A i \in 1 .. Len(toks') :
        /\ toks'[i].type = "EOF" => mode' = "done" /\ i = Len(toks')
        /\ toks'[i].type = "ERROR" => diags' # << >>
  BY <1>1, <1>3 DEF Judged
<1>. QED
  BY <1>5, <1>6 DEF Judged

(* A token joins the tokens before it.                                      *)
LEMMA AppendJudged ==
  ASSUME IInv, Judged, mem' = mem, mode # "done", NEW t, toks' = Append(toks, t),
         cur'.at \in Nat, cur.at <= cur'.at,
         mode' \in {"noise", "done"}, t.type = "EOF" => mode' = "done",
         diags # << >> => diags' # << >>, t.type = "ERROR" => diags' # << >>,
         StaysInSource' => Verdict(mem, t)
  PROVE  Judged'
<1>1. /\ Len(toks) \in Nat /\ Len(toks') = Len(toks) + 1
      /\ \A i \in 1 .. Len(toks) : toks'[i] = toks[i]
      /\ toks'[Len(toks) + 1] = t
  BY AppendRange DEF IInv
<1>2. \A i \in 1 .. Len(toks') : i \in 1 .. Len(toks) \/ i = Len(toks')
  BY <1>1
<1>3. \A i \in 1 .. Len(toks) : toks[i].type # "EOF"
  BY DEF Judged
<1>4. StaysInSource' => StaysInSource
  BY StaysBack
<1>5. ASSUME StaysInSource', NEW i \in 1 .. Len(toks') PROVE Verdict(mem', toks'[i])
  BY <1>1, <1>2, <1>4, <1>5 DEF Judged
<1>6. ASSUME NEW i \in 1 .. Len(toks')
      PROVE  /\ toks'[i].type = "EOF" => mode' = "done" /\ i = Len(toks')
             /\ toks'[i].type = "ERROR" => diags' # << >>
  BY <1>1, <1>2, <1>3 DEF Judged
<1>7. Reading(mem', mode', start'.at, cur'.at)
  BY DEF Reading, ReadingEscape, Radixes
<1>. QED
  BY <1>5, <1>6, <1>7 DEF Judged

LEMMA ReturnJudged ==
  ASSUME IInv, Placed, Judged, mem' = mem, mode \in TokenModes, NEW type, type \notin {"EOF", "ERROR"},
         NEW k \in {cur, Adv(cur)}, Return(type, k),
         StaysInSource' => RightAt(mem, type, start.at, k.at - 1)
  PROVE  Judged'
<1>. DEFINE t == [type |-> type, at |-> start.at, len |-> k.at - start.at,
                  line |-> k.line, col |-> k.col - (k.at - start.at)]
<1>1. mode' = "noise" /\ cur' = k /\ diags' = diags /\ toks' = Append(toks, t)
  BY DEF Return
<1>2. t.at = start.at /\ t.len = k.at - start.at /\ t.type = type
  OBVIOUS
<1>. HIDE DEF t
<1>3. /\ cur.at <= k.at /\ k.at \in Nat /\ start.at \in Nat /\ mode # "done"
  BY NumbersHold DEF Numbers, TokenModes
<1>4. EndOf(t) = k.at - 1
  BY <1>2, <1>3 DEF EndOf
<1>5. StaysInSource' => Verdict(mem, t)
  BY <1>2, <1>4 DEF Verdict
<1>. QED
  BY <1>1, <1>2, <1>3, <1>5, AppendJudged

LEMMA ErrorJudged ==
  ASSUME IInv, Placed, Judged, mem' = mem, mode \in TokenModes, NEW len, NEW line, NEW col,
         NEW k \in {cur, Adv(cur)}, ReturnError(len, line, col, k),
         StaysInSource' => HopelessAt(mem, start.at)
  PROVE  Judged'
<1>. DEFINE t == [type |-> "ERROR", at |-> start.at, len |-> len, line |-> line, col |-> col]
<1>1. mode' = "noise" /\ cur' = k /\ toks' = Append(toks, t)
  BY DEF ReturnError
<1>2. t.at = start.at /\ t.type = "ERROR"
  OBVIOUS
<1>. HIDE DEF t
<1>3. /\ cur.at <= k.at /\ k.at \in Nat /\ mode # "done"
  BY NumbersHold DEF Numbers, TokenModes
<1>4. diags' # << >>
  BY ReportStays DEF ReturnError
<1>5. StaysInSource' => Verdict(mem, t)
  BY <1>2 DEF Verdict
<1>. QED
  BY <1>1, <1>2, <1>3, <1>4, <1>5, AppendJudged

(* What the loop has read, if the step stays in the source.                 *)
LEMMA ReadingHolds ==
  ASSUME IInv, Placed, Judged, mem' = mem, StaysInSource',
         \/ Punctuator \/ Word \/ Number \/ PrefixedDigits \/ Decimal \/ Fraction
         \/ String \/ Char \/ CharEnd \/ Escape \/ HexDigit \/ HexDigit2 \/ BadEscape
  PROVE  Reading(mem, mode, start.at, cur.at)
<1>1. cur' \in {cur, Adv(cur)}
  <2>1. ASSUME NEW k, Moves(k) PROVE cur' = k
    BY <2>1 DEF Moves, Goto, Return, ReturnError
  <2>. QED
    BY <2>1, TokenMoves
<1>2. cur'.at \in Nat /\ cur.at <= cur'.at
  BY <1>1, NumbersHold DEF Numbers
<1>. QED
  BY <1>2, StaysBack DEF Judged

(* It is the same whatever follows what is revealed.                        *)
LEMMA WhateverFollows ==
  ASSUME IInv, Placed, mode \in TokenModes, Ready, Reading(mem, mode, start.at, cur.at),
         NEW o \in Seq(Bytes), Extends(o, mem)
  PROVE  /\ Reading(o, mode, start.at, cur.at)
         /\ Len(o) \in Nat /\ cur.at <= Len(o) /\ o[cur.at] = c
         /\ c # "NUL" => cur.at + 1 <= Len(o) /\ o[cur.at + 1] = next
         /\ SubSeq(o, start.at, cur.at - 1) = Text(cur)
         /\ SubSeq(o, start.at, cur.at) = Text(Adv(cur))
<1>. DEFINE a == start.at
            k == cur.at
            e == k - 1
<1>1. /\ mem \in Seq(Bytes) /\ Len(mem) \in Nat
      /\ a \in Nat \ {0} /\ k \in Nat /\ a < k /\ k <= Len(mem)
      /\ k = Len(mem) => c = "NUL"
      /\ c = mem[k] /\ next = mem[k + 1] /\ Adv(cur).at = k + 1
  BY TokenFacts
<1>2. Len(o) \in Nat /\ Len(mem) <= Len(o) /\ \A i \in 1 .. Len(mem) : o[i] = mem[i]
  BY LenProperties DEF Extends
<1>3. Reading(mem, mode, a, k)
  OBVIOUS
<1>4. Text(cur) = SubSeq(mem, a, e) /\ Text(Adv(cur)) = SubSeq(mem, a, (k + 1) - 1)
  BY <1>1 DEF Text
<1>. HIDE DEF a, k
<1>5. e \in Nat /\ e <= Len(mem) /\ a <= e + 1 /\ (k + 1) - 1 = k /\ a <= k + 1
      /\ k <= Len(mem) + 1
  BY <1>1
<1>6. Reading(o, mode, a, k)
  BY <1>1, <1>3, <1>5, ReadingStays
<1>7. k \in 1 .. Len(mem) /\ (c # "NUL" => k + 1 \in 1 .. Len(mem))
  BY <1>1
<1>8. /\ k <= Len(o) /\ o[k] = c
      /\ c # "NUL" => k + 1 <= Len(o) /\ o[k + 1] = next
  BY <1>1, <1>2, <1>7
<1>9. SubSeq(o, a, e) = SubSeq(mem, a, e)
  <2>1. mem \in Seq(Bytes) /\ a \in Nat \ {0} /\ e \in Nat /\ a <= e + 1 /\ e <= Len(mem)
    BY <1>1, <1>5
  <2>. HIDE DEF e
  <2>. QED
    BY <2>1, PartStays
<1>10. SubSeq(o, a, k) = SubSeq(mem, a, k)
  <2>1. mem \in Seq(Bytes) /\ a \in Nat \ {0} /\ k \in Nat /\ a <= k + 1 /\ k <= Len(mem)
    BY <1>1
  <2>. HIDE DEF e
  <2>. QED
    BY <2>1, PartStays
<1>. QED
  BY <1>2, <1>4, <1>5, <1>6, <1>8, <1>9, <1>10 DEF a, k

LEMMA WordJudged ==
  ASSUME IInv, Placed, Judged, mem' = mem, Word
  PROVE  Judged'
<1>. DEFINE a == start.at
            k == cur.at
<1>1. mode = "word" /\ Ready /\ mode \in TokenModes /\ mode # "done"
  BY DEF Word, At, TokenModes, Modes
<1>2. /\ a \in Nat \ {0} /\ k \in Nat /\ a < k
      /\ c = mem[k] /\ Adv(cur).at = k + 1
  BY <1>1, TokenFacts
<1>3. StaysInSource' => Reading(mem, mode, a, k)
  BY ReadingHolds
<1>4. CASE c \in NameByte
  <2>1. Goto("word", Adv(cur))
    BY <1>1, <1>4 DEF Word, NameByte
  <2>2. ASSUME StaysInSource' PROVE Reading(mem, "word", a, k + 1)
    <3>. HIDE DEF a, k
    <3>1. ReadingWord(mem, a, k)
      BY <1>1, <1>3, <2>2 DEF Reading
    <3>2. \A i \in a .. (k + 1) - 1 : i = k \/ i \in a .. k - 1
      BY <1>2
    <3>3. Run(mem, a, (k + 1) - 1, NameByte)
      BY <1>2, <1>4, <3>1, <3>2 DEF ReadingWord, Run
    <3>4. ReadingWord(mem, a, k + 1)
      BY <3>1, <3>3 DEF ReadingWord
    <3>. QED
      BY <3>4 DEF Reading, ReadingEscape, Radixes
  <2>. QED
    BY <1>1, <1>2, <2>1, <2>2, GotoJudged
<1>5. CASE c \notin NameByte
  <2>. DEFINE type == Spelling(Keywords, Text(cur), "ID")
  <2>1. Return(type, cur)
    BY <1>5 DEF Word, NameByte
  <2>2. type \notin {"EOF", "ERROR"}
    <3>1. type \in DOMAIN Keywords \cup {"ID"}
      BY DEF Spelling
    <3>. HIDE DEF type
    <3>. QED
      BY <3>1, TypesApart DEF Literals
  <2>3. ASSUME StaysInSource', NEW o \in Seq(Bytes), Extends(o, mem)
        PROVE  Lexeme(o, type, a, k - 1) /\ Longest(o, a, k - 1)
    <3>. DEFINE e == k - 1
    <3>1. /\ Reading(o, mode, a, k) /\ o[k] = c /\ Len(o) \in Nat /\ k <= Len(o)
          /\ SubSeq(o, a, k - 1) = Text(cur)
      BY <1>1, <1>3, <2>3, WhateverFollows
    <3>. HIDE DEF a, k
    <3>2. ReadingWord(o, a, k)
      BY <1>1, <3>1 DEF Reading
    <3>3. e \in Nat /\ a <= e /\ e < Len(o) /\ e + 1 = k
      BY <1>2, <3>1
    <3>4. o[e + 1] \notin NameByte /\ Run(o, a, e, NameByte)
      BY <1>5, <3>1, <3>2, <3>3 DEF ReadingWord
    <3>5. ASSUME o[a] = "UNDERSCORE" PROVE a < e
      <4>1. o[a + 1] \in NameByte
        BY <3>2, <3>5 DEF ReadingWord
      <4>2. a + 1 # k
        BY <1>5, <3>1, <4>1
      <4>. QED
        BY <1>2, <4>2
    <3>6. type = Spelling(Keywords, SubSeq(o, a, e), "ID")
      BY <3>1
    <3>. HIDE DEF e, type
    <3>7. /\ Lexeme(o, Spelling(Keywords, SubSeq(o, a, e), "ID"), a, e)
          /\ Longest(o, a, e)
      BY <1>2, <3>2, <3>3, <3>4, <3>5, WordIsRight DEF ReadingWord
    <3>. QED
      BY <3>6, <3>7 DEF e
  <2>. HIDE DEF type
  <2>4. StaysInSource' => RightAt(mem, type, a, k - 1)
    BY <2>3 DEF RightAt
  <2>. QED
    BY <1>1, <2>1, <2>2, <2>4, ReturnJudged
<1>. QED
  BY <1>4, <1>5

LEMMA NumberJudged ==
  ASSUME IInv, Placed, Judged, mem' = mem, Number
  PROVE  Judged'
<1>. DEFINE a == start.at
            k == cur.at
<1>1. mode = "number" /\ Ready /\ mode \in TokenModes /\ mode # "done"
  BY DEF Number, At, TokenModes, Modes
<1>2. /\ a \in Nat \ {0} /\ k \in Nat /\ a < k /\ k <= Len(mem)
      /\ c = mem[k] /\ Adv(cur).at = k + 1
  BY <1>1, TokenFacts
<1>3. StaysInSource' => k = a + 1 /\ mem[a] \in Digit
  BY <1>1, ReadingHolds DEF Reading
<1>4. CASE mem[a] = "0" /\ Radix # "decimal"
  <2>1. Goto(Radix, Adv(cur))
    BY <1>4 DEF Number, Byte
  <2>2. Radix \in Radixes /\ c \in LettersOf(Radix)
    BY <1>4 DEF Radix, Radixes, LettersOf
  <2>3. ASSUME StaysInSource' PROVE Reading(mem, Radix, a, k + 1)
    <3>1. k = a + 1
      BY <1>3, <2>3
    <3>. HIDE DEF a, k
    <3>2. a + 2 .. (k + 1) - 1 = {} /\ a + 2 <= k + 1
      BY <1>2, <3>1
    <3>3. ReadingRadix(mem, Radix, a, k + 1)
      BY <1>2, <1>4, <2>2, <3>1, <3>2 DEF ReadingRadix, Run
    <3>4. Radix \in {"HEX", "OCTAL", "BINARY"}
      BY <2>2 DEF Radixes
    <3>. QED
      BY <3>3, <3>4 DEF Reading, ReadingEscape, Radixes
  <2>. QED
    BY <1>1, <1>2, <2>1, <2>3, GotoJudged
<1>5. CASE ~(mem[a] = "0" /\ Radix # "decimal")
  <2>1. Goto("decimal", cur)
    BY <1>5 DEF Number, Byte
  <2>2. mem[a] = "0" => c \notin RadixLetters
    BY <1>5 DEF Radix, RadixLetters
  <2>3. ASSUME StaysInSource' PROVE Reading(mem, "decimal", a, k)
    <3>1. k = a + 1 /\ mem[a] \in Digit
      BY <1>3, <2>3
    <3>. HIDE DEF a, k
    <3>2. \A i \in a .. k - 1 : i = a
      BY <1>2, <3>1
    <3>3. ReadingDecimal(mem, a, k)
      BY <1>2, <2>2, <3>1, <3>2 DEF ReadingDecimal, Run
    <3>. QED
      BY <3>3 DEF Reading, ReadingEscape, Radixes
  <2>. QED
    BY <1>1, <2>1, <2>3, GotoJudged
<1>. QED
  BY <1>4, <1>5

LEMMA RadixJudged ==
  ASSUME IInv, Placed, Judged, mem' = mem, PrefixedDigits
  PROVE  Judged'
<1>. DEFINE a == start.at
            k == cur.at
            digits == DigitsOf(mode)
<1>1. Ready /\ mode \in Radixes /\ mode \in TokenModes /\ mode # "done"
  BY DEF PrefixedDigits, TokenModes, Modes, Radixes
<1>2. /\ a \in Nat \ {0} /\ k \in Nat /\ a < k /\ k <= Len(mem)
      /\ c = mem[k] /\ Adv(cur).at = k + 1
  BY <1>1, TokenFacts
<1>3. StaysInSource' => Reading(mem, mode, a, k)
  BY ReadingHolds
<1>4. IF c \in digits THEN Goto(mode, Adv(cur))
      ELSE IF k = a + 2 THEN ReturnError(k - a, cur.line, cur.col - 2, cur)
           ELSE Return(mode, cur)
  BY DEF PrefixedDigits, DigitsOf
<1>5. CASE c \in digits
  <2>1. Goto(mode, Adv(cur))
    BY <1>4, <1>5
  <2>2. ASSUME StaysInSource' PROVE Reading(mem, mode, a, k + 1)
    <3>. HIDE DEF a, k, digits
    <3>1. ReadingRadix(mem, mode, a, k)
      BY <1>1, <1>3, <2>2 DEF Reading
    <3>2. \A i \in a + 2 .. (k + 1) - 1 : i = k \/ i \in a + 2 .. k - 1
      BY <1>2
    <3>3. a + 2 <= k + 1
      BY <1>2, <3>1 DEF ReadingRadix
    <3>4. Run(mem, a + 2, (k + 1) - 1, digits)
      BY <1>2, <1>5, <3>1, <3>2 DEF ReadingRadix, Run, digits
    <3>5. ReadingRadix(mem, mode, a, k + 1)
      BY <3>1, <3>3, <3>4 DEF ReadingRadix, digits
    <3>6. mode \in {"HEX", "OCTAL", "BINARY"}
      BY <1>1 DEF Radixes
    <3>. QED
      BY <3>5, <3>6 DEF Reading, ReadingEscape, Radixes
  <2>. QED
    BY <1>1, <1>2, <2>1, <2>2, GotoJudged
<1>6. ASSUME StaysInSource', NEW o \in Seq(Bytes), Extends(o, mem)
      PROVE  ReadingRadix(o, mode, a, k) /\ o[k] = c /\ Len(o) \in Nat /\ k <= Len(o)
  BY <1>1, <1>3, <1>6, WhateverFollows DEF Reading
<1>7. CASE c \notin digits /\ k = a + 2
  <2>1. ReturnError(k - a, cur.line, cur.col - 2, cur)
    BY <1>4, <1>7
  <2>2. ASSUME StaysInSource', NEW o \in Seq(Bytes), Extends(o, mem) PROVE Hopeless(o, a)
    <3>1. ReadingRadix(o, mode, a, k) /\ o[k] = c /\ k <= Len(o)
      BY <1>6, <2>2
    <3>. HIDE DEF a, k
    <3>2. a + 2 <= Len(o) /\ o[a + 2] \notin DigitsOf(mode)
      BY <1>7, <3>1
    <3>. QED
      BY <1>1, <1>2, <3>1, <3>2, RadixIsHopeless DEF ReadingRadix
  <2>3. StaysInSource' => HopelessAt(mem, a)
    BY <2>2 DEF HopelessAt
  <2>. QED
    BY <1>1, <2>1, <2>3, ErrorJudged
<1>8. CASE c \notin digits /\ k # a + 2
  <2>1. Return(mode, cur) /\ mode \notin {"EOF", "ERROR"}
    BY <1>1, <1>4, <1>8 DEF Radixes
  <2>2. ASSUME StaysInSource', NEW o \in Seq(Bytes), Extends(o, mem)
        PROVE  Lexeme(o, mode, a, k - 1) /\ Longest(o, a, k - 1)
    <3>. DEFINE e == k - 1
    <3>1. ReadingRadix(o, mode, a, k) /\ o[k] = c /\ k <= Len(o) /\ Len(o) \in Nat
      BY <1>6, <2>2
    <3>. HIDE DEF a, k
    <3>2. e \in Nat /\ e < Len(o) /\ e + 1 = k /\ a + 2 <= e
      BY <1>2, <1>8, <3>1 DEF ReadingRadix
    <3>3. o[e + 1] \notin DigitsOf(mode) /\ Radixed(o, mode, a, e)
      BY <1>8, <3>1, <3>2 DEF ReadingRadix, Radixed
    <3>. HIDE DEF e
    <3>4. Lexeme(o, mode, a, e) /\ Longest(o, a, e)
      BY <1>1, <1>2, <3>2, <3>3, RadixIsRight
    <3>. QED
      BY <3>4 DEF e
  <2>3. StaysInSource' => RightAt(mem, mode, a, k - 1)
    BY <2>2 DEF RightAt
  <2>. QED
    BY <1>1, <2>1, <2>3, ReturnJudged
<1>. QED
  BY <1>5, <1>7, <1>8

LEMMA DecimalJudged ==
  ASSUME IInv, Placed, Judged, mem' = mem, Decimal
  PROVE  Judged'
<1>. DEFINE a == start.at
            k == cur.at
<1>1. mode = "decimal" /\ Ready /\ mode \in TokenModes /\ mode # "done"
  BY DEF Decimal, At, TokenModes, Modes
<1>2. /\ a \in Nat \ {0} /\ k \in Nat /\ a < k /\ k <= Len(mem) /\ Len(mem) \in Nat
      /\ k = Len(mem) => c = "NUL"
      /\ c = mem[k] /\ next = mem[k + 1] /\ Adv(cur).at = k + 1
  BY <1>1, TokenFacts
<1>3. StaysInSource' => Reading(mem, mode, a, k)
  BY ReadingHolds
<1>4. ASSUME StaysInSource' PROVE ReadingDecimal(mem, a, k)
  BY <1>1, <1>3, <1>4 DEF Reading
<1>5. CASE c \in Digit
  <2>1. Goto("decimal", Adv(cur))
    BY <1>1, <1>5, RadixTable DEF Decimal
  <2>2. ASSUME StaysInSource' PROVE Reading(mem, "decimal", a, k + 1)
    <3>1. ReadingDecimal(mem, a, k)
      BY <1>4, <2>2
    <3>. HIDE DEF a, k
    <3>2. \A i \in a .. (k + 1) - 1 : i = k \/ i \in a .. k - 1
      BY <1>2
    <3>3. Run(mem, a, (k + 1) - 1, Digit)
      BY <1>2, <1>5, <3>1, <3>2 DEF ReadingDecimal, Run
    <3>4. ReadingDecimal(mem, a, k + 1)
      BY <3>1, <3>3 DEF ReadingDecimal
    <3>. QED
      BY <3>4 DEF Reading, ReadingEscape, Radixes
  <2>. QED
    BY <1>1, <1>2, <2>1, <2>2, GotoJudged
<1>6. CASE c = "." /\ next # "."
  <2>1. Goto("fraction", Adv(cur))
    BY <1>6, RadixTable DEF Decimal
  <2>2. ASSUME StaysInSource' PROVE Reading(mem, "fraction", a, k + 1)
    <3>1. ReadingDecimal(mem, a, k)
      BY <1>4, <2>2
    <3>. HIDE DEF a, k
    <3>2. /\ k \in a + 1 .. (k + 1) - 1 /\ k + 1 .. (k + 1) - 1 = {}
          /\ k + 1 <= Len(mem)
      BY <1>2, <1>6
    <3>3. Run(mem, k + 1, (k + 1) - 1, Digit)
      BY <3>2 DEF Run
    <3>4. ReadingFraction(mem, a, k + 1)
      BY <1>2, <1>6, <3>1, <3>2, <3>3 DEF ReadingDecimal, ReadingFraction
    <3>. QED
      BY <3>4 DEF Reading, ReadingEscape, Radixes
  <2>. QED
    BY <1>1, <1>2, <2>1, <2>2, GotoJudged
<1>7. CASE c \notin Digit /\ ~(c = "." /\ next # ".")
  <2>1. Return("NUMBER", cur)
    BY <1>7 DEF Decimal
  <2>2. ASSUME StaysInSource', NEW o \in Seq(Bytes), Extends(o, mem)
        PROVE  Lexeme(o, "NUMBER", a, k - 1) /\ Longest(o, a, k - 1)
    <3>. DEFINE e == k - 1
    <3>1. /\ Reading(o, mode, a, k) /\ o[k] = c /\ Len(o) \in Nat /\ k <= Len(o)
          /\ c # "NUL" => k + 1 <= Len(o) /\ o[k + 1] = next
      BY <1>1, <1>3, <2>2, WhateverFollows
    <3>. HIDE DEF a, k
    <3>2. ReadingDecimal(o, a, k)
      BY <1>1, <3>1 DEF Reading
    <3>3. e \in Nat /\ a <= e /\ e < Len(o) /\ e + 1 = k /\ e + 2 = k + 1
      BY <1>2, <3>1
    <3>4. c = "." => e + 1 < Len(o) /\ o[e + 2] = "."
      BY <1>2, <1>7, <3>1, <3>3
    <3>5. o[e + 1] \notin Digit /\ Run(o, a, e, Digit)
      BY <1>7, <3>1, <3>2, <3>3 DEF ReadingDecimal
    <3>6. o[a] = "0" => o[a + 1] \notin RadixLetters
      BY <3>2 DEF ReadingDecimal
    <3>7. o[e + 1] = c
      BY <3>1, <3>3
    <3>. HIDE DEF e
    <3>8. Lexeme(o, "NUMBER", a, e) /\ Longest(o, a, e)
      BY <1>2, <3>3, <3>4, <3>5, <3>6, <3>7, DecimalIsRight
    <3>. QED
      BY <3>8 DEF e
  <2>3. StaysInSource' => RightAt(mem, "NUMBER", a, k - 1)
    BY <2>2 DEF RightAt
  <2>. QED
    BY <1>1, <2>1, <2>3, ReturnJudged
<1>. QED
  BY <1>5, <1>6, <1>7

LEMMA FractionJudged ==
  ASSUME IInv, Placed, Judged, mem' = mem, Fraction
  PROVE  Judged'
<1>. DEFINE a == start.at
            k == cur.at
<1>1. mode = "fraction" /\ Ready /\ mode \in TokenModes /\ mode # "done"
  BY DEF Fraction, At, TokenModes, Modes
<1>2. /\ a \in Nat \ {0} /\ k \in Nat /\ a < k
      /\ c = mem[k] /\ Adv(cur).at = k + 1
  BY <1>1, TokenFacts
<1>3. StaysInSource' => Reading(mem, mode, a, k)
  BY ReadingHolds
<1>4. CASE c \in Digit
  <2>1. Goto("fraction", Adv(cur))
    BY <1>1, <1>4 DEF Fraction
  <2>2. ASSUME StaysInSource' PROVE Reading(mem, "fraction", a, k + 1)
    <3>1. ReadingFraction(mem, a, k)
      BY <1>1, <1>3, <2>2 DEF Reading
    <3>. HIDE DEF a, k
    <3>2. PICK d \in a + 1 .. k - 1 :
            /\ Run(mem, a, d - 1, Digit) /\ mem[d] = "." /\ Run(mem, d + 1, k - 1, Digit)
            /\ mem[d + 1] # "." /\ d + 1 <= Len(mem)
      BY <3>1 DEF ReadingFraction
    <3>3. d \in a + 1 .. (k + 1) - 1
      BY <1>2, <3>2
    <3>4. \A i \in d + 1 .. (k + 1) - 1 : i = k \/ i \in d + 1 .. k - 1
      BY <1>2, <3>2
    <3>5. Run(mem, d + 1, (k + 1) - 1, Digit)
      BY <1>2, <1>4, <3>2, <3>4 DEF Run
    <3>6. ReadingFraction(mem, a, k + 1)
      BY <3>2, <3>3, <3>5 DEF ReadingFraction
    <3>. QED
      BY <3>6 DEF Reading, ReadingEscape, Radixes
  <2>. QED
    BY <1>1, <1>2, <2>1, <2>2, GotoJudged
<1>5. CASE c \notin Digit
  <2>1. Return("FLOATING", cur)
    BY <1>5 DEF Fraction
  <2>2. ASSUME StaysInSource', NEW o \in Seq(Bytes), Extends(o, mem)
        PROVE  Lexeme(o, "FLOATING", a, k - 1) /\ Longest(o, a, k - 1)
    <3>. DEFINE e == k - 1
    <3>1. Reading(o, mode, a, k) /\ o[k] = c /\ Len(o) \in Nat /\ k <= Len(o)
      BY <1>1, <1>3, <2>2, WhateverFollows
    <3>. HIDE DEF a, k
    <3>2. ReadingFraction(o, a, k)
      BY <1>1, <3>1 DEF Reading
    <3>3. PICK d \in a + 1 .. k - 1 :
            /\ Run(o, a, d - 1, Digit) /\ o[d] = "." /\ Run(o, d + 1, k - 1, Digit)
            /\ o[d + 1] # "."
      BY <3>2 DEF ReadingFraction
    <3>4. e \in Nat /\ e < Len(o) /\ e + 1 = k
      BY <1>2, <3>1
    <3>5. o[e + 1] \notin Digit /\ Run(o, d + 1, e, Digit) /\ d \in a + 1 .. e
      BY <1>5, <3>1, <3>3, <3>4
    <3>. HIDE DEF e
    <3>6. Lexeme(o, "FLOATING", a, e) /\ Longest(o, a, e)
      BY <1>2, <3>3, <3>4, <3>5, FractionIsRight
    <3>. QED
      BY <3>6 DEF e
  <2>3. StaysInSource' => RightAt(mem, "FLOATING", a, k - 1)
    BY <2>2 DEF RightAt
  <2>. QED
    BY <1>1, <2>1, <2>3, ReturnJudged
<1>. QED
  BY <1>4, <1>5

LEMMA PunctuatorJudged ==
  ASSUME IInv, Placed, Judged, mem' = mem, Punctuator
  PROVE  Judged'
<1>. DEFINE a == start.at
            k == cur.at
            type == Spelling(Punctuators, Text(cur), "none")
<1>1. mode = "punctuator" /\ Ready /\ mode \in TokenModes /\ mode # "done"
  BY DEF Punctuator, At, TokenModes, Modes
<1>2. /\ a \in Nat \ {0} /\ k \in Nat /\ a < k
      /\ c = mem[k] /\ Adv(cur).at = k + 1
  BY <1>1, TokenFacts
<1>3. StaysInSource' => Reading(mem, mode, a, k)
  BY ReadingHolds
<1>4. CASE Spelling(Punctuators, Text(Adv(cur)), "none") # "none"
  <2>1. Goto("punctuator", Adv(cur))
    BY <1>1, <1>4 DEF Punctuator
  <2>2. ASSUME StaysInSource' PROVE Reading(mem, "punctuator", a, k + 1)
    <3>1. ReadingSign(mem, a, k)
      BY <1>1, <1>3, <2>2 DEF Reading
    <3>2. Text(Adv(cur)) = SubSeq(mem, a, (k + 1) - 1)
      BY <1>2 DEF Text
    <3>3. Known(Text(Adv(cur)))
      BY <1>4, SpellingKnown DEF Known
    <3>. HIDE DEF a, k
    <3>4. ReadingSign(mem, a, k + 1)
      BY <3>1, <3>2, <3>3 DEF ReadingSign
    <3>. QED
      BY <3>4 DEF Reading, ReadingEscape, Radixes
  <2>. QED
    BY <1>1, <1>2, <2>1, <2>2, GotoJudged
<1>5. ASSUME Spelling(Punctuators, Text(Adv(cur)), "none") = "none"
      PROVE  \A t \in DOMAIN Punctuators : Text(Adv(cur)) # Punctuators[t]
  BY <1>5, SpellingKnown
<1>6. ASSUME StaysInSource', NEW o \in Seq(Bytes), Extends(o, mem)
      PROVE  /\ ReadingSign(o, a, k) /\ Len(o) \in Nat /\ k <= Len(o)
             /\ SubSeq(o, a, k - 1) = Text(cur) /\ SubSeq(o, a, k) = Text(Adv(cur))
  BY <1>1, <1>3, <1>6, WhateverFollows DEF Reading
<1>7. CASE /\ Spelling(Punctuators, Text(Adv(cur)), "none") = "none"
           /\ type \in {"none", "Increment", "Decrement"}
  <2>1. \E len, line, col : ReturnError(len, line, col, cur)
    BY <1>7 DEF Punctuator
  <2>2. ASSUME StaysInSource', NEW o \in Seq(Bytes), Extends(o, mem) PROVE Hopeless(o, a)
    <3>1. /\ ReadingSign(o, a, k) /\ Len(o) \in Nat /\ k <= Len(o)
          /\ SubSeq(o, a, k - 1) = Text(cur) /\ SubSeq(o, a, k) = Text(Adv(cur))
      BY <1>6, <2>2
    <3>2. \A t \in DOMAIN Punctuators : SubSeq(o, a, k) # Punctuators[t]
      BY <1>5, <1>7, <3>1
    <3>3. CASE type = "none"
      <4>1. ~ Known(Text(cur))
        BY <3>3, SpellingKnown DEF Known
      <4>2. k = a + 1
        BY <3>1, <4>1 DEF ReadingSign
      <4>. HIDE DEF a, k
      <4>3. k - 1 = a /\ a < Len(o)
        BY <1>2, <3>1, <4>2
      <4>4. \A t \in DOMAIN Punctuators :
              SubSeq(o, a, a) # Punctuators[t] /\ SubSeq(o, a, a + 1) # Punctuators[t]
        BY <3>1, <3>2, <4>1, <4>2, <4>3 DEF Known
      <4>. QED
        BY <1>2, <3>1, <4>3, <4>4, ByteIsHopeless DEF ReadingSign
    <3>4. CASE type \in {"Increment", "Decrement"}
      <4>1. type \in DOMAIN Punctuators /\ Punctuators[type] = Text(cur)
        BY <3>4, SpellingKnown
      <4>. HIDE DEF a, k, type
      <4>. DEFINE e == k - 1
      <4>2. e \in Nat /\ e < Len(o) /\ a <= e + 1 /\ e <= Len(o)
        BY <1>2, <3>1
      <4>3. Len(SubSeq(o, a, e)) = e - a + 1
        <5>. HIDE DEF e
        <5>. QED
          BY <1>2, <4>2, PartBytes
      <4>4. Len(Punctuators[type]) = 2
        BY <3>4, SignTable
      <4>5. e - a + 1 = 2
        BY <3>1, <4>1, <4>3, <4>4
      <4>6. k - 1 = a + 1 /\ a < Len(o)
        BY <1>2, <4>2, <4>5
      <4>7. SubSeq(o, a, a + 1) \in {Punctuators["Increment"], Punctuators["Decrement"]}
        BY <3>1, <3>4, <4>1, <4>6
      <4>. QED
        BY <1>2, <4>6, <4>7, SignsAreHopeless
    <3>. QED
      BY <1>7, <3>3, <3>4
  <2>3. StaysInSource' => HopelessAt(mem, a)
    BY <2>2 DEF HopelessAt
  <2>. QED
    BY <1>1, <2>1, <2>3, ErrorJudged
<1>8. CASE /\ Spelling(Punctuators, Text(Adv(cur)), "none") = "none"
           /\ type \notin {"none", "Increment", "Decrement"}
  <2>1. Return(type, cur)
    BY <1>8 DEF Punctuator
  <2>2. type \in DOMAIN Punctuators /\ Punctuators[type] = Text(cur)
    BY <1>8, SpellingKnown
  <2>. HIDE DEF type
  <2>3. type \notin {"EOF", "ERROR"}
    BY <2>2, TypesApart
  <2>4. ASSUME StaysInSource', NEW o \in Seq(Bytes), Extends(o, mem)
        PROVE  Lexeme(o, type, a, k - 1) /\ Longest(o, a, k - 1)
    <3>. DEFINE e == k - 1
    <3>1. /\ ReadingSign(o, a, k) /\ Len(o) \in Nat /\ k <= Len(o)
          /\ SubSeq(o, a, k - 1) = Text(cur) /\ SubSeq(o, a, k) = Text(Adv(cur))
      BY <1>6, <2>4
    <3>2. \A t \in DOMAIN Punctuators : SubSeq(o, a, k) # Punctuators[t]
      BY <1>5, <1>8, <3>1
    <3>. HIDE DEF a, k
    <3>3. e \in Nat /\ a <= e /\ e < Len(o) /\ e + 1 = k
      BY <1>2, <3>1
    <3>4. /\ SubSeq(o, a, e) = Punctuators[type]
          /\ \A t \in DOMAIN Punctuators : SubSeq(o, a, e + 1) # Punctuators[t]
      BY <2>2, <3>1, <3>2, <3>3
    <3>. HIDE DEF e
    <3>5. Lexeme(o, type, a, e) /\ Longest(o, a, e)
      BY <1>2, <2>2, <3>1, <3>3, <3>4, PunctuatorIsRight DEF ReadingSign
    <3>. QED
      BY <3>5 DEF e
  <2>5. StaysInSource' => RightAt(mem, type, a, k - 1)
    BY <2>4 DEF RightAt
  <2>. QED
    BY <1>1, <2>1, <2>3, <2>5, ReturnJudged
<1>. QED
  BY <1>4, <1>7, <1>8

(* The unit just read goes into the literal.                                *)
LEMMA InLiteralStep ==
  ASSUME NEW m \in Seq(Bytes), NEW a \in Nat \ {0}, NEW u \in Nat, NEW l \in Nat,
         m[a] = "DQ", InLiteral(m, a, u), Greedy(m, "DQ", u, l), l <= Len(m) + 1
  PROVE  InLiteral(m, a, l)
<1>1. a < u /\ Unit(m, "DQ", u, l) /\ a + 1 \in Nat \ {0} /\ u \in Nat \ {0}
  BY DEF InLiteral, Greedy
<1>2. u < l
  BY UnitForward, <1>1
<1>3. Units(m, "DQ", a + 1, l)
  BY <1>1, <1>2, UnitsMore DEF InLiteral
<1>4. Ahead(m, "DQ", a + 1, l)
  BY <1>1, AheadStep DEF InLiteral
<1>. QED
  BY <1>1, <1>2, <1>3, <1>4 DEF InLiteral

LEMMA CharBegins ==
  ASSUME NEW m, NEW a \in Nat, m[a] = "SQ"
  PROVE  InLiteral(m, a, a + 1)
<1>1. Units(m, "SQ", a + 1, a + 1) /\ Ahead(m, "SQ", a + 1, a + 1)
  BY UnitsNothing, AheadInit
<1>. QED
  BY <1>1 DEF InLiteral

(* After an escape the literal goes on.                                     *)
LEMMA ResumeReading ==
  ASSUME mem \in Seq(Bytes), start.at \in Nat \ {0}, NEW u \in Nat, NEW l \in Nat,
         InLiteral(mem, start.at, u), Greedy(mem, mem[start.at], u, l), l <= Len(mem) + 1
  PROVE  Reading(mem, Resume, start.at, l)
<1>. DEFINE a == start.at
<1>1. CASE mem[a] = "DQ"
  <2>1. Resume = "string"
    BY <1>1 DEF Resume, quote, Byte
  <2>2. InLiteral(mem, a, l)
    BY <1>1, InLiteralStep
  <2>. QED
    BY <1>1, <2>1, <2>2 DEF Reading, ReadingEscape, Radixes
<1>2. CASE mem[a] = "SQ"
  <2>1. Resume = "char_end"
    BY <1>2 DEF Resume, quote, Byte
  <2>2. Greedy(mem, "SQ", a + 1, l)
    BY <1>2 DEF InLiteral
  <2>. QED
    BY <1>2, <2>1, <2>2 DEF Reading, ReadingEscape, Radixes
<1>. QED
  BY <1>1, <1>2 DEF InLiteral

LEMMA StringJudged ==
  ASSUME IInv, Placed, Judged, mem' = mem, String
  PROVE  Judged'
<1>. DEFINE a == start.at
            k == cur.at
<1>1. mode = "string" /\ Ready /\ mode \in TokenModes /\ mode # "done"
  BY DEF String, At, TokenModes, Modes
<1>2. /\ mem \in Seq(Bytes) /\ a \in Nat \ {0} /\ k \in Nat /\ a < k /\ k <= Len(mem)
      /\ c = mem[k] /\ Adv(cur).at = k + 1 /\ Len(mem) \in Nat
  BY <1>1, TokenFacts
<1>3. StaysInSource' => Reading(mem, mode, a, k)
  BY ReadingHolds
<1>4. ASSUME StaysInSource' PROVE mem[a] = "DQ" /\ InLiteral(mem, a, k)
  BY <1>1, <1>3, <1>4 DEF Reading
<1>5. ASSUME StaysInSource', NEW o \in Seq(Bytes), Extends(o, mem)
      PROVE  /\ o[a] = "DQ" /\ InLiteral(o, a, k)
             /\ o[k] = c /\ Len(o) \in Nat /\ k <= Len(o)
  BY <1>1, <1>3, <1>5, WhateverFollows DEF Reading
<1>6. CASE c = "NUL"
  <2>1. ReturnErrorAtStart(cur)
    BY <1>6 DEF String
  <2>2. ASSUME StaysInSource', NEW o \in Seq(Bytes), Extends(o, mem) PROVE Hopeless(o, a)
    <3>1. o[a] = "DQ" /\ InLiteral(o, a, k) /\ o[k] = "NUL" /\ k <= Len(o)
      BY <1>5, <1>6, <2>2
    <3>. HIDE DEF a, k
    <3>2. \A l \in k + 1 .. Len(o) : ~Unit(o, o[a], k, l)
      BY <3>1 DEF Unit
    <3>. QED
      BY <1>2, <3>1, <3>2, LiteralIsHopeless
  <2>3. StaysInSource' => HopelessAt(mem, a)
    BY <2>2 DEF HopelessAt
  <2>. QED
    BY <1>1, <2>1, <2>3, ErrorJudged DEF ReturnErrorAtStart
<1>7. CASE c = "DQ"
  <2>1. Return("STRINGLIT", Adv(cur))
    BY <1>7 DEF String
  <2>2. ASSUME StaysInSource', NEW o \in Seq(Bytes), Extends(o, mem)
        PROVE  Lexeme(o, "STRINGLIT", a, k) /\ Longest(o, a, k)
    <3>1. o[a] = "DQ" /\ InLiteral(o, a, k) /\ o[k] = "DQ" /\ k <= Len(o)
      BY <1>5, <1>7, <2>2
    <3>. HIDE DEF a, k
    <3>. QED
      BY <1>2, <3>1, StringIsRight
  <2>3. StaysInSource' => RightAt(mem, "STRINGLIT", a, k)
    BY <2>2 DEF RightAt
  <2>4. Adv(cur).at - 1 = k
    BY <1>2
  <2>. QED
    BY <1>1, <2>1, <2>3, <2>4, ReturnJudged
<1>8. CASE c = "BS"
  <2>1. Goto("escape", Adv(cur))
    BY <1>8 DEF String
  <2>2. ASSUME StaysInSource' PROVE Reading(mem, "escape", a, k + 1)
    <3>1. InLiteral(mem, a, k) /\ mem[k] = "BS"
      BY <1>2, <1>4, <1>8, <2>2
    <3>. HIDE DEF a, k
    <3>2. (k + 1) - 1 = k
      BY <1>2
    <3>. QED
      BY <3>1, <3>2 DEF Reading, ReadingEscape, Radixes
  <2>. QED
    BY <1>1, <1>2, <2>1, <2>2, GotoJudged
<1>9. CASE c \notin {"NUL", "DQ", "BS"}
  <2>1. Goto("string", Adv(cur))
    BY <1>1, <1>9 DEF String
  <2>2. ASSUME StaysInSource' PROVE Reading(mem, "string", a, k + 1)
    <3>1. mem[a] = "DQ" /\ InLiteral(mem, a, k) /\ mem[k] \notin {"NUL", "DQ", "BS"}
      BY <1>2, <1>4, <1>9, <2>2
    <3>. HIDE DEF a, k
    <3>2. Greedy(mem, "DQ", k, k + 1)
      BY <3>1 DEF Greedy, Unit
    <3>3. InLiteral(mem, a, k + 1)
      BY <1>2, <3>1, <3>2, InLiteralStep
    <3>. QED
      BY <3>1, <3>3 DEF Reading, ReadingEscape, Radixes
  <2>. QED
    BY <1>1, <1>2, <2>1, <2>2, GotoJudged
<1>. QED
  BY <1>6, <1>7, <1>8, <1>9

LEMMA CharJudged ==
  ASSUME IInv, Placed, Judged, mem' = mem, Char
  PROVE  Judged'
<1>. DEFINE a == start.at
            k == cur.at
<1>1. mode = "char" /\ Ready /\ mode \in TokenModes /\ mode # "done"
  BY DEF Char, At, TokenModes, Modes
<1>2. /\ mem \in Seq(Bytes) /\ a \in Nat \ {0} /\ k \in Nat /\ a < k /\ k <= Len(mem)
      /\ c = mem[k] /\ Adv(cur).at = k + 1 /\ Len(mem) \in Nat
  BY <1>1, TokenFacts
<1>3. StaysInSource' => Reading(mem, mode, a, k)
  BY ReadingHolds
<1>4. ASSUME StaysInSource' PROVE mem[a] = "SQ" /\ k = a + 1
  BY <1>1, <1>3, <1>4 DEF Reading
<1>5. CASE c = "SQ"
  <2>1. ReturnError(1, start.line, start.col, cur)
    BY <1>5 DEF Char
  <2>2. ASSUME StaysInSource', NEW o \in Seq(Bytes), Extends(o, mem) PROVE Hopeless(o, a)
    <3>1. o[a] = "SQ" /\ k = a + 1 /\ o[k] = "SQ" /\ Len(o) \in Nat /\ k <= Len(o)
      BY <1>1, <1>3, <1>5, <2>2, WhateverFollows DEF Reading
    <3>. HIDE DEF a, k
    <3>2. InLiteral(o, a, k)
      BY <1>2, <3>1, CharBegins
    <3>3. \A l \in k + 1 .. Len(o) : ~Unit(o, o[a], k, l)
      BY <3>1 DEF Unit
    <3>. QED
      BY <1>2, <3>1, <3>2, <3>3, LiteralIsHopeless
  <2>3. StaysInSource' => HopelessAt(mem, a)
    BY <2>2 DEF HopelessAt
  <2>. QED
    BY <1>1, <2>1, <2>3, ErrorJudged
<1>6. CASE c = "BS"
  <2>1. Goto("escape", Adv(cur))
    BY <1>6 DEF Char
  <2>2. ASSUME StaysInSource' PROVE Reading(mem, "escape", a, k + 1)
    <3>1. mem[a] = "SQ" /\ k = a + 1 /\ mem[k] = "BS"
      BY <1>2, <1>4, <1>6, <2>2
    <3>. HIDE DEF a, k
    <3>2. (k + 1) - 1 = k /\ InLiteral(mem, a, k)
      BY <1>2, <3>1, CharBegins
    <3>. QED
      BY <3>1, <3>2 DEF Reading, ReadingEscape, Radixes
  <2>. QED
    BY <1>1, <1>2, <2>1, <2>2, GotoJudged
<1>7. CASE c \notin {"SQ", "BS"}
  <2>1. Goto("char_end", Adv(cur))
    BY <1>7 DEF Char
  <2>2. ASSUME StaysInSource' PROVE Reading(mem, "char_end", a, k + 1)
    <3>1. mem[a] = "SQ" /\ k = a + 1 /\ mem[k] \notin {"SQ", "BS"}
      BY <1>2, <1>4, <1>7, <2>2
    <3>2. cur'.at = k + 1
      BY <1>2, <2>1 DEF Goto
    <3>3. k \in 1 .. cur'.at - 1
      BY <1>2, <3>2
    <3>4. mem[k] # "NUL"
      BY <2>2, <3>3 DEF StaysInSource
    <3>. HIDE DEF a, k
    <3>5. Greedy(mem, "SQ", a + 1, k + 1)
      BY <1>2, <3>1, <3>4 DEF Greedy, Unit
    <3>. QED
      BY <3>1, <3>5 DEF Reading, ReadingEscape, Radixes
  <2>. QED
    BY <1>1, <1>2, <2>1, <2>2, GotoJudged
<1>. QED
  BY <1>5, <1>6, <1>7

LEMMA CharEndJudged ==
  ASSUME IInv, Placed, Judged, mem' = mem, CharEnd
  PROVE  Judged'
<1>. DEFINE a == start.at
            k == cur.at
<1>1. mode = "char_end" /\ Ready /\ mode \in TokenModes /\ mode # "done"
  BY DEF CharEnd, At, TokenModes, Modes
<1>2. /\ a \in Nat \ {0} /\ k \in Nat /\ Adv(cur).at = k + 1
  BY <1>1, TokenFacts
<1>3. StaysInSource' => Reading(mem, mode, a, k)
  BY ReadingHolds
<1>4. ASSUME StaysInSource', NEW o \in Seq(Bytes), Extends(o, mem)
      PROVE  /\ o[a] = "SQ" /\ Greedy(o, "SQ", a + 1, k)
             /\ o[k] = c /\ Len(o) \in Nat /\ k <= Len(o)
  BY <1>1, <1>3, <1>4, WhateverFollows DEF Reading
<1>5. CASE c = "SQ"
  <2>1. Return("CHARLIT", Adv(cur))
    BY <1>5 DEF CharEnd
  <2>2. ASSUME StaysInSource', NEW o \in Seq(Bytes), Extends(o, mem)
        PROVE  Lexeme(o, "CHARLIT", a, k) /\ Longest(o, a, k)
    <3>1. o[a] = "SQ" /\ Greedy(o, "SQ", a + 1, k) /\ o[k] = "SQ" /\ k <= Len(o)
      BY <1>4, <1>5, <2>2
    <3>. HIDE DEF a, k
    <3>. QED
      BY <1>2, <3>1, CharIsRight
  <2>3. StaysInSource' => RightAt(mem, "CHARLIT", a, k)
    BY <2>2 DEF RightAt
  <2>4. Adv(cur).at - 1 = k
    BY <1>2
  <2>. QED
    BY <1>1, <2>1, <2>3, <2>4, ReturnJudged
<1>6. CASE c # "SQ"
  <2>1. ReturnErrorAtStart(cur)
    BY <1>6 DEF CharEnd
  <2>2. ASSUME StaysInSource', NEW o \in Seq(Bytes), Extends(o, mem) PROVE Hopeless(o, a)
    <3>1. o[a] = "SQ" /\ Greedy(o, "SQ", a + 1, k) /\ o[k] # "SQ" /\ k <= Len(o)
      BY <1>4, <1>6, <2>2
    <3>. HIDE DEF a, k
    <3>. QED
      BY <1>2, <3>1, CharIsHopeless
  <2>3. StaysInSource' => HopelessAt(mem, a)
    BY <2>2 DEF HopelessAt
  <2>. QED
    BY <1>1, <2>1, <2>3, ErrorJudged DEF ReturnErrorAtStart
<1>. QED
  BY <1>5, <1>6

(* An escape that no byte can complete.                                     *)
LEMMA EscapeIsHopeless ==
  ASSUME NEW m \in Seq(Bytes), NEW a \in Nat \ {0}, NEW u \in Nat, u <= Len(m),
         InLiteral(m, a, u), m[u] = "BS",
         \/ m[u + 1] \notin Escapes \cup {"x"}
         \/ m[u + 1] = "x" /\ m[u + 2] \notin Hex
  PROVE  Hopeless(m, a)
<1>1. ASSUME NEW l \in u + 1 .. Len(m), Unit(m, m[a], u, l) PROVE FALSE
  <2>1. l # u + 1 /\ u + 2 \in u + 2 .. u + 2 /\ u + 2 \in u + 2 .. u + 3
    BY <1>1 DEF Unit
  <2>2. CASE m[u + 1] \notin Escapes \cup {"x"}
    BY <1>1, <2>1, <2>2 DEF Unit
  <2>3. CASE m[u + 1] = "x" /\ m[u + 2] \notin Hex
    <3>1. l \in {u + 3, u + 4} /\ Run(m, u + 2, l - 1, Hex)
      BY <1>1, <2>1, <2>3, EscapeTable DEF Unit
    <3>2. u + 2 \in u + 2 .. l - 1
      BY <3>1
    <3>. QED
      BY <2>3, <3>1, <3>2 DEF Run
  <2>. QED
    BY <2>2, <2>3
<1>. QED
  BY <1>1, LiteralIsHopeless

LEMMA EscapeJudged ==
  ASSUME IInv, Placed, Judged, mem' = mem, Escape
  PROVE  Judged'
<1>. DEFINE a == start.at
            k == cur.at
            u == k - 1
<1>1. mode = "escape" /\ Ready /\ mode \in TokenModes /\ mode # "done"
  BY DEF Escape, At, TokenModes, Modes
<1>2. /\ mem \in Seq(Bytes) /\ a \in Nat \ {0} /\ k \in Nat /\ a < k /\ k <= Len(mem)
      /\ c = mem[k] /\ Adv(cur).at = k + 1 /\ Len(mem) \in Nat
  BY <1>1, TokenFacts
<1>3. StaysInSource' => Reading(mem, mode, a, k)
  BY ReadingHolds
<1>4. ASSUME StaysInSource' PROVE InLiteral(mem, a, u) /\ mem[u] = "BS"
  BY <1>1, <1>3, <1>4 DEF Reading, ReadingEscape
<1>5. u \in Nat /\ u + 1 = k /\ u <= Len(mem)
  BY <1>2
<1>6. CASE c \in Escapes
  <2>1. Goto(Resume, Adv(cur))
    BY <1>6, EscapeTable DEF Escape
  <2>2. ASSUME StaysInSource' PROVE Reading(mem, Resume, a, k + 1)
    <3>1. InLiteral(mem, a, u) /\ mem[u] = "BS" /\ mem[u + 1] \in Escapes
      BY <1>2, <1>4, <1>5, <1>6, <2>2
    <3>2. k + 1 = u + 2 /\ k + 1 # u + 3 /\ k + 1 \in Nat /\ k + 1 <= Len(mem) + 1
      BY <1>2
    <3>. DEFINE l == k + 1
    <3>3. Greedy(mem, mem[a], u, l)
      <4>. HIDE DEF u, k, a, l
      <4>1. l = u + 2 /\ l # u + 3
        BY <3>2 DEF l
      <4>. QED
        BY <3>1, <4>1 DEF Greedy, Unit
    <3>4. mem \in Seq(Bytes) /\ a \in Nat \ {0} /\ l \in Nat /\ l <= Len(mem) + 1
      BY <1>2, <3>2
    <3>. HIDE DEF u, l
    <3>5. Reading(mem, Resume, a, l)
      BY <1>5, <3>1, <3>3, <3>4, ResumeReading
    <3>. QED
      BY <3>5 DEF l
  <2>. QED
    BY <1>1, <1>2, <2>1, <2>2, GotoJudged
<1>7. CASE c = "x"
  <2>1. Goto("hex_digit", Adv(cur))
    BY <1>7, EscapeTable DEF Escape
  <2>2. ASSUME StaysInSource' PROVE Reading(mem, "hex_digit", a, k + 1)
    <3>1. InLiteral(mem, a, u) /\ mem[u] = "BS" /\ mem[k] = "x"
      BY <1>2, <1>4, <1>7, <2>2
    <3>2. (k + 1) - 2 = u /\ (k + 1) - 1 = k
      BY <1>2
    <3>. HIDE DEF u, k, a
    <3>. QED
      BY <3>1, <3>2 DEF Reading, ReadingEscape, Radixes
  <2>. QED
    BY <1>1, <1>2, <2>1, <2>2, GotoJudged
<1>8. CASE c \notin Escapes \cup {"x"}
  <2>1. Goto("bad_escape", cur)
    BY <1>8 DEF Escape
  <2>2. ASSUME StaysInSource', NEW o \in Seq(Bytes), Extends(o, mem) PROVE Hopeless(o, a)
    <3>1. ReadingEscape(o, mode, a, k) /\ o[k] = c /\ Len(o) \in Nat /\ k <= Len(o)
      BY <1>1, <1>3, <2>2, WhateverFollows DEF Reading
    <3>2. InLiteral(o, a, u) /\ o[u] = "BS" /\ o[u + 1] \notin Escapes \cup {"x"} /\ u <= Len(o)
      BY <1>1, <1>2, <1>5, <1>8, <3>1 DEF ReadingEscape
    <3>. HIDE DEF u, k, a
    <3>. QED
      BY <1>2, <1>5, <3>2, EscapeIsHopeless
  <2>3. StaysInSource' => HopelessAt(mem, a)
    BY <2>2 DEF HopelessAt
  <2>4. StaysInSource' => Reading(mem, "bad_escape", a, k)
    BY <2>3 DEF Reading, ReadingEscape, Radixes
  <2>. QED
    BY <1>1, <2>1, <2>4, GotoJudged
<1>. QED
  BY <1>6, <1>7, <1>8

LEMMA HexDigitJudged ==
  ASSUME IInv, Placed, Judged, mem' = mem, HexDigit
  PROVE  Judged'
<1>. DEFINE a == start.at
            k == cur.at
            u == k - 2
<1>1. mode = "hex_digit" /\ Ready /\ mode \in TokenModes /\ mode # "done"
  BY DEF HexDigit, At, TokenModes, Modes
<1>2. /\ a \in Nat \ {0} /\ k \in Nat /\ a < k
      /\ c = mem[k] /\ Adv(cur).at = k + 1
  BY <1>1, TokenFacts
<1>3. StaysInSource' => Reading(mem, mode, a, k)
  BY ReadingHolds
<1>4. ASSUME NEW o, Reading(o, mode, a, k)
      PROVE  InLiteral(o, a, u) /\ o[u] = "BS" /\ o[k - 1] = "x"
  BY <1>1, <1>4 DEF Reading, ReadingEscape
<1>5. CASE c \in Hex
  <2>1. Goto("hex_digit_2", Adv(cur))
    BY <1>5 DEF HexDigit
  <2>2. ASSUME StaysInSource' PROVE Reading(mem, "hex_digit_2", a, k + 1)
    <3>1. InLiteral(mem, a, u) /\ mem[u] = "BS" /\ mem[k - 1] = "x" /\ mem[k] \in Hex
      BY <1>2, <1>3, <1>4, <1>5, <2>2
    <3>2. (k + 1) - 3 = u /\ (k + 1) - 2 = k - 1 /\ (k + 1) - 1 = k
      BY <1>2
    <3>. HIDE DEF u, k, a
    <3>. QED
      BY <3>1, <3>2 DEF Reading, ReadingEscape, Radixes
  <2>. QED
    BY <1>1, <1>2, <2>1, <2>2, GotoJudged
<1>6. CASE c \notin Hex
  <2>1. Goto("bad_escape", cur)
    BY <1>6 DEF HexDigit
  <2>2. ASSUME StaysInSource', NEW o \in Seq(Bytes), Extends(o, mem) PROVE Hopeless(o, a)
    <3>1. Reading(o, mode, a, k) /\ o[k] = c /\ Len(o) \in Nat /\ k <= Len(o)
      BY <1>1, <1>3, <2>2, WhateverFollows
    <3>2. InLiteral(o, a, u) /\ o[u] = "BS" /\ o[k - 1] = "x"
      BY <1>4, <3>1
    <3>3. u \in Nat /\ u + 1 = k - 1 /\ u + 2 = k /\ u <= Len(o)
      <4>1. a < u
        BY <3>2 DEF InLiteral
      <4>. QED
        BY <1>2, <3>1, <4>1
    <3>4. o[u + 1] = "x" /\ o[u + 2] \notin Hex
      BY <1>6, <3>1, <3>2, <3>3
    <3>. HIDE DEF u, k, a
    <3>. QED
      BY <1>2, <3>2, <3>3, <3>4, EscapeIsHopeless
  <2>3. StaysInSource' => HopelessAt(mem, a)
    BY <2>2 DEF HopelessAt
  <2>4. StaysInSource' => Reading(mem, "bad_escape", a, k)
    BY <2>3 DEF Reading, ReadingEscape, Radixes
  <2>. QED
    BY <1>1, <2>1, <2>4, GotoJudged
<1>. QED
  BY <1>5, <1>6

LEMMA HexDigit2Judged ==
  ASSUME IInv, Placed, Judged, mem' = mem, HexDigit2
  PROVE  Judged'
<1>. DEFINE a == start.at
            k == cur.at
            u == k - 3
<1>1. mode = "hex_digit_2" /\ Ready /\ mode \in TokenModes /\ mode # "done"
  BY DEF HexDigit2, At, TokenModes, Modes
<1>2. /\ mem \in Seq(Bytes) /\ a \in Nat \ {0} /\ k \in Nat /\ a < k /\ k <= Len(mem)
      /\ c = mem[k] /\ Adv(cur).at = k + 1 /\ Len(mem) \in Nat
  BY <1>1, TokenFacts
<1>3. StaysInSource' => Reading(mem, mode, a, k)
  BY ReadingHolds
<1>4. ASSUME StaysInSource'
      PROVE  /\ InLiteral(mem, a, u) /\ mem[u] = "BS" /\ mem[u + 1] = "x" /\ mem[u + 2] \in Hex
             /\ u \in Nat
  <2>1. InLiteral(mem, a, u) /\ mem[u] = "BS" /\ mem[k - 2] = "x" /\ mem[k - 1] \in Hex
    BY <1>1, <1>3, <1>4 DEF Reading, ReadingEscape
  <2>2. a < u
    BY <2>1 DEF InLiteral
  <2>3. u \in Nat /\ u + 1 = k - 2 /\ u + 2 = k - 1
    BY <1>2, <2>2
  <2>. QED
    BY <2>1, <2>3
<1>5. ASSUME StaysInSource', NEW l \in {k, k + 1}, l = k + 1 => c \in Hex, l = k => c \notin Hex
      PROVE  Reading(mem, Resume, a, l)
  <2>0. k \in Nat /\ Len(mem) \in Nat /\ k <= Len(mem) /\ (l = k \/ l = k + 1)
    BY <1>2, <1>5
  <2>. HIDE DEF k
  <2>1. /\ l \in Nat /\ l <= Len(mem) + 1 /\ l \in {u + 3, u + 4} /\ l # u + 1 /\ l # u + 2
        /\ u + 3 = k /\ (l = u + 3 => l = k) /\ (l = u + 4 => l = k + 1)
    BY <2>0
  <2>9. \A i \in u + 2 .. l - 1 : i = u + 2 \/ (i = k /\ l = k + 1)
    BY <2>0
  <2>2. Run(mem, u + 2, l - 1, Hex)
    BY <1>2, <1>4, <1>5, <2>1, <2>9 DEF Run
  <2>3. l = u + 3 => u + 3 <= Len(mem) /\ mem[u + 3] \notin Hex
    BY <1>2, <1>5, <2>1
  <2>. HIDE DEF u
  <2>4. Unit(mem, mem[a], u, l)
    BY <1>4, <1>5, <2>1, <2>2 DEF Unit
  <2>5. Greedy(mem, mem[a], u, l)
    BY <2>3, <2>4 DEF Greedy
  <2>. QED
    BY <1>2, <1>4, <1>5, <2>1, <2>5, ResumeReading
<1>6. CASE c \in Hex
  <2>1. Goto(Resume, Adv(cur))
    BY <1>6 DEF HexDigit2
  <2>2. k + 1 # k
    BY <1>2
  <2>3. StaysInSource' => Reading(mem, Resume, a, k + 1)
    BY <1>5, <1>6, <2>2
  <2>. QED
    BY <1>1, <1>2, <2>1, <2>3, GotoJudged
<1>7. CASE c \notin Hex
  <2>1. Goto(Resume, cur)
    BY <1>7 DEF HexDigit2
  <2>2. k + 1 # k
    BY <1>2
  <2>3. StaysInSource' => Reading(mem, Resume, a, k)
    BY <1>5, <1>7, <2>2
  <2>. QED
    BY <1>1, <2>1, <2>3, GotoJudged
<1>. QED
  BY <1>6, <1>7

LEMMA BadEscapeJudged ==
  ASSUME IInv, Placed, Judged, mem' = mem, BadEscape
  PROVE  Judged'
<1>. DEFINE a == start.at
            k == cur.at
<1>1. mode = "bad_escape" /\ Ready /\ mode \in TokenModes /\ mode # "done"
  BY DEF BadEscape, At, TokenModes, Modes
<1>2. StaysInSource' => Reading(mem, mode, a, k)
  BY ReadingHolds
<1>3. StaysInSource' => HopelessAt(mem, a)
  BY <1>1, <1>2 DEF Reading, ReadingEscape
<1>4. CASE c \in {"NUL", quote}
  <2>1. ReturnErrorAtStart(Adv(cur))
    BY <1>4 DEF BadEscape
  <2>. QED
    BY <1>1, <1>3, <2>1, ErrorJudged DEF ReturnErrorAtStart
<1>5. CASE c \notin {"NUL", quote}
  <2>1. Goto("bad_escape", Adv(cur))
    BY <1>1, <1>5 DEF BadEscape
  <2>2. \A l : StaysInSource' => Reading(mem, "bad_escape", a, l)
    BY <1>3 DEF Reading, ReadingEscape, Radixes
  <2>. QED
    BY <1>1, <2>1, <2>2, GotoJudged
<1>. QED
  BY <1>4, <1>5

(* The first byte of a token.                                               *)
LEMMA BeginJudged ==
  ASSUME IInv, Placed, Judged, mem' = mem, Begin
  PROVE  Judged'
<1>. DEFINE k == cur.at
<1>1. /\ mode = "noise" /\ Ready /\ c \notin Blank \cup {"NUL"}
      /\ start' = cur /\ cur' = Adv(cur) /\ toks' = toks /\ diags' = diags
  BY DEF Begin, At
<1>0. {"DQ", "SQ", "UNDERSCORE"} \cap Alnum = {} /\ Alpha \cap Digit = {} /\ Alnum = Alpha \cup Digit
  BY SMT DEF Alnum, Alpha, Digit, Oct, Bin, Hex
<1>2. /\ mode' = "word" => c \in Alpha \cup {"UNDERSCORE"} /\ (c = "UNDERSCORE" => next \in NameByte)
      /\ mode' = "number" => c \in Digit
      /\ mode' = "string" => c = "DQ"
      /\ mode' = "char" => c = "SQ"
      /\ mode' = "punctuator" =>
           c \notin Alnum \cup {"DQ", "SQ"} /\ (c = "UNDERSCORE" => next \notin NameByte)
      /\ mode' \in {"word", "number", "string", "char", "punctuator"}
  BY <1>0 DEF Begin, NameByte
<1>3. /\ mem \in Seq(Bytes) /\ Len(mem) \in Nat /\ k \in Nat \ {0} /\ k + 1 <= Len(mem)
      /\ c = mem[k] /\ next = mem[k + 1] /\ Adv(cur).at = k + 1
  BY <1>1, NumbersHold DEF Numbers, IInv, Ready, c, next, Byte
<1>4. start'.at = k /\ cur'.at = k + 1
  BY <1>1, <1>3
<1>5. Reading(mem, mode', k, k + 1)
  <2>. HIDE DEF k
  <2>1. CASE mode' = "punctuator"
    <3>1. ReadingSign(mem, k, k + 1)
      BY <1>2, <1>3, <2>1 DEF ReadingSign
    <3>. QED
      BY <2>1, <3>1 DEF Reading, ReadingEscape, Radixes
  <2>2. CASE mode' = "word"
    <3>1. \A i \in k .. (k + 1) - 1 : i = k
      BY <1>3
    <3>2. Run(mem, k, (k + 1) - 1, NameByte)
      BY <1>2, <1>3, <2>2, <3>1 DEF Run, NameByte, Alnum
    <3>3. ReadingWord(mem, k, k + 1)
      BY <1>2, <1>3, <2>2, <3>2 DEF ReadingWord
    <3>. QED
      BY <2>2, <3>3 DEF Reading, ReadingEscape, Radixes
  <2>3. CASE mode' = "number"
    BY <1>2, <1>3, <2>3 DEF Reading, ReadingEscape, Radixes
  <2>4. CASE mode' = "string"
    <3>1. mem[k] = "DQ" /\ k < k + 1
      BY <1>2, <1>3, <2>4
    <3>2. Units(mem, "DQ", k + 1, k + 1) /\ Ahead(mem, "DQ", k + 1, k + 1)
      BY <1>3, UnitsNothing, AheadInit
    <3>3. InLiteral(mem, k, k + 1)
      BY <3>1, <3>2 DEF InLiteral
    <3>. QED
      BY <2>4, <3>1, <3>3 DEF Reading, ReadingEscape, Radixes
  <2>5. CASE mode' = "char"
    BY <1>2, <1>3, <2>5 DEF Reading, ReadingEscape, Radixes
  <2>. QED
    BY <1>2, <2>1, <2>2, <2>3, <2>4, <2>5
<1>6. cur.at <= cur'.at /\ cur'.at \in Nat
  BY <1>3, <1>4
<1>7. StaysInSource' => StaysInSource
  BY <1>6, StaysBack
<1>8. StaysInSource' => \A i \in 1 .. Len(toks') : Verdict(mem', toks'[i])
  BY <1>1, <1>7 DEF Judged
<1>9. \A i \in 1 .. Len(toks') : toks'[i].type # "EOF" /\ (toks'[i].type = "ERROR" => diags' # << >>)
  BY <1>1 DEF Judged
<1>10. Reading(mem', mode', start'.at, cur'.at)
  BY <1>4, <1>5
<1>. QED
  BY <1>8, <1>9, <1>10 DEF Judged

(* Between the tokens nothing is judged.                                    *)
LEMMA NoiseJudged ==
  ASSUME IInv, Placed, Judged, mem' = mem, SkipBlank \/ OpenComment \/ LineComment \/ BlockComment
  PROVE  Judged'
<1>1. /\ mode # "done" /\ mode' \in {"noise", "line_comment", "block_comment"}
      /\ cur' \in {cur, Adv(cur), Adv(Adv(cur))} /\ toks' = toks
  BY DEF SkipBlank, OpenComment, LineComment, BlockComment, At, Goto
<1>2. diags # << >> => diags' # << >>
  <2>1. CASE diags' = diags
    BY <2>1
  <2>2. CASE Report(2, start.line, start.col)
    BY <2>2, ReportStays
  <2>. QED
    BY <2>1, <2>2 DEF SkipBlank, OpenComment, LineComment, BlockComment, Goto
<1>3. cur.at <= cur'.at /\ cur'.at \in Nat
  BY <1>1, NumbersHold DEF Numbers
<1>4. StaysInSource' => StaysInSource
  BY <1>3, StaysBack
<1>5. Reading(mem', mode', start'.at, cur'.at)
  BY <1>1 DEF Reading, ReadingEscape, Radixes
<1>6. StaysInSource' => \A i \in 1 .. Len(toks') : Verdict(mem', toks'[i])
  BY <1>1, <1>4 DEF Judged
<1>7. \A i \in 1 .. Len(toks') : toks'[i].type # "EOF" /\ (toks'[i].type = "ERROR" => diags' # << >>)
  BY <1>1, <1>2 DEF Judged
<1>. QED
  BY <1>5, <1>6, <1>7 DEF Judged

LEMMA EofJudged ==
  ASSUME IInv, Placed, Judged, mem' = mem, Eof
  PROVE  Judged'
<1>. DEFINE t == [type |-> "EOF", at |-> cur.at, len |-> 0, line |-> cur.line, col |-> cur.col]
<1>1. /\ mode = "noise" /\ mode' = "done" /\ cur' = cur /\ toks' = Append(toks, t) /\ diags' = diags
  BY DEF Eof, At
<1>2. t.type = "EOF"
  OBVIOUS
<1>. HIDE DEF t
<1>3. cur'.at \in Nat /\ cur.at <= cur'.at
  BY <1>1, NumbersHold DEF Numbers
<1>4. Verdict(mem, t)
  BY <1>2 DEF Verdict
<1>. QED
  BY <1>1, <1>2, <1>3, <1>4, AppendJudged

(* A revealed byte changes nothing that was judged.                         *)
LEMMA RevealJudged ==
  ASSUME IInv, IInv', Placed, Judged, Reveal
  PROVE  Judged'
<1>1. /\ mode # "done" /\ mode' = mode /\ cur' = cur /\ start' = start
      /\ toks' = toks /\ diags' = diags
  BY DEF Reveal
<1>2. mem \in Seq(Bytes) /\ mem' \in Seq(Bytes) /\ Numbers
  BY NumbersHold DEF IInv
<1>3. Extends(mem', mem)
  <2>1. PICK byte \in Bytes : mem' = Append(mem, byte)
    BY RevealByte
  <2>2. Len(mem') = Len(mem) + 1 /\ \A i \in 1 .. Len(mem) : mem'[i] = mem[i]
    BY <1>2, <2>1, AppendProperties
  <2>. QED
    BY <1>2, <2>2 DEF Extends, Numbers
<1>4. StaysInSource' => StaysInSource
  <2>1. \A i \in 1 .. cur.at - 1 : i \in 1 .. Len(mem)
    BY <1>2 DEF Numbers
  <2>. QED
    BY <1>1, <1>3, <2>1 DEF StaysInSource, Extends
<1>5. ASSUME StaysInSource' PROVE Reading(mem', mode', start'.at, cur'.at)
  <2>1. CASE mode \in TokenModes
    <3>. DEFINE a == start.at
                k == cur.at
    <3>1. a \in Nat \ {0} /\ k \in Nat /\ a < k /\ k <= Len(mem) + 1
      BY <1>2, <2>1 DEF Numbers, Placed, TokenModes
    <3>2. Reading(mem, mode, a, k)
      BY <1>4, <1>5 DEF Judged
    <3>. HIDE DEF a, k
    <3>3. Reading(mem', mode, a, k)
      BY <1>2, <1>3, <3>1, <3>2, ReadingStays
    <3>. QED
      BY <1>1, <3>3 DEF a, k
  <2>2. CASE mode \notin TokenModes
    BY <1>1, <2>2 DEF Reading, ReadingEscape, Radixes, TokenModes, Modes
  <2>. QED
    BY <2>1, <2>2
<1>6. ASSUME StaysInSource', NEW i \in 1 .. Len(toks') PROVE Verdict(mem', toks'[i])
  <2>1. Verdict(mem, toks[i])
    BY <1>1, <1>4, <1>6 DEF Judged
  <2>. QED
    BY <1>1, <1>2, <1>3, <2>1, VerdictStays
<1>7. \A i \in 1 .. Len(toks') :
        /\ toks'[i].type = "EOF" => mode' = "done" /\ i = Len(toks')
        /\ toks'[i].type = "ERROR" => diags' # << >>
  BY <1>1 DEF Judged
<1>. QED
  BY <1>5, <1>6, <1>7 DEF Judged

LEMMA JudgedSound == IInv /\ IInv' /\ Placed /\ Judged /\ [Next]_vars => Judged'
<1>. SUFFICES ASSUME IInv, IInv', Placed, Judged, [Next]_vars PROVE Judged'
  OBVIOUS
<1>1. CASE Reveal
  BY <1>1, RevealJudged
<1>2. CASE UNCHANGED vars
  <2>1. /\ mem' = mem /\ cur' = cur /\ mode' = mode /\ start' = start
        /\ toks' = toks /\ diags' = diags
    BY <1>2 DEF vars
  <2>2. StaysInSource' => StaysInSource
    BY <2>1 DEF StaysInSource
  <2>. QED
    BY <2>1, <2>2 DEF Judged
<1>3. CASE Step /\ UNCHANGED mem
  <2>1. CASE SkipBlank \/ OpenComment \/ LineComment \/ BlockComment
    BY <1>3, <2>1, NoiseJudged
  <2>2. CASE Eof
    BY <1>3, <2>2, EofJudged
  <2>3. CASE Begin
    BY <1>3, <2>3, BeginJudged
  <2>4. CASE Punctuator \/ Word
    BY <1>3, <2>4, PunctuatorJudged, WordJudged
  <2>5. CASE Number \/ PrefixedDigits \/ Decimal \/ Fraction
    BY <1>3, <2>5, NumberJudged, RadixJudged, DecimalJudged, FractionJudged
  <2>6. CASE String \/ Char \/ CharEnd
    BY <1>3, <2>6, StringJudged, CharJudged, CharEndJudged
  <2>7. CASE Escape \/ HexDigit \/ HexDigit2 \/ BadEscape
    BY <1>3, <2>7, EscapeJudged, HexDigitJudged, HexDigit2Judged, BadEscapeJudged
  <2>. QED
    BY <1>3, <2>1, <2>2, <2>3, <2>4, <2>5, <2>6, <2>7 DEF Step
<1>. QED
  BY <1>1, <1>2, <1>3 DEF Next, Terminated

LEMMA JudgedInit == Init => Judged
<1>. SUFFICES ASSUME Init PROVE Judged
  OBVIOUS
<1>1. mode = "noise" /\ Len(toks) = 0
  BY DEF Init
<1>2. Reading(mem, mode, start.at, cur.at)
  BY <1>1 DEF Reading, ReadingEscape, Radixes
<1>. QED
  BY <1>1, <1>2 DEF Judged

(* The lexeme of the reference is the lexeme of the memory.                 *)
LEMMA ReferenceLexeme ==
  ASSUME NEW type, NEW a, NEW b
  PROVE  Lexeme(mem, type, a, b) <=> IsLexeme(type, Between(a, b), After(b))
BY DEF Lexeme, Follow, Between, After

(* Maximal munch.  When the lexer ends without a report and has not left    *)
(* its source, each token but TK_EOF is a lexeme of its type and the        *)
(* longest that starts there, of any type: two bytes of lookahead decide,   *)
(* and the lexer never has to go back, whatever the source.                 *)
THEOREM LongestAlwaysMatches == Spec => []LongestMatch
<1>1. ASSUME IInv, Judged PROVE LongestMatch
  <2>. SUFFICES ASSUME diags = << >>, StaysInSource, NEW i \in 1 .. Len(toks) - 1,
                       NEW t, t = toks[i]
                PROVE  /\ IsLexeme(t.type, Between(t.at, EndOf(t)), After(EndOf(t)))
                       /\ \A b \in EndOf(t) + 1 .. Len(mem) : \A type \in Types :
                            ~IsLexeme(type, Between(t.at, b), After(b))
    BY DEF LongestMatch, Clean
  <2>1. i \in 1 .. Len(toks) /\ i # Len(toks)
    <3>1. Len(toks) \in Nat
      BY <1>1, LenProperties DEF IInv
    <3>. QED
      BY <3>1
  <2>2. t.type \notin {"ERROR", "EOF"}
    BY <1>1, <2>1 DEF Judged
  <2>3. RightAt(mem, t.type, t.at, EndOf(t))
    BY <1>1, <2>1, <2>2 DEF Judged, Verdict
  <2>4. mem \in Seq(Bytes) /\ Extends(mem, mem)
    BY <1>1, ExtendsItself DEF IInv
  <2>5. Lexeme(mem, t.type, t.at, EndOf(t)) /\ Longest(mem, t.at, EndOf(t))
    BY <2>3, <2>4 DEF RightAt
  <2>. QED
    BY <2>5, ReferenceLexeme DEF Longest
<1>. QED
  BY InitSound, NextSound, PlacedInit, PlacedSound, JudgedInit, JudgedSound, <1>1, PTL
  DEF Spec

(* A TK_ERROR token only stands where no token could: when the lexer ends   *)
(* without having left its source, no lexeme starts at a refused byte but   *)
(* the ones the lexer refuses on purpose, "0" before an empty radix and     *)
(* the signs of "++" and "--".                                              *)
THEOREM ErrorsAlwaysDeserved == Spec => []ErrorsAreDeserved
<1>1. ASSUME IInv, Judged PROVE ErrorsAreDeserved
  <2>. SUFFICES ASSUME StaysInSource, NEW i \in 1 .. Len(toks), toks[i].type = "ERROR",
                       NEW b \in toks[i].at .. Len(mem), NEW type \in Types \ Refused
                PROVE  ~IsLexeme(type, Between(toks[i].at, b), After(b))
    BY DEF ErrorsAreDeserved, Refused
  <2>1. HopelessAt(mem, toks[i].at)
    BY <1>1 DEF Judged, Verdict
  <2>2. mem \in Seq(Bytes) /\ Extends(mem, mem)
    BY <1>1, ExtendsItself DEF IInv
  <2>3. Hopeless(mem, toks[i].at)
    BY <2>1, <2>2 DEF HopelessAt
  <2>. QED
    BY <2>3, ReferenceLexeme DEF Hopeless
<1>. QED
  BY InitSound, NextSound, PlacedInit, PlacedSound, JudgedInit, JudgedSound, <1>1, PTL
  DEF Spec

(* "_" alone has no prefix; a prefix of two letters is one of either. *)
LEMMA PrefixedByEither ==
  ASSUME NEW text, NEW small, NEW capital, NEW digits
  PROVE  /\ text = << "UNDERSCORE" >> => ~ Prefixed(text, {small}, digits)
         /\ Prefixed(text, {small, capital}, digits) <=>
              Prefixed(text, {small}, digits) \/ Prefixed(text, {capital}, digits)
  BY DEF Prefixed

(* The lexemes of lexer.c that docs/src/grammar.md ("Tokens") defines are   *)
(* those it defines, with two differences: "_" alone is no ID, and the      *)
(* letter of a radix prefix may be a capital.                               *)
THEOREM LexemesAreAlmostDocumented ==
  ASSUME NEW type \in DocumentedTypes, NEW text, NEW after
  PROVE  IsLexeme(type, text, after) <=>
           \/ IsDocumented(type, text) /\ text # << "UNDERSCORE" >>
           \/ HasCapitalPrefix(type, text)
<1>1. ~ All(<< "UNDERSCORE" >>, Digit)
  BY DEF All, Digit, Oct, Bin
<1>2. CASE type = "NUMBER"
  BY <1>1, <1>2, LexemeOfType DEF IsDocumented, HasCapitalPrefix
<1>3. CASE type = "ID"
  <2>1. /\ IsLexeme(type, text, after) <=>
             IsName(text) /\ \A k \in DOMAIN Keywords : Keywords[k] # text
        /\ ~ HasCapitalPrefix(type, text)
    BY <1>3, LexemeOfType DEF HasCapitalPrefix
  <2>. QED
    BY <1>3, <2>1 DEF IsDocumented, IsName
<1>4. CASE type = "HEX"
  <2>1. IsLexeme(type, text, after) <=> Prefixed(text, {"x", "X"}, Hex)
    <3>1. type \in Radixes /\ LettersOf(type) = {"x", "X"} /\ DigitsOf(type) = Hex
      BY <1>4 DEF Radixes, LettersOf, DigitsOf
    <3>2. IsLexeme(type, text, after) <=> Prefixed(text, LettersOf(type), DigitsOf(type))
      BY <3>1, LexemeOfType
    <3>. QED
      BY ONLY <3>1, <3>2
  <2>2. IsDocumented(type, text) <=> Prefixed(text, {"x"}, Hex)
    BY <1>4 DEF IsDocumented
  <2>3. HasCapitalPrefix(type, text) <=> Prefixed(text, {"X"}, Hex)
    BY <1>4 DEF HasCapitalPrefix
  <2>. QED
    BY ONLY PrefixedByEither, <2>1, <2>2, <2>3
<1>5. CASE type = "OCTAL"
  <2>1. IsLexeme(type, text, after) <=> Prefixed(text, {"o", "O"}, Oct)
    <3>1. type \in Radixes /\ LettersOf(type) = {"o", "O"} /\ DigitsOf(type) = Oct
      BY <1>5 DEF Radixes, LettersOf, DigitsOf
    <3>2. IsLexeme(type, text, after) <=> Prefixed(text, LettersOf(type), DigitsOf(type))
      BY <3>1, LexemeOfType
    <3>. QED
      BY ONLY <3>1, <3>2
  <2>2. IsDocumented(type, text) <=> Prefixed(text, {"o"}, Oct)
    BY <1>5 DEF IsDocumented
  <2>3. HasCapitalPrefix(type, text) <=> Prefixed(text, {"O"}, Oct)
    BY <1>5 DEF HasCapitalPrefix
  <2>. QED
    BY ONLY PrefixedByEither, <2>1, <2>2, <2>3
<1>6. CASE type = "BINARY"
  <2>1. IsLexeme(type, text, after) <=> Prefixed(text, {"b", "B"}, Bin)
    <3>1. type \in Radixes /\ LettersOf(type) = {"b", "B"} /\ DigitsOf(type) = Bin
      BY <1>6 DEF Radixes, LettersOf, DigitsOf
    <3>2. IsLexeme(type, text, after) <=> Prefixed(text, LettersOf(type), DigitsOf(type))
      BY <3>1, LexemeOfType
    <3>. QED
      BY ONLY <3>1, <3>2
  <2>2. IsDocumented(type, text) <=> Prefixed(text, {"b"}, Bin)
    BY <1>6 DEF IsDocumented
  <2>3. HasCapitalPrefix(type, text) <=> Prefixed(text, {"B"}, Bin)
    BY <1>6 DEF HasCapitalPrefix
  <2>. QED
    BY ONLY PrefixedByEither, <2>1, <2>2, <2>3
<1>. QED
  BY <1>2, <1>3, <1>4, <1>5, <1>6 DEF DocumentedTypes
=============================================================================
