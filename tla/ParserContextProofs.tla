------------------------ MODULE ParserContextProofs --------------------------
(***************************************************************************)
(* What peek() and advance() do to a contiguous token window.              *)
(***************************************************************************)
EXTENDS ParserContext, SequenceTheorems, TLAPS

-----------------------------------------------------------------------------
(* parser_init() leaves a contiguous window. *)
LEMMA InitialWindow == InitialContext \in Window
  BY EmptySeq DEF InitialContext, Window, Context, Contiguous, UNINIT

(* advance() moves a contiguous window one token forward, and returns the  *)
(* token that was current (the new one, on the first call).                *)
LEMMA AdvanceWindow ==
  ASSUME NEW c \in Window
  PROVE  /\ Advance(c) \in Window
         /\ Advance(c).current = c.current + 1
         /\ Advance(c).prev = IF c.current = 0 THEN 1 ELSE c.current
         /\ Len(Advance(c).queue) <= Len(c.queue)
         /\ Advance(c).lexed <= c.lexed + 1
<1>1. c \in Context /\ Contiguous(c)
  BY DEF Window
<1>2. c.current \in Nat /\ c.lexed \in Nat /\ c.prev \in Nat
  BY <1>1 DEF Context
<1>q. c.queue \in Seq(Nat)
  BY <1>1 DEF Context
<1>3. CASE c.queue = << >>
  <2>1. Len(c.queue) = 0 /\ c.lexed = c.current
    BY <1>1, <1>2, <1>3, EmptySeq DEF Contiguous
  <2>2. << >> \in Seq(Nat) /\ Len(<< >>) = 0
    BY EmptySeq
  <2>. QED
    BY <1>1, <1>2, <1>3, <2>1, <2>2
       DEF Advance, Window, Context, Contiguous, UNINIT
<1>4. CASE c.queue # << >>
  <2>1. /\ Tail(c.queue) \in Seq(Nat)
        /\ Len(Tail(c.queue)) = Len(c.queue) - 1
        /\ \A i \in 1 .. Len(Tail(c.queue)) : Tail(c.queue)[i] = c.queue[i + 1]
    BY <1>q, <1>4, HeadTailProperties
  <2>2. Len(c.queue) \in Nat \ {0}
    BY <1>q, <1>4, EmptySeq
  <2>3. Head(c.queue) = c.current + 1
    BY <1>1, <1>q, <2>2 DEF Contiguous
  <2>. DEFINE d == Advance(c)
  <2>4. d = [prev |-> IF c.current = 0 THEN c.current + 1 ELSE c.current,
             current |-> c.current + 1,
             queue |-> Tail(c.queue), lexed |-> c.lexed]
    BY <1>4, <2>3 DEF Advance, UNINIT
  <2>5. /\ d.prev = IF c.current = 0 THEN c.current + 1 ELSE c.current
        /\ d.current = c.current + 1
        /\ d.queue = Tail(c.queue)
        /\ d.lexed = c.lexed
    BY <2>4
  <2>6. d \in Context
    BY <1>2, <2>1, <2>4 DEF Context
  <2>. HIDE DEF d
  <2>7. Contiguous(d)
    <3>1. c.lexed = c.current + Len(c.queue)
      BY <1>1 DEF Contiguous
    <3>2. d.lexed = d.current + Len(d.queue)
      <4>1. Len(d.queue) = Len(c.queue) - 1
        BY <2>1, <2>5
      <4>. QED
        BY <1>2, <2>2, <2>5, <3>1, <4>1
    <3>3. ASSUME NEW i \in 1 .. Len(d.queue)
          PROVE  d.queue[i] = d.current + i
      <4>1. i + 1 \in 1 .. Len(c.queue)
        BY <2>1, <2>2, <2>5
      <4>2. c.queue[i + 1] = c.current + (i + 1)
        BY <1>1, <4>1 DEF Contiguous
      <4>3. d.queue[i] = c.queue[i + 1]
        BY <2>1, <2>5
      <4>. QED
        BY <1>2, <2>5, <4>2, <4>3
    <3>4. d.prev = IF d.current <= 1 THEN d.current ELSE d.current - 1
      BY <1>2, <2>5
    <3>. QED
      BY <3>2, <3>3, <3>4 DEF Contiguous
  <2>8. Advance(c) = d
    BY DEF d
  <2>9. d \in Window
    BY <2>6, <2>7 DEF Window
  <2>10. /\ d.prev = IF c.current = 0 THEN 1 ELSE c.current
         /\ Len(d.queue) <= Len(c.queue)
         /\ d.lexed <= c.lexed + 1
    BY <1>2, <2>1, <2>2, <2>5
  <2>. QED
    BY <2>5, <2>8, <2>9, <2>10
<1>. QED
  BY <1>3, <1>4

(* peek() leaves prev and current alone, keeps the window contiguous, and  *)
(* the token it returns lies n + 1 tokens after the current one.           *)
LEMMA PeekWindow ==
  ASSUME NEW c \in Window, NEW n \in Nat
  PROVE  /\ Peek(c, n) \in Window
         /\ Peek(c, n).current = c.current
         /\ Peek(c, n).prev = c.prev
         /\ Peeked(c, n) = c.current + n + 1
         /\ Len(Peek(c, n).queue) = IF Len(c.queue) <= n THEN n + 1
                                                        ELSE Len(c.queue)
<1>. DEFINE missing == IF Len(c.queue) <= n THEN n + 1 - Len(c.queue) ELSE 0
            more == [k \in 1 .. missing |-> c.lexed + k]
            d == Peek(c, n)
<1>1. /\ c \in Context /\ Contiguous(c)
      /\ c.current \in Nat /\ c.lexed \in Nat /\ c.prev \in Nat
      /\ c.queue \in Seq(Nat)
  BY DEF Window, Context
<1>2. Len(c.queue) \in Nat
  BY <1>1, LenProperties
<1>3. missing \in Nat
  BY <1>2
<1>4. more \in Seq(Nat) /\ Len(more) = missing
  <2>1. \A k \in 1 .. missing : c.lexed + k \in Nat
    BY <1>1, <1>3
  <2>. HIDE DEF missing
  <2>. QED
    BY <1>3, <2>1
<1>5. /\ d = [prev |-> c.prev, current |-> c.current,
              queue |-> c.queue \o more, lexed |-> c.lexed + missing]
      /\ d.prev = c.prev /\ d.current = c.current
      /\ d.queue = c.queue \o more /\ d.lexed = c.lexed + missing
  BY DEF Peek
<1>6. \A k \in 1 .. missing : more[k] = c.lexed + k
  OBVIOUS
<1>7. /\ Len(c.queue) + missing = IF Len(c.queue) <= n THEN n + 1
                                                       ELSE Len(c.queue)
      /\ n + 1 \in 1 .. Len(c.queue) + missing
  <2>1. CASE Len(c.queue) <= n
    <3>1. missing = n + 1 - Len(c.queue)
      BY <2>1
    <3>. HIDE DEF missing
    <3>. QED
      BY <1>2, <2>1, <3>1
  <2>2. CASE ~(Len(c.queue) <= n)
    <3>1. missing = 0
      BY <2>2
    <3>. HIDE DEF missing
    <3>. QED
      BY <1>2, <2>2, <3>1
  <2>. QED
    BY <2>1, <2>2
<1>8. Peek(c, n) = d /\ Peeked(c, n) = d.queue[n + 1]
  BY DEF Peeked
<1>. HIDE DEF d, more, missing
<1>9. /\ d.queue \in Seq(Nat)
      /\ Len(d.queue) = Len(c.queue) + missing
      /\ \A i \in 1 .. Len(c.queue) + missing :
           d.queue[i] = IF i <= Len(c.queue) THEN c.queue[i]
                        ELSE more[i - Len(c.queue)]
  BY <1>1, <1>4, <1>5, ConcatProperties
<1>10. c.lexed = c.current + Len(c.queue)
  BY <1>1 DEF Contiguous
<1>11. \A i \in 1 .. Len(c.queue) + missing : d.queue[i] = c.current + i
  <2>. SUFFICES ASSUME NEW i \in 1 .. Len(c.queue) + missing
                PROVE  d.queue[i] = c.current + i
    OBVIOUS
  <2>1. CASE i <= Len(c.queue)
    <3>1. c.queue[i] = c.current + i
      BY <1>1, <1>2, <1>3, <2>1 DEF Contiguous
    <3>. QED
      BY <1>9, <2>1, <3>1
  <2>2. CASE ~(i <= Len(c.queue))
    <3>1. i - Len(c.queue) \in 1 .. missing
      BY <1>2, <1>3, <2>2
    <3>2. more[i - Len(c.queue)] = c.lexed + (i - Len(c.queue))
      BY <1>6, <3>1
    <3>3. d.queue[i] = more[i - Len(c.queue)]
      BY <1>9, <2>2
    <3>4. c.lexed + (i - Len(c.queue)) = c.current + i
      BY <1>1, <1>2, <1>3, <1>10
    <3>. QED
      BY <3>2, <3>3, <3>4
  <2>. QED
    BY <2>1, <2>2
<1>12. d \in Context
  BY <1>1, <1>3, <1>5, <1>9 DEF Context
<1>13. Contiguous(d)
  <2>1. d.lexed = d.current + Len(d.queue)
    BY <1>1, <1>2, <1>3, <1>5, <1>9, <1>10
  <2>2. \A i \in 1 .. Len(d.queue) : d.queue[i] = d.current + i
    BY <1>5, <1>9, <1>11
  <2>3. d.prev = IF d.current <= 1 THEN d.current ELSE d.current - 1
    BY <1>1, <1>5 DEF Contiguous
  <2>. QED
    BY <2>1, <2>2, <2>3 DEF Contiguous
<1>14. d.queue[n + 1] = c.current + n + 1
  <2>1. d.queue[n + 1] = c.current + (n + 1)
    BY <1>7, <1>11
  <2>. QED
    BY <1>1, <2>1
<1>15. Peek(c, n) \in Window
  BY <1>8, <1>12, <1>13 DEF Window
<1>16. Peeked(c, n) = c.current + n + 1
  BY <1>8, <1>14
<1>17. Len(Peek(c, n).queue) = IF Len(c.queue) <= n THEN n + 1 ELSE Len(c.queue)
  BY <1>7, <1>8, <1>9
<1>. QED
  BY <1>5, <1>8, <1>15, <1>16, <1>17
=============================================================================
