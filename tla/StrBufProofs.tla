---------------------------- MODULE StrBufProofs -----------------------------
(***************************************************************************)
(* Proofs about the string buffer, for every size of size_t, every         *)
(* constant of alloc_needed() and every set of texts.                      *)
(***************************************************************************)
EXTENDS StrBuf, SequenceTheorems, TLAPS

-----------------------------------------------------------------------------
(* ALLOC_GROW() leaves room for what it is asked for, also when            *)
(* alloc_needed() wraps, and so never asks realloc() for no bytes, which   *)
(* would free the block.                                                   *)
LEMMA GrowLeavesRoom ==
  ASSUME NEW count \in Nat, NEW allocated \in Nat
  PROVE  /\ AllocGrow(count, allocated) \in Nat
         /\ count <= AllocGrow(count, allocated)
         /\ count <= allocated => AllocGrow(count, allocated) = allocated
<1>1. \A y \in Nat : Wrapped(y) \in Nat
  BY PtrdiffMaxAssumption DEF Wrapped, SIZE_MAX
<1>2. Wrapped(Wrapped(allocated + Slack) * 3) \in Nat
  <2>1. Wrapped(allocated + Slack) \in Nat
    BY <1>1, SlackAssumption
  <2>. QED
    BY <2>1, <1>1
<1>3. alloc_needed(allocated) \in Nat
  BY <1>2 DEF alloc_needed
<1>. QED
  BY <1>3 DEF AllocGrow

(* The count for ALLOC_GROW() does not wrap: a buffer and a text fit in    *)
(* objects of at most PTRDIFF_MAX bytes.                                   *)
LEMMA CountsDoNotWrap ==
  ASSUME NEW s \in Texts, NEW n \in 0 .. PtrdiffMax - 1
  PROVE  /\ Wrapped(n + Len(s) + 1) = n + Len(s) + 1
         /\ Wrapped(n + Len(s)) = n + Len(s)
<1>1. s \in Seq(Chars) /\ Len(s) <= PtrdiffMax
  BY TextsAssumption
<1>2. Len(s) \in Nat
  BY <1>1, LenProperties
<1>. QED
  BY <1>1, <1>2, PtrdiffMaxAssumption DEF Wrapped, SIZE_MAX

-----------------------------------------------------------------------------
(* A block that begins with n characters and their NUL. *)
Holds(m, n) ==
  /\ n \in Nat /\ n \in DOMAIN m /\ DOMAIN m \subseteq Nat
  /\ m[n] = NUL
  /\ \A x \in 0 .. n - 1 : m[x] \in Chars

LEMMA CStringOfBlock ==
  ASSUME NEW m, NEW n, Holds(m, n)
  PROVE  CString(m) = [x \in 1 .. n |-> m[x - 1]]
<1>1. m # NULL
  BY DEF Holds, NULL
<1>2. IsEnd(m, n)
  BY NulAssumption DEF IsEnd, Holds
<1>3. \A k \in DOMAIN m : IsEnd(m, k) => k = n
  <2>. SUFFICES ASSUME NEW k \in DOMAIN m, IsEnd(m, k), k # n PROVE FALSE
    OBVIOUS
  <2>1. k \in Nat /\ n \in Nat
    BY DEF Holds
  <2>2. CASE k < n
    BY <2>1, <2>2, NulAssumption DEF Holds, IsEnd
  <2>3. CASE n < k
    BY <2>1, <2>3 DEF Holds, IsEnd
  <2>. QED
    BY <2>1, <2>2, <2>3
<1>4. n \in DOMAIN m
  BY DEF Holds
<1>5. (CHOOSE k \in DOMAIN m : IsEnd(m, k)) = n
  BY <1>2, <1>3, <1>4
<1>. QED
  BY <1>1, <1>5 DEF CString

LEMMA TextOfBlock ==
  ASSUME NEW m, NEW n, Holds(m, n)
  PROVE  /\ CString(m) \in Seq(Chars)
         /\ Len(CString(m)) = n
         /\ \A x \in 1 .. n : CString(m)[x] = m[x - 1]
<1>1. n \in Nat
  BY DEF Holds
<1>2. \A x \in 1 .. n : m[x - 1] \in Chars
  BY <1>1 DEF Holds
<1>3. [x \in 1 .. n |-> m[x - 1]] \in [1 .. n -> Chars]
  BY <1>2
<1>4. [x \in 1 .. n |-> m[x - 1]] \in Seq(Chars)
  BY <1>1, <1>3
<1>. QED
  BY <1>1, <1>4, CStringOfBlock

(* A block of k bytes that begins with n characters has room for a text.   *)
HasRoom(m, n, s, k) ==
  /\ n \in Nat /\ k \in Nat /\ s \in Seq(Chars)
  /\ DOMAIN m = 0 .. k - 1 /\ n + Len(s) < k
  /\ \A x \in 0 .. n - 1 : m[x] \in Chars

LEMMA WrittenBlock ==
  ASSUME NEW m, NEW n, NEW s, NEW k, HasRoom(m, n, s, k)
  PROVE  /\ DOMAIN Written(m, n, s) = 0 .. k - 1
         /\ Holds(Written(m, n, s), n + Len(s))
         /\ \A x \in 0 .. n - 1 : Written(m, n, s)[x] = m[x]
         /\ \A x \in 1 .. Len(s) : Written(m, n, s)[n + x - 1] = s[x]
<1>0. /\ n \in Nat /\ k \in Nat /\ s \in Seq(Chars)
      /\ DOMAIN m = 0 .. k - 1 /\ n + Len(s) < k
      /\ \A x \in 0 .. n - 1 : m[x] \in Chars
  BY DEF HasRoom
<1>1. Len(s) \in Nat /\ \A x \in 1 .. Len(s) : s[x] \in Chars
  BY <1>0, LenProperties, ElementOfSeq
<1>2. DOMAIN m \cup n .. n + Len(s) = 0 .. k - 1
  BY <1>0, <1>1
<1>3. Written(m, n, s) =
        [x \in 0 .. k - 1 |->
           IF x \in n .. n + Len(s) - 1 THEN s[x - n + 1]
           ELSE IF x = n + Len(s) THEN NUL ELSE m[x]]
  BY <1>0, <1>2 DEF Written
<1>4. \A x \in 0 .. n - 1 : Written(m, n, s)[x] = m[x]
  BY <1>0, <1>1, <1>3
<1>5. \A x \in 1 .. Len(s) : Written(m, n, s)[n + x - 1] = s[x]
  BY <1>0, <1>1, <1>3
<1>6. Written(m, n, s)[n + Len(s)] = NUL
  BY <1>0, <1>1, <1>3
<1>7. ASSUME NEW x \in 0 .. n + Len(s) - 1
      PROVE  Written(m, n, s)[x] \in Chars
  <2>1. CASE x < n
    <3>1. x \in 0 .. n - 1
      BY <1>0, <2>1, <1>1
    <3>2. Written(m, n, s)[x] = m[x] /\ m[x] \in Chars
      BY <1>0, <3>1, <1>4
    <3>. QED
      BY <3>2
  <2>2. CASE n <= x
    <3>1. x - n + 1 \in 1 .. Len(s)
      BY <1>0, <2>2, <1>1
    <3>2. Written(m, n, s)[x] = s[x - n + 1]
      BY <1>0, <3>1, <1>5, <1>1
    <3>. QED
      BY <1>0, <3>1, <3>2, <1>1
  <2>. QED
    BY <1>0, <2>1, <2>2, <1>1
<1>. QED
  BY <1>0, <1>1, <1>3, <1>4, <1>5, <1>6, <1>7 DEF Holds

-----------------------------------------------------------------------------
(* The inductive invariant: the buffer begins with len characters and      *)
(* their NUL, and so does what was detached.                               *)
IInv ==
  /\ TypeOK
  /\ EndsInBuffer
  /\ \A x \in 0 .. len - 1 : buf[x] \in Chars

LEMMA BufferHolds == ASSUME IInv, buf # NULL PROVE Holds(buf, len)
  BY PtrdiffMaxAssumption DEF IInv, TypeOK, EndsInBuffer, Holds

LEMMA NullBuffer == ASSUME IInv, buf = NULL PROVE len = 0 /\ size = 0
<1>1. DOMAIN buf = {}
  BY DEF NULL
<1>2. DOMAIN buf = 0 .. size - 1 /\ size \in Nat
  BY PtrdiffMaxAssumption DEF IInv, TypeOK
<1>. QED
  BY <1>1, <1>2 DEF IInv, EndsInBuffer

(* The step of str_buf_addstr() in the terms of the block that it leaves.  *)
LEMMA AddStep ==
  ASSUME IInv, NEW s \in Texts, Add(s)
  PROVE  /\ s \in Seq(Chars) /\ Len(s) \in Nat
         /\ len' = len + Len(s)
         /\ size' \in 0 .. PtrdiffMax /\ len' < size'
         /\ \E m : /\ m \in [0 .. size' - 1 -> Chars \cup {NUL, UNINIT}]
                   /\ buf' = Written(m, len, s)
                   /\ \A x \in 0 .. len - 1 : m[x] = buf[x]
<1>1. s \in Seq(Chars) /\ Len(s) \in Nat
  BY TextsAssumption, LenProperties
<1>2. /\ size \in 0 .. PtrdiffMax /\ len \in Nat
      /\ buf \in [0 .. size - 1 -> Chars \cup {NUL, UNINIT}]
  BY DEF IInv, TypeOK
<1>3. len = 0 \/ len < size
  BY NullBuffer DEF IInv, EndsInBuffer
<1>z. PtrdiffMax \in Nat
  BY PtrdiffMaxAssumption
<1>4. RoomFor(s) = len + Len(s) + 1 /\ Wrapped(len + Len(s)) = len + Len(s)
  <2>1. CASE PtrdiffMax = 0
    <3>1. len = 0 /\ Len(s) = 0
      BY <2>1, <1>1, <1>2, <1>3, TextsAssumption
    <3>. QED
      BY <3>1, <2>1 DEF RoomFor, Wrapped, SIZE_MAX
  <2>2. CASE PtrdiffMax > 0
    <3>1. len \in 0 .. PtrdiffMax - 1
      BY <2>2, <1>2, <1>3, <1>z
    <3>. QED
      BY <3>1, CountsDoNotWrap DEF RoomFor
  <2>. QED
    BY <2>1, <2>2, <1>z
<1>. DEFINE n == AllocGrow(RoomFor(s), size)
            m == IF RoomFor(s) > size THEN Resized(buf, n) ELSE buf
<1>5. /\ n \in Nat /\ RoomFor(s) <= n
      /\ RoomFor(s) <= size => n = size
  <2>1. RoomFor(s) \in Nat /\ size \in Nat
    BY <1>1, <1>2, <1>4, <1>z
  <2>. QED
    BY ONLY <2>1, GrowLeavesRoom
<1>6. n <= PtrdiffMax
  <2>1. CASE RoomFor(s) > size
    BY <2>1, <1>5 DEF Add, Allocable
  <2>2. CASE ~ (RoomFor(s) > size)
    BY <2>2, <1>1, <1>2, <1>4, <1>5, <1>z
  <2>. QED
    BY <2>1, <2>2
<1>7. /\ size' = n /\ len' = len + Len(s) /\ buf' = Written(m, len, s)
  BY <1>4 DEF Add
<1>8. /\ m \in [0 .. n - 1 -> Chars \cup {NUL, UNINIT}]
      /\ \A x \in 0 .. len - 1 : m[x] = buf[x]
  <2>1. CASE RoomFor(s) > size
    <3>1. m = [x \in 0 .. n - 1 |-> IF x \in DOMAIN buf THEN buf[x] ELSE UNINIT]
      BY <2>1 DEF Resized
    <3>2. DOMAIN buf = 0 .. size - 1
      BY <1>2
    <3>3. m \in [0 .. n - 1 -> Chars \cup {NUL, UNINIT}]
      BY <3>1, <3>2, <1>2
    <3>4. ASSUME NEW x \in 0 .. len - 1 PROVE m[x] = buf[x]
      BY <3>1, <3>2, <1>1, <1>2, <1>3, <1>4, <1>5, <1>z
    <3>. QED
      BY <3>3, <3>4
  <2>2. CASE ~ (RoomFor(s) > size)
    BY <2>2, <1>1, <1>2, <1>4, <1>5, <1>z
  <2>. QED
    BY <2>1, <2>2
<1>9. len' < size'
  BY <1>1, <1>2, <1>4, <1>5, <1>7
<1>. HIDE DEF n, m
<1>. QED
  BY <1>1, <1>5, <1>6, <1>7, <1>8, <1>9, <1>z

LEMMA AddKeeps ==
  ASSUME IInv, NEW s \in Texts, Add(s)
  PROVE  /\ IInv'
         /\ CString(buf)' = CString(buf) \o s
<1>. PICK m : /\ m \in [0 .. size' - 1 -> Chars \cup {NUL, UNINIT}]
              /\ buf' = Written(m, len, s)
              /\ \A x \in 0 .. len - 1 : m[x] = buf[x]
  BY AddStep
<1>1. /\ s \in Seq(Chars) /\ Len(s) \in Nat /\ len \in Nat
      /\ len' = len + Len(s) /\ size' \in Nat /\ size' \in 0 .. PtrdiffMax
      /\ len' < size'
  BY AddStep, PtrdiffMaxAssumption DEF IInv, TypeOK
<1>2. \A x \in 0 .. len - 1 : m[x] = buf[x] /\ m[x] \in Chars
  BY DEF IInv
<1>3. /\ DOMAIN buf' = 0 .. size' - 1
      /\ Holds(buf', len')
      /\ \A x \in 0 .. len - 1 : buf'[x] = m[x]
      /\ \A x \in 1 .. Len(s) : buf'[len + x - 1] = s[x]
  <2>1. DOMAIN m = 0 .. size' - 1 /\ len + Len(s) < size'
    BY <1>1
  <2>2. \A x \in 0 .. len - 1 : m[x] \in Chars
    BY <1>2
  <2>3. /\ DOMAIN Written(m, len, s) = 0 .. size' - 1
        /\ Holds(Written(m, len, s), len + Len(s))
        /\ \A x \in 0 .. len - 1 : Written(m, len, s)[x] = m[x]
        /\ \A x \in 1 .. Len(s) : Written(m, len, s)[len + x - 1] = s[x]
    <3>1. HasRoom(m, len, s, size')
      BY <1>1, <2>1, <2>2 DEF HasRoom
    <3>. QED
      BY ONLY <3>1, WrittenBlock
  <2>. QED
    BY <2>3, <1>1
<1>4. buf' \in [0 .. size' - 1 -> Chars \cup {NUL, UNINIT}]
  <2>1. len \in Nat /\ Len(s) \in Nat /\ len + Len(s) < size'
    BY <1>1
  <2>2. DOMAIN m \cup len .. len + Len(s) = 0 .. size' - 1
    BY <2>1, <1>1
  <2>3. buf' = [x \in 0 .. size' - 1 |->
                 IF x \in len .. len + Len(s) - 1 THEN s[x - len + 1]
                 ELSE IF x = len + Len(s) THEN NUL ELSE m[x]]
    BY <2>2 DEF Written
  <2>4. \A x \in len .. len + Len(s) - 1 : s[x - len + 1] \in Chars
    BY <1>1, ElementOfSeq
  <2>. QED
    BY <2>3, <2>4
<1>5. IInv'
  <2>1. TypeOK'
    BY <1>1, <1>4 DEF TypeOK, IInv, Add
  <2>2. EndsInBuffer'
    BY <1>1, <1>3 DEF EndsInBuffer, Holds, NULL
  <2>3. \A x \in 0 .. len' - 1 : buf'[x] \in Chars
    BY <1>3 DEF Holds
  <2>. QED
    BY <2>1, <2>2, <2>3 DEF IInv
<1>6. CString(buf)' = CString(buf) \o s
  <2>1. /\ CString(buf') \in Seq(Chars) /\ Len(CString(buf')) = len + Len(s)
        /\ \A x \in 1 .. len + Len(s) : CString(buf')[x] = buf'[x - 1]
    BY <1>1, <1>3, TextOfBlock
  <2>2. /\ CString(buf) \in Seq(Chars) /\ Len(CString(buf)) = len
        /\ \A x \in 1 .. len : CString(buf)[x] = buf[x - 1]
    <3>1. CASE buf = NULL
      <4>1. CString(buf) = << >> /\ len = 0
        BY <3>1, NullBuffer DEF CString
      <4>. QED
        BY <4>1, EmptySeq
    <3>2. CASE buf # NULL
      BY <3>2, BufferHolds, TextOfBlock
    <3>. QED
      BY <3>1, <3>2
  <2>3. /\ CString(buf) \o s \in Seq(Chars)
        /\ Len(CString(buf) \o s) = len + Len(s)
        /\ \A x \in 1 .. len + Len(s) :
             (CString(buf) \o s)[x] = IF x <= len THEN CString(buf)[x] ELSE s[x - len]
    BY <1>1, <2>2, ConcatProperties
  <2>4. ASSUME NEW x \in 1 .. len + Len(s)
        PROVE  CString(buf')[x] = (CString(buf) \o s)[x]
    <3>1. CASE x <= len
      <4>1. x - 1 \in 0 .. len - 1 /\ x \in 1 .. len
        BY <3>1, <1>1
      <4>2. buf'[x - 1] = buf[x - 1]
        BY <4>1, <1>2, <1>3
      <4>. QED
        BY <3>1, <4>1, <4>2, <2>1, <2>2, <2>3
    <3>2. CASE ~ (x <= len)
      <4>1. x - len \in 1 .. Len(s) /\ len + (x - len) - 1 = x - 1
        BY <3>2, <1>1
      <4>2. buf'[x - 1] = s[x - len]
        BY <4>1, <1>3
      <4>. QED
        BY <3>2, <4>2, <2>1, <2>3
    <3>. QED
      BY <3>1, <3>2
  <2>5. CString(buf') = CString(buf) \o s
    BY <2>1, <2>3, <2>4, SeqEqual
  <2>. QED
    BY <2>5 DEF CString, IsEnd
<1>. QED
  BY <1>5, <1>6

LEMMA ResetKeeps ==
  ASSUME IInv, Reset, dead' \in BOOLEAN
  PROVE  IInv' /\ CString(buf)' = << >>
<1>1. buf' = NULL /\ size' = 0 /\ len' = 0
  BY DEF Reset
<1>2. NULL \in [0 .. 0 - 1 -> Chars \cup {NUL, UNINIT}]
  BY DEF NULL
<1>3. TypeOK'
  BY <1>1, <1>2, PtrdiffMaxAssumption DEF TypeOK
<1>. QED
  BY <1>1, <1>3 DEF IInv, EndsInBuffer, CString

LEMMA IInvInductive == Spec => []IInv
<1>1. Init => IInv
  <2>. SUFFICES ASSUME Init PROVE IInv
    OBVIOUS
  <2>1. NULL \in [0 .. 0 - 1 -> Chars \cup {NUL, UNINIT}]
    BY DEF NULL
  <2>2. buf = NULL /\ size = 0 /\ len = 0 /\ dead = FALSE
    BY DEF Init
  <2>3. TypeOK
    <3>1. dead \in BOOLEAN
      BY <2>2
    <3>2. size \in 0 .. PtrdiffMax /\ len \in Nat
      BY <2>2, PtrdiffMaxAssumption
    <3>3. buf \in [0 .. size - 1 -> Chars \cup {NUL, UNINIT}]
      BY <2>1, <2>2
    <3>. QED
      BY <3>1, <3>2, <3>3 DEF TypeOK
  <2>. QED
    BY <2>2, <2>3 DEF IInv, EndsInBuffer
<1>2. IInv /\ [Next]_vars => IInv'
  <2>. SUFFICES ASSUME IInv, [Next]_vars PROVE IInv'
    OBVIOUS
  <2>1. ASSUME NEW s \in Texts, Add(s) PROVE IInv'
    BY <2>1, AddKeeps
  <2>2. CASE Die
    BY <2>2 DEF Die, IInv, TypeOK, EndsInBuffer
  <2>3. CASE Detach
    BY <2>3, ResetKeeps DEF Detach, ResetByDetach, IInv, TypeOK
  <2>4. CASE Release
    BY <2>4, ResetKeeps DEF Release, IInv, TypeOK
  <2>5. CASE UNCHANGED vars
    BY <2>5 DEF vars, IInv, TypeOK, EndsInBuffer
  <2>. QED
    BY <2>1, <2>2, <2>3, <2>4, <2>5 DEF Next
<1>. QED
  BY <1>1, <1>2, PTL DEF Spec

-----------------------------------------------------------------------------
(* The buffer is a block of size bytes, of at most PTRDIFF_MAX.            *)
THEOREM TypeCorrect == Spec => []TypeOK
<1>1. IInv => TypeOK
  BY DEF IInv
<1>. QED
  BY <1>1, IInvInductive, PTL

(* For every size of size_t and every mix of calls: the terminating NUL is *)
(* written, at len, inside of the buffer.                                  *)
THEOREM AlwaysEndsInBuffer == Spec => []EndsInBuffer
<1>1. IInv => EndsInBuffer
  BY DEF IInv
<1>. QED
  BY <1>1, IInvInductive, PTL

(* A string buffer implements the builder of a text: no byte is lost,      *)
(* doubled or read uninitialized, and a detached text stays whole.         *)
THEOREM ImplementsBuilder == Spec => BuilderSpec
<1>1. Init => Builder!Init
  BY DEF Init, Builder!Init, CString, NULL
<1>2. IInv /\ [Next]_vars => [Builder!Next]_<< CString(buf), CString(out) >>
  <2>. SUFFICES ASSUME IInv, [Next]_vars
                PROVE  [Builder!Next]_<< CString(buf), CString(out) >>
    OBVIOUS
  <2>1. ASSUME NEW s \in Texts, Add(s)
        PROVE  Builder!AppendText(s)
    <3>1. UNCHANGED out
      BY <2>1 DEF Add
    <3>2. CString(out)' = CString(out)
      BY <3>1 DEF CString, IsEnd
    <3>3. CString(buf)' = CString(buf) \o s
      BY <2>1, AddKeeps
    <3>. QED
      BY <3>2, <3>3 DEF Builder!AppendText
  <2>2. CASE Die
    BY <2>2 DEF Die, CString, IsEnd
  <2>3. CASE Detach
    <3>1. CString(buf)' = << >>
      BY <2>3, ResetKeeps DEF Detach, ResetByDetach, IInv, TypeOK
    <3>2. CString(out') = CString(buf)
      <4>1. CASE buf = NULL
        <5>. DEFINE block == [x \in {0} |-> NUL]
        <5>1. Holds(block, 0)
          BY DEF Holds
        <5>2. CString(block) = [x \in 1 .. 0 |-> block[x - 1]]
          BY <5>1, CStringOfBlock
        <5>3. [x \in 1 .. 0 |-> block[x - 1]] = << >>
          OBVIOUS
        <5>4. out' = block
          BY <2>3, <4>1 DEF Detach
        <5>5. CString(buf) = << >>
          BY <4>1 DEF CString
        <5>. QED
          BY <5>2, <5>3, <5>4, <5>5
      <4>2. CASE buf # NULL
        BY <2>3, <4>2 DEF Detach
      <4>. QED
        BY <4>1, <4>2
    <3>3. CString(out)' = CString(buf)
      BY <3>2 DEF CString, IsEnd
    <3>. QED
      BY <3>1, <3>3 DEF Builder!HandOver, Builder!Next
  <2>4. CASE Release
    <3>1. CString(buf)' = << >>
      BY <2>4, ResetKeeps DEF Release, IInv, TypeOK
    <3>2. CString(out)' = CString(out)
      BY <2>4 DEF Release, CString, IsEnd
    <3>. QED
      BY <3>1, <3>2 DEF Builder!Clear, Builder!Next
  <2>5. CASE UNCHANGED vars
    BY <2>5 DEF vars, CString, IsEnd
  <2>. QED
    BY <2>1, <2>2, <2>3, <2>4, <2>5 DEF Next, Builder!Next
<1>. QED
  BY <1>1, <1>2, IInvInductive, PTL DEF Spec, BuilderSpec, Builder!Spec
=============================================================================
