-------------------------- MODULE TokenQueueProofs ---------------------------
(***************************************************************************)
(* Proofs about the token window as a machine, for every queue size and    *)
(* every number of tokens.                                                 *)
(***************************************************************************)
EXTENDS TokenQueue, ParserContextProofs

-----------------------------------------------------------------------------
(* The inductive invariant: the window is contiguous and fits the array.   *)
IInv ==
  /\ p \in Window /\ Len(p.queue) <= QueueSize
  /\ call \in {ADVANCE} \cup 0 .. QueueSize - 1
  /\ answer \in Nat

LEMMA IInvInductive == Spec => []IInv
<1>1. Init => IInv
  <2>1. Len(InitialContext.queue) = 0
    BY EmptySeq DEF InitialContext
  <2>. QED
    BY <2>1, InitialWindow, QueueSizeAssumption DEF Init, IInv, UNINIT, ADVANCE
<1>2. IInv /\ [Next]_vars => IInv'
  <2>. SUFFICES ASSUME IInv, [Next]_vars PROVE IInv'
    OBVIOUS
  <2>0. /\ p \in Window /\ Len(p.queue) <= QueueSize
        /\ call \in {ADVANCE} \cup 0 .. QueueSize - 1 /\ answer \in Nat
    BY DEF IInv
  <2>q. p.queue \in Seq(Nat) /\ Len(p.queue) \in Nat /\ p.current \in Nat
    BY <2>0, LenProperties DEF Window, Context
  <2>1. CASE CallAdvance
    <3>1. p' \in Window /\ Len(p'.queue) <= Len(p.queue) /\ answer' \in Nat
      BY <2>0, <2>1, <2>q, AdvanceWindow DEF CallAdvance
    <3>2. Len(p'.queue) \in Nat
      BY <3>1, LenProperties DEF Window, Context
    <3>. QED
      BY <2>0, <2>1, <2>q, <3>1, <3>2, QueueSizeAssumption DEF IInv, CallAdvance
  <2>2. ASSUME NEW n \in 0 .. QueueSize - 1, CallPeek(n)
        PROVE  IInv'
    <3>0. n \in Nat /\ n + 1 <= QueueSize
      BY QueueSizeAssumption
    <3>1. /\ p' \in Window
          /\ answer' = p.current + n + 1
          /\ Len(p'.queue) = IF Len(p.queue) <= n THEN n + 1 ELSE Len(p.queue)
      BY <2>0, <2>2, <3>0, PeekWindow DEF CallPeek
    <3>. QED
      BY <2>0, <2>2, <2>q, <3>0, <3>1 DEF IInv, CallPeek
  <2>3. CASE UNCHANGED vars
    BY <2>0, <2>3 DEF vars, IInv
  <2>. QED
    BY <2>1, <2>2, <2>3 DEF Next
<1>. QED
  BY <1>1, <1>2, PTL DEF Spec

(* Type correctness of the window machine: in particular token_queue never *)
(* holds more than the QueueSize tokens it has slots for.                  *)
THEOREM TypeCorrect == Spec => []TypeOK
<1>1. IInv => TypeOK
  BY DEF IInv, Window, TypeOK
<1>. QED
  BY <1>1, IInvInductive, PTL

(* No token is lost, duplicated or reordered by any mix of peek() and      *)
(* advance().                                                              *)
THEOREM WindowAlwaysContiguous == Spec => []WindowIsContiguous
<1>1. IInv => WindowIsContiguous
  BY DEF IInv, Window, WindowIsContiguous
<1>. QED
  BY <1>1, IInvInductive, PTL

(* peek() and advance() implement the plain token cursor: every look-ahead *)
(* answer is the token a later advance() delivers.                         *)
THEOREM ImplementsStream == Spec => StreamSpec
<1>1. Init => Stream!Init
  BY DEF Init, Stream!Init, InitialContext, UNINIT, ADVANCE, Stream!CONSUME
<1>2. IInv /\ [Next]_vars => [Stream!Next]_<< p.current, call, answer >>
  <2>. SUFFICES ASSUME IInv, [Next]_vars
                PROVE  [Stream!Next]_<< p.current, call, answer >>
    OBVIOUS
  <2>0. p \in Window /\ p.current \in Nat
    BY DEF IInv, Window, Context
  <2>1. CASE CallAdvance
    BY <2>0, <2>1, AdvanceWindow
       DEF CallAdvance, Stream!Next, Stream!Consume, ADVANCE, Stream!CONSUME
  <2>2. ASSUME NEW n \in 0 .. QueueSize - 1, CallPeek(n)
        PROVE  Stream!Next
    <3>1. n \in Nat
      BY QueueSizeAssumption
    <3>2. Stream!Look(n)
      BY <2>0, <2>2, <3>1, PeekWindow DEF CallPeek, Stream!Look
    <3>. QED
      BY <3>2 DEF Stream!Next
  <2>3. CASE UNCHANGED vars
    BY <2>3 DEF vars
  <2>. QED
    BY <2>1, <2>2, <2>3 DEF Next
<1>. QED
  BY <1>1, <1>2, IInvInductive, PTL DEF Spec, Stream!Spec, StreamSpec
=============================================================================
