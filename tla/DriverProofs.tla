---------------------------- MODULE DriverProofs -----------------------------
(***************************************************************************)
(* Proofs about a run of the program, for every command line and every     *)
(* number of reports.                                                      *)
(***************************************************************************)
EXTENDS Driver, SequenceTheorems, TLAPS

-----------------------------------------------------------------------------
(* The blocks that the compiler context owns. *)
Held ==
  {ARENA} \cup (IF cc.src = SOURCE THEN {SOURCE} ELSE {}) \cup Owned(cc.diag)

HasError(s) == \E k \in DOMAIN s : s[k].level = "error"

(* Report k has message k, and errors are counted. *)
Numbered(d) ==
  /\ \A k \in DOMAIN d.diags : d.diags[k].msg = k
  /\ d.nr_error > 0 <=> HasError(d.diags)

(* What is allocated is what the context points to, until all of it is     *)
(* freed; there are reports only of a source that was loaded.              *)
Memory ==
  /\ live = IF pc = "returned" THEN {} ELSE Held
  /\ cc.src = NULL => cc.diag = diag_init
  /\ pc = "options" => cc.src = NULL /\ cc.path = 0
  /\ pc \in {"pipeline", "flush", "free"} => cc.src = SOURCE
  /\ pc = "returned" => cc.src = NULL /\ cc.path = 0

(* The printed reports are a prefix of those made. *)
Printing ==
  /\ pc \in {"options", "pipeline"} => printed = << >>
  /\ pc # "returned" =>
       /\ Len(printed) <= Len(cc.diag.diags)
       /\ \A k \in 1 .. Len(printed) : printed[k] = cc.diag.diags[k]
  /\ pc = "free" => printed = cc.diag.diags
  /\ status = NoStatus <=> pc \in {"options", "pipeline", "flush"}

(* The inductive invariant. *)
IInv == TypeOK /\ Numbered(cc.diag) /\ Memory /\ Printing

-----------------------------------------------------------------------------
(* ALLOC_GROW() leaves room for what it is asked for, also when            *)
(* alloc_needed() wraps.                                                   *)
LEMMA GrowLeavesRoom ==
  ASSUME NEW count \in Nat, NEW allocated \in Nat
  PROVE  /\ AllocGrow(count, allocated) \in Nat
         /\ count <= AllocGrow(count, allocated)
<1>1. \A y \in Nat : Wrapped(y) \in Nat
  BY PtrdiffMaxAssumption DEF Wrapped, SIZE_MAX
<1>2. Wrapped(Wrapped(allocated + Slack) * 3) \in Nat
  <2>1. Wrapped(allocated + Slack) \in Nat
    BY <1>1, SlackAssumption
  <2>. QED
    BY <2>1, <1>1
<1>3. alloc_needed(allocated) \in Nat
  BY <1>2 DEF alloc_needed
<1>. QED
  BY <1>3 DEF AllocGrow

LEMMA InitialDiagnostics ==
  /\ diag_init \in DiagContext
  /\ diag_init.diags = << >> /\ Len(diag_init.diags) = 0 /\ diag_init.alloc = 0
  /\ Numbered(diag_init)
  /\ Owned(diag_init) = {}
<1>1. << >> \in Seq(Reports) /\ Len(<< >>) = 0 /\ DOMAIN << >> = {}
  BY EmptySeq
<1>. QED
  BY <1>1 DEF diag_init, DiagContext, Numbered, HasError, Owned

(* e is d with a report more. *)
Emits(d, level, e) ==
  /\ d \in DiagContext /\ Numbered(d) /\ Len(d.diags) < MaxReports
  /\ level \in Severity
  /\ e = diag_emit(d, level, SOURCE, Len(d.diags) + 1)

(* diag_emit() adds one report, with room for it, and owns its message.    *)
LEMMA EmitAdds ==
  ASSUME NEW d, NEW level, NEW e, Emits(d, level, e)
  PROVE  /\ e \in DiagContext /\ Numbered(e)
         /\ Len(e.diags) = Len(d.diags) + 1 /\ Len(e.diags) <= e.alloc
         /\ \A k \in 1 .. Len(d.diags) : e.diags[k] = d.diags[k]
         /\ e.diags[Len(e.diags)] \in Reports
         /\ e.diags[Len(e.diags)].msg = Len(e.diags)
         /\ e.diags = Append(d.diags, e.diags[Len(e.diags)])
         /\ Owned(e) = Owned(d) \cup {DIAGS, Len(e.diags)}
<1>. DEFINE n == Len(d.diags)
            r == [level |-> level, loc |-> SOURCE, msg |-> n + 1]
<1>0. /\ d \in DiagContext /\ Numbered(d) /\ Len(d.diags) < MaxReports
      /\ level \in Severity
      /\ e = diag_emit(d, level, SOURCE, n + 1)
  BY DEF Emits
<1>1. /\ d.diags \in Seq(Reports) /\ n \in Nat /\ DOMAIN d.diags = 1 .. n
      /\ n = Len(d.diags)
      /\ d.alloc \in Nat /\ d.nr_error \in Nat /\ d.nr_warning \in Nat
  BY <1>0, LenProperties DEF DiagContext
<1>2. r \in Reports /\ r.level = level /\ r.msg = n + 1
  BY <1>0, <1>1, BoundsAssumption DEF Reports
<1>3. /\ e.diags = Append(d.diags, r)
      /\ e.alloc = AllocGrow(n + 1, d.alloc)
      /\ e.nr_error = d.nr_error + IF level = "error" THEN 1 ELSE 0
      /\ e.nr_warning = d.nr_warning + IF level = "warning" THEN 1 ELSE 0
      /\ e = [diags |-> e.diags, alloc |-> e.alloc,
              nr_error |-> e.nr_error, nr_warning |-> e.nr_warning]
  BY <1>0 DEF diag_emit, Room
<1>. HIDE DEF n, r
<1>4. /\ e.diags \in Seq(Reports) /\ Len(e.diags) = n + 1
      /\ \A k \in 1 .. n : e.diags[k] = d.diags[k]
      /\ e.diags[n + 1] = r
      /\ DOMAIN e.diags = 1 .. n + 1
  <2>1. /\ Append(d.diags, r) \in Seq(Reports)
        /\ Len(Append(d.diags, r)) = n + 1
        /\ \A k \in 1 .. n : Append(d.diags, r)[k] = d.diags[k]
        /\ Append(d.diags, r)[n + 1] = r
    BY ONLY <1>1, <1>2, AppendProperties
  <2>2. DOMAIN Append(d.diags, r) = 1 .. n + 1
    BY ONLY <2>1, LenProperties
  <2>. QED
    BY ONLY <1>3, <2>1, <2>2
<1>5. e.alloc \in Nat /\ n + 1 <= e.alloc
  <2>1. n + 1 \in Nat /\ d.alloc \in Nat
    BY <1>1
  <2>. QED
    BY ONLY <2>1, <1>3, GrowLeavesRoom
<1>6. e \in DiagContext
  <2>1. e.nr_error \in Nat /\ e.nr_warning \in Nat
    BY ONLY <1>1, <1>3
  <2>. QED
    BY ONLY <2>1, <1>3, <1>4, <1>5 DEF DiagContext
<1>7. HasError(e.diags) <=> (HasError(d.diags) \/ level = "error")
  <2>1. \A k \in 1 .. n + 1 : k \in 1 .. n \/ k = n + 1
    BY <1>1
  <2>2. 1 .. n \subseteq 1 .. n + 1 /\ n + 1 \in 1 .. n + 1
    BY <1>1
  <2>. QED
    BY ONLY <1>1, <1>2, <1>4, <2>1, <2>2 DEF HasError
<1>8. Numbered(e)
  <2>1. \A k \in DOMAIN e.diags : e.diags[k].msg = k
    <3>1. ASSUME NEW k \in 1 .. n + 1 PROVE e.diags[k].msg = k
      <4>1. CASE k = n + 1
        BY <4>1, <1>2, <1>4
      <4>2. CASE k # n + 1
        <5>1. k \in 1 .. n
          BY <4>2, <1>1
        <5>. QED
          BY <1>0, <5>1, <1>1, <1>4 DEF Numbered
      <4>. QED
        BY <4>1, <4>2
    <3>. QED
      BY <3>1, <1>4
  <2>2. e.nr_error > 0 <=> (d.nr_error > 0 \/ level = "error")
    BY ONLY <1>1, <1>3
  <2>. QED
    BY <1>0, <2>1, <2>2, <1>7 DEF Numbered
<1>9. Owned(e) = Owned(d) \cup {DIAGS, n + 1}
  <2>1. {e.diags[k].msg : k \in DOMAIN e.diags} = 1 .. n + 1
    BY <1>4, <1>8 DEF Numbered
  <2>2. {d.diags[k].msg : k \in DOMAIN d.diags} = 1 .. n
    BY <1>0, <1>1 DEF Numbered
  <2>3. 1 .. n + 1 = 1 .. n \cup {n + 1}
    BY <1>1
  <2>4. Owned(e) = 1 .. n + 1 \cup {DIAGS}
    BY <2>1, <1>1, <1>5 DEF Owned
  <2>5. 1 .. n \subseteq Owned(d) /\ Owned(d) \subseteq 1 .. n \cup {DIAGS}
    BY <2>2 DEF Owned
  <2>. QED
    BY ONLY <2>3, <2>4, <2>5
<1>. QED
  BY <1>1, <1>2, <1>3, <1>4, <1>5, <1>6, <1>8, <1>9

-----------------------------------------------------------------------------
LEMMA InitEstablishes == Init => IInv
<1>. SUFFICES ASSUME Init PROVE IInv
  OBVIOUS
<1>1. PICK n \in 0 .. MaxArgs : args \in [1 .. n -> Argument]
  BY DEF Init
<1>2. args \in Seq(Argument) /\ Len(args) = n /\ n \in Nat
  BY <1>1, BoundsAssumption
<1>3. cc \in CompilerContext /\ cc.diag = diag_init /\ cc.src = NULL /\ cc.path = 0
  BY InitialDiagnostics, BoundsAssumption DEF Init, CompilerContext
<1>4. << >> \in Seq(Reports) /\ Len(<< >>) = 0
  BY EmptySeq
<1>5. TypeOK
  BY <1>1, <1>2, <1>3, <1>4, InitialDiagnostics, BoundsAssumption DEF Init, TypeOK
<1>6. Memory
  BY <1>3, InitialDiagnostics DEF Init, Memory, Held, NULL, SOURCE
<1>7. Printing
  BY <1>3, <1>4, InitialDiagnostics DEF Init, Printing
<1>. QED
  BY <1>3, <1>5, <1>6, <1>7, InitialDiagnostics DEF IInv

LEMMA TypesOfFields ==
  ASSUME TypeOK
  PROVE  /\ cc.path \in 0 .. MaxArgs /\ cc.src \in {NULL, SOURCE}
         /\ cc.diag \in DiagContext
         /\ cc.dump_tokens \in BOOLEAN /\ cc.dump_ast \in BOOLEAN
         /\ cc.diag.diags \in Seq(Reports) /\ Len(cc.diag.diags) \in Nat
         /\ DOMAIN cc.diag.diags = 1 .. Len(cc.diag.diags)
         /\ Len(printed) \in Nat /\ DOMAIN printed = 1 .. Len(printed)
         /\ Len(args) \in Nat /\ i \in Nat
<1>1. cc \in CompilerContext
  BY DEF TypeOK
<1>2. cc.diag \in DiagContext
  BY <1>1 DEF CompilerContext
<1>3. cc.diag.diags \in Seq(Reports)
  BY <1>2 DEF DiagContext
<1>4. printed \in Seq(Reports) /\ args \in Seq(Argument)
  BY DEF TypeOK
<1>5. Len(args) \in Nat /\ i \in Nat
  BY <1>4, LenProperties DEF TypeOK
<1>. QED
  BY <1>1, <1>2, <1>3, <1>4, <1>5, LenProperties DEF CompilerContext

(* A step of the program that leaves memory, reports and messages alone.   *)
LEMMA DieKeeps == ASSUME IInv, Die, pc \notin {"free", "returned", "dead"} PROVE IInv'
<1>1. pc' = "dead" /\ status' = 1 /\ UNCHANGED << args, i, cc, live, printed >>
  BY DEF Die
<1>2. TypeOK'
  BY <1>1 DEF IInv, TypeOK
<1>3. Memory'
  BY <1>1 DEF IInv, Memory, Held
<1>4. Printing'
  BY <1>1 DEF IInv, Printing, NoStatus
<1>. QED
  BY <1>1, <1>2, <1>3, <1>4 DEF IInv

LEMMA TakeOptionKeeps == ASSUME IInv, TakeOption PROVE IInv'
<1>1. /\ pc = "options" /\ i <= Len(args) /\ i' = i + 1
      /\ UNCHANGED << pc, args, live, shown, printed, status >>
  BY DEF TakeOption
<1>2. cc \in CompilerContext
  BY DEF IInv, TypeOK
<1>3. /\ cc' \in CompilerContext /\ cc'.diag = cc.diag
      /\ cc'.src = cc.src /\ cc'.path = cc.path
  BY <1>2 DEF TakeOption, CompilerContext
<1>4. TypeOK'
  BY <1>1, <1>3, TypesOfFields DEF IInv, TypeOK
<1>5. Memory'
  BY <1>1, <1>3 DEF IInv, Memory, Held
<1>6. Printing'
  BY <1>1, <1>3 DEF IInv, Printing
<1>. QED
  BY <1>3, <1>4, <1>5, <1>6 DEF IInv

LEMMA LoadKeeps == ASSUME IInv, Load PROVE IInv'
<1>1. /\ pc = "options" /\ i <= Len(args) /\ pc' = "pipeline"
      /\ cc' = [cc EXCEPT !.path = i, !.src = SOURCE]
      /\ live' = live \cup {SOURCE}
      /\ UNCHANGED << args, i, shown, printed, status >>
  BY DEF Load
<1>2. cc \in CompilerContext /\ i \in 0 .. MaxArgs
  BY <1>1, TypesOfFields, BoundsAssumption DEF IInv, TypeOK
<1>3. /\ cc' \in CompilerContext /\ cc'.diag = cc.diag /\ cc'.src = SOURCE
  BY <1>1, <1>2 DEF CompilerContext
<1>4. TypeOK'
  <2>1. live \subseteq {ARENA, SOURCE} \cup 0 .. MaxReports
    BY DEF IInv, TypeOK
  <2>2. live' \subseteq {ARENA, SOURCE} \cup 0 .. MaxReports
    BY <2>1, <1>1
  <2>. QED
    BY <1>1, <1>3, <2>2 DEF IInv, TypeOK
<1>5. Memory'
  <2>1. live = {ARENA} \cup Owned(cc.diag)
    BY <1>1 DEF IInv, Memory, Held, NULL, SOURCE
  <2>2. live' = Held'
    BY <1>1, <1>3, <2>1 DEF Held
  <2>. QED
    BY <1>1, <1>3, <2>2 DEF Memory, NULL, SOURCE
<1>6. Printing'
  BY <1>1, <1>3 DEF IInv, Printing
<1>. QED
  BY <1>3, <1>4, <1>5, <1>6 DEF IInv

LEMMA EmitKeeps ==
  ASSUME IInv, NEW level \in Severity, Emit(level)
  PROVE  /\ IInv'
         /\ cc'.diag.diags = Append(cc.diag.diags, cc'.diag.diags[Len(cc'.diag.diags)])
         /\ cc'.diag.diags[Len(cc'.diag.diags)] \in Reports
<1>. DEFINE e == diag_emit(cc.diag, level, SOURCE, Len(cc.diag.diags) + 1)
<1>1. /\ pc = "pipeline" /\ Len(cc.diag.diags) < MaxReports
      /\ cc' = [cc EXCEPT !.diag = e]
      /\ live' = live \cup {DIAGS, e.diags[Len(e.diags)].msg}
      /\ UNCHANGED << pc, args, i, shown, printed, status >>
  BY DEF Emit
<1>2. cc \in CompilerContext /\ TypeOK /\ Numbered(cc.diag)
  BY DEF IInv, TypeOK
<1>3. /\ e \in DiagContext /\ Numbered(e)
      /\ Len(e.diags) = Len(cc.diag.diags) + 1 /\ Len(e.diags) <= e.alloc
      /\ e.diags[Len(e.diags)] \in Reports
      /\ e.diags[Len(e.diags)].msg = Len(e.diags)
      /\ e.diags = Append(cc.diag.diags, e.diags[Len(e.diags)])
      /\ Owned(e) = Owned(cc.diag) \cup {DIAGS, Len(e.diags)}
  <2>1. cc.diag \in DiagContext
    BY <1>2, TypesOfFields
  <2>2. Emits(cc.diag, level, e)
    BY <1>1, <1>2, <2>1 DEF Emits
  <2>. HIDE DEF e
  <2>. QED
    BY <2>2, EmitAdds
<1>. HIDE DEF e
<1>4. cc' \in CompilerContext /\ cc'.diag = e /\ cc'.src = cc.src /\ cc'.path = cc.path
  BY <1>1, <1>2, <1>3 DEF CompilerContext
<1>5. TypeOK'
  <2>1. live' \subseteq {ARENA, SOURCE} \cup 0 .. MaxReports
    <3>1. Len(e.diags) \in 0 .. MaxReports /\ DIAGS \in 0 .. MaxReports
      BY <1>1, <1>2, <1>3, TypesOfFields, BoundsAssumption DEF DIAGS
    <3>2. live \subseteq {ARENA, SOURCE} \cup 0 .. MaxReports
      BY <1>2 DEF TypeOK
    <3>. QED
      BY <1>1, <1>3, <3>1, <3>2
  <2>. QED
    BY <1>1, <1>2, <1>3, <1>4, <2>1 DEF TypeOK
<1>6. cc.src = SOURCE /\ live = Held
  BY <1>1 DEF IInv, Memory
<1>7. Memory'
  <2>1. live' = Held'
    BY <1>1, <1>3, <1>4, <1>6 DEF Held
  <2>. QED
    BY <1>1, <1>4, <1>6, <2>1 DEF Memory, NULL, SOURCE
<1>8. Printing'
  <2>1. printed = << >> /\ status = NoStatus /\ Len(<< >>) = 0
    BY <1>1, EmptySeq DEF IInv, Printing
  <2>. QED
    BY <1>1, <1>2, <1>3, <1>4, <2>1, TypesOfFields DEF Printing
<1>. QED
  BY <1>3, <1>4, <1>5, <1>7, <1>8 DEF IInv

LEMMA EndPipelineKeeps == ASSUME IInv, EndPipeline PROVE IInv'
<1>1. pc = "pipeline" /\ pc' = "flush" /\ UNCHANGED << args, i, cc, live, printed, status >>
  BY DEF EndPipeline
<1>2. TypeOK'
  BY <1>1 DEF IInv, TypeOK
<1>3. Memory'
  BY <1>1 DEF IInv, Memory, Held
<1>4. Printing'
  BY <1>1 DEF IInv, Printing
<1>. QED
  BY <1>1, <1>2, <1>3, <1>4 DEF IInv

LEMMA FlushKeeps == ASSUME IInv, Flush PROVE IInv'
<1>. DEFINE n == Len(printed)
            r == cc.diag.diags[n + 1]
<1>1. /\ pc = "flush" /\ n < Len(cc.diag.diags) /\ printed' = Append(printed, r)
      /\ UNCHANGED << pc, args, i, cc, live, shown, status >>
  BY DEF Flush
<1>2. TypeOK /\ printed \in Seq(Reports)
  BY DEF IInv, TypeOK
<1>3. r \in Reports /\ n \in Nat /\ n + 1 <= Len(cc.diag.diags)
  BY <1>1, <1>2, TypesOfFields, ElementOfSeq
<1>4. /\ printed' \in Seq(Reports) /\ Len(printed') = n + 1
      /\ \A k \in 1 .. n : printed'[k] = printed[k]
      /\ printed'[n + 1] = r
  BY <1>1, <1>2, <1>3, AppendProperties
<1>5. TypeOK'
  BY <1>1, <1>2, <1>4 DEF TypeOK
<1>6. Memory'
  BY <1>1 DEF IInv, Memory, Held
<1>7. Printing'
  <2>1. \A k \in 1 .. n : printed[k] = cc.diag.diags[k]
    BY <1>1 DEF IInv, Printing
  <2>2. ASSUME NEW k \in 1 .. n + 1 PROVE printed'[k] = cc.diag.diags[k]
    <3>1. k \in 1 .. n \/ k = n + 1
      BY <1>3
    <3>. QED
      BY <3>1, <2>1, <1>4
  <2>. HIDE DEF n, r
  <2>3. status = NoStatus
    BY <1>1 DEF IInv, Printing
  <2>. QED
    BY <1>1, <1>3, <1>4, <2>2, <2>3 DEF Printing
<1>. QED
  BY <1>1, <1>5, <1>6, <1>7 DEF IInv

LEMMA SummarizeKeeps == ASSUME IInv, Summarize PROVE IInv' /\ printed = cc.diag.diags
<1>1. /\ pc = "flush" /\ Len(printed) = Len(cc.diag.diags) /\ pc' = "free"
      /\ status' \in {0, 1}
      /\ UNCHANGED << args, i, cc, live, shown, printed >>
  BY DEF Summarize
<1>2. TypeOK'
  BY <1>1 DEF IInv, TypeOK
<1>3. Memory'
  BY <1>1 DEF IInv, Memory, Held
<1>4. printed = cc.diag.diags
  <2>1. printed \in Seq(Reports) /\ cc.diag.diags \in Seq(Reports)
    BY TypesOfFields DEF IInv, TypeOK
  <2>2. \A k \in 1 .. Len(printed) : printed[k] = cc.diag.diags[k]
    BY <1>1 DEF IInv, Printing
  <2>. QED
    BY ONLY <1>1, <2>1, <2>2, SeqEqual
<1>5. Printing'
  <2>1. status' # NoStatus
    BY <1>1 DEF NoStatus
  <2>. QED
    BY <1>1, <1>4, <2>1 DEF IInv, Printing
<1>. QED
  BY <1>1, <1>2, <1>3, <1>4, <1>5 DEF IInv

LEMMA FreeKeeps == ASSUME IInv, Free PROVE IInv'
<1>1. /\ pc = "free" /\ pc' = "returned"
      /\ live' = live \ ({cc.src, ARENA} \cup Owned(cc.diag))
      /\ cc' = [cc EXCEPT !.path = 0, !.src = NULL, !.diag = diag_init]
      /\ UNCHANGED << args, i, shown, printed, status >>
  BY DEF Free, Cleared
<1>2. cc \in CompilerContext /\ TypeOK
  BY DEF IInv, TypeOK
<1>3. cc' \in CompilerContext /\ cc'.diag = diag_init /\ cc'.src = NULL /\ cc'.path = 0
  <2>1. diag_init \in DiagContext /\ 0 \in 0 .. MaxArgs
    BY InitialDiagnostics, BoundsAssumption
  <2>. QED
    BY ONLY <1>1, <1>2, <2>1 DEF CompilerContext
<1>4. live' = {}
  BY <1>1 DEF IInv, Memory, Held
<1>5. TypeOK'
  BY <1>1, <1>2, <1>3, <1>4, InitialDiagnostics DEF TypeOK
<1>6. Memory'
  BY <1>1, <1>3, <1>4 DEF Memory
<1>7. Printing'
  BY <1>1 DEF IInv, Printing
<1>. QED
  BY <1>3, <1>5, <1>6, <1>7, InitialDiagnostics DEF IInv

LEMMA StepKeeps == IInv /\ [Next]_vars => IInv'
<1>. SUFFICES ASSUME IInv, [Next]_vars PROVE IInv'
  OBVIOUS
<1>1. CASE TakeOption
  BY <1>1, TakeOptionKeeps
<1>2. CASE UnknownOption \/ NoInputFile \/ CannotLoad \/ FrontEndDies
  BY <1>2, DieKeeps DEF UnknownOption, NoInputFile, CannotLoad, FrontEndDies
<1>3. CASE Load
  BY <1>3, LoadKeeps
<1>4. ASSUME NEW level \in Severity, Emit(level) PROVE IInv'
  BY <1>4, EmitKeeps
<1>5. CASE EndPipeline
  BY <1>5, EndPipelineKeeps
<1>6. CASE Flush
  BY <1>6, FlushKeeps
<1>7. CASE Summarize
  BY <1>7, SummarizeKeeps
<1>8. CASE Free
  BY <1>8, FreeKeeps
<1>9. CASE UNCHANGED vars
  BY <1>9 DEF vars, IInv, TypeOK, Memory, Held, Printing
<1>. QED
  BY <1>1, <1>2, <1>3, <1>4, <1>5, <1>6, <1>7, <1>8, <1>9 DEF Next

LEMMA IInvInductive == Spec => []IInv
  BY InitEstablishes, StepKeeps, PTL DEF Spec

-----------------------------------------------------------------------------
(* The context keeps its types, and the reports fit in their array.        *)
THEOREM TypeCorrect == Spec => []TypeOK
<1>1. IInv => TypeOK
  BY DEF IInv
<1>. QED
  BY <1>1, IInvInductive, PTL

LEMMA OwnedIsLive ==
  ASSUME IInv
  PROVE  /\ cc.src # NULL => cc.src \in live
         /\ Owned(cc.diag) \subseteq live
         /\ cc.diag.diags # << >> => SOURCE \in live
<1>1. CASE pc = "returned"
  BY <1>1, InitialDiagnostics DEF IInv, Memory
<1>2. CASE pc # "returned"
  <2>1. live = Held /\ cc.src \in {NULL, SOURCE}
    BY <1>2, TypesOfFields DEF IInv, Memory
  <2>2. cc.src = NULL => cc.diag.diags = << >>
    BY InitialDiagnostics DEF IInv, Memory
  <2>. QED
    BY <2>1, <2>2 DEF Held
<1>. QED
  BY <1>1, <1>2

(* For every command line and every mix of reports and fatal errors: no    *)
(* pointer of the compiler context dangles, and no message is shared.      *)
THEOREM NothingEverDangles == Spec => []NothingDangles
<1>1. IInv => NothingDangles
  <2>. SUFFICES ASSUME IInv PROVE NothingDangles
    OBVIOUS
  <2>1. ASSUME NEW j \in DOMAIN cc.diag.diags
        PROVE  /\ cc.diag.diags[j].loc \in live
               /\ \A k \in DOMAIN cc.diag.diags :
                    cc.diag.diags[j].msg = cc.diag.diags[k].msg => j = k
    <3>1. cc.diag.diags[j] \in Reports /\ cc.diag.diags # << >>
      BY TypesOfFields, ElementOfSeq, EmptySeq DEF IInv
    <3>2. cc.diag.diags[j].loc = SOURCE
      BY <3>1 DEF Reports
    <3>. QED
      BY <3>1, <3>2, OwnedIsLive DEF IInv, Numbered
  <2>. QED
    BY <2>1, OwnedIsLive DEF NothingDangles
<1>. QED
  BY <1>1, IInvInductive, PTL

(* A run that returns from main() has freed every block it was given.      *)
THEOREM NothingEverLeaks == Spec => []NothingLeaks
<1>1. IInv => NothingLeaks
  BY DEF IInv, Memory, NothingLeaks
<1>. QED
  BY <1>1, IInvInductive, PTL

-----------------------------------------------------------------------------
(* An option in front of the arguments that were looked at is given. *)
Means(o, a) ==
  a \in {[dashes |-> 1, name |-> o.abbrev], [dashes |-> 2, name |-> o.name]}

LEMMA MatchesMeans ==
  ASSUME NEW a \in Argument, IsOption(a), NEW o \in Options
  PROVE  Matches(o, a) <=> Means(o, a)
<1>1. a = [dashes |-> a.dashes, name |-> a.name] /\ a.dashes \in {1, 2}
  <2>1. a = [dashes |-> a.dashes, name |-> a.name] /\ a.dashes \in 0 .. 2
    BY DEF Argument
  <2>2. a.dashes > 0
    BY DEF IsOption
  <2>. QED
    BY <2>1, <2>2
<1>. QED
  BY <1>1 DEF Matches, Means

(* The arguments that were looked at are options and set the two flags. *)
Arguments ==
  /\ \A k \in 1 .. i - 1 : IsOption(args[k])
  /\ cc.path # 0 => cc.path = i /\ ~ IsOption(args[i])
  /\ \A o \in Options :
       Given(o) <=> IF o.abbrev = "t" THEN cc.dump_tokens ELSE cc.dump_ast

(* What orn_run_pipeline() prints. *)
Chosen == IF cc.dump_tokens THEN "tokens"
          ELSE IF cc.dump_ast THEN "ast" ELSE "nothing"

ShownIsChosen ==
  shown = IF pc \in {"flush", "free", "returned"} THEN Chosen ELSE "nothing"

Obedience == Arguments /\ ShownIsChosen

(* The flags say what is asked for. *)
LEMMA FlagsTell ==
  ASSUME Arguments PROVE Asked = Chosen
<1>. DEFINE given == {o.name : o \in {p \in Options : Given(p)}}
            t == [abbrev |-> "t", name |-> "dump-tokens"]
            a == [abbrev |-> "a", name |-> "dump-ast"]
<1>1. Options = {t, a} /\ t.name = "dump-tokens" /\ a.name = "dump-ast"
  BY DEF Options
<1>2. (Given(t) <=> cc.dump_tokens) /\ (Given(a) <=> cc.dump_ast)
  BY DEF Arguments, Options
<1>3. Asked = CASE "dump-tokens" \in given -> "tokens"
              [] given = {"dump-ast"} -> "ast"
              [] given = {} -> "nothing"
  BY DEF Asked
<1>4. /\ Given(t) => "dump-tokens" \in given
      /\ ~ Given(t) => "dump-tokens" \notin given
      /\ ~ Given(t) /\ Given(a) => given = {"dump-ast"}
      /\ ~ Given(t) /\ ~ Given(a) => given = {}
  BY <1>1
<1>. HIDE DEF given, t, a
<1>5. CASE Given(t)
  <2>1. "dump-tokens" \in given /\ given # {} /\ given # {"dump-ast"}
    BY <1>4, <1>5
  <2>. QED
    BY ONLY <2>1, <1>2, <1>3, <1>5 DEF Chosen
<1>6. CASE ~ Given(t) /\ Given(a)
  <2>1. "dump-tokens" \notin given /\ given = {"dump-ast"} /\ given # {}
    BY <1>4, <1>6
  <2>. QED
    BY ONLY <2>1, <1>2, <1>3, <1>6 DEF Chosen
<1>7. CASE ~ Given(t) /\ ~ Given(a)
  <2>1. "dump-tokens" \notin given /\ given = {} /\ given # {"dump-ast"}
    BY <1>4, <1>7
  <2>. QED
    BY ONLY <2>1, <1>2, <1>3, <1>7 DEF Chosen
<1>. QED
  BY <1>5, <1>6, <1>7

LEMMA TakeOptionObeys ==
  ASSUME IInv, Obedience, TakeOption
  PROVE  Obedience'
<1>1. /\ pc = "options" /\ i <= Len(args) /\ i' = i + 1 /\ IsOption(args[i])
      /\ UNCHANGED << pc, args, shown >> /\ shown = "nothing"
  BY DEF TakeOption, Obedience, ShownIsChosen
<1>2. PICK o \in Options :
        /\ Matches(o, args[i])
        /\ cc' = IF o.abbrev = "t" THEN [cc EXCEPT !.dump_tokens = TRUE]
                 ELSE [cc EXCEPT !.dump_ast = TRUE]
  BY DEF TakeOption
<1>3. i \in Nat /\ i \in 1 .. Len(args) /\ args[i] \in Argument
  BY <1>1, TypesOfFields, ElementOfSeq DEF IInv, TypeOK
<1>4. cc \in CompilerContext /\ cc.path = 0
  BY <1>1 DEF IInv, TypeOK, Memory
<1>5. /\ cc'.path = 0
      /\ cc'.dump_tokens = (cc.dump_tokens \/ o.abbrev = "t")
      /\ cc'.dump_ast = (cc.dump_ast \/ o.abbrev # "t")
  BY <1>2, <1>4 DEF CompilerContext
<1>6. 1 .. i' - 1 = 1 .. i - 1 \cup {i}
  BY <1>1, <1>3
<1>7. ASSUME NEW q \in Options
      PROVE  Given(q)' <=> (Given(q) \/ q = o)
  <2>1. Given(q)' <=> (Given(q) \/ Means(q, args[i]))
    BY <1>1, <1>6 DEF Given, Means
  <2>2. Means(q, args[i]) <=> Matches(q, args[i])
    BY <1>1, <1>3, MatchesMeans
  <2>3. Matches(q, args[i]) <=> q = o
    BY <1>2 DEF Matches, Options
  <2>. QED
    BY <2>1, <2>2, <2>3
<1>8. \A q \in Options :
        Given(q)' <=> IF q.abbrev = "t" THEN cc'.dump_tokens ELSE cc'.dump_ast
  <2>. SUFFICES ASSUME NEW q \in Options
                PROVE  Given(q)' <=> IF q.abbrev = "t" THEN cc'.dump_tokens ELSE cc'.dump_ast
    OBVIOUS
  <2>1. Given(q) <=> IF q.abbrev = "t" THEN cc.dump_tokens ELSE cc.dump_ast
    BY DEF Obedience, Arguments
  <2>2. q = o <=> ((q.abbrev = "t") <=> (o.abbrev = "t"))
    BY DEF Options
  <2>. QED
    BY <1>5, <1>7, <2>1, <2>2
<1>9. \A k \in 1 .. i' - 1 : IsOption(args'[k])
  BY <1>1, <1>6 DEF Obedience, Arguments
<1>10. ShownIsChosen'
  BY <1>1 DEF ShownIsChosen
<1>. QED
  BY <1>5, <1>8, <1>9, <1>10 DEF Obedience, Arguments

(* What the steps after parse_options() leave alone. *)
LEMMA OtherStepsObey ==
  ASSUME Arguments, ShownIsChosen', UNCHANGED << args, i >>,
         cc'.dump_tokens = cc.dump_tokens, cc'.dump_ast = cc.dump_ast,
         cc'.path # 0 => cc'.path = i /\ ~ IsOption(args[i])
  PROVE  Obedience'
<1>1. \A o \in Options : Given(o)' <=> Given(o)
  BY DEF Given
<1>2. \A o \in Options :
        Given(o) <=> IF o.abbrev = "t" THEN cc.dump_tokens ELSE cc.dump_ast
  BY DEF Arguments
<1>3. \A o \in Options : o.abbrev \in {"t", "a"}
  BY DEF Options
<1>4. \A k \in 1 .. i' - 1 : IsOption(args'[k])
  BY DEF Arguments
<1>. QED
  BY <1>1, <1>2, <1>3, <1>4 DEF Obedience, Arguments

(* For every command line: the options in front of the first other         *)
(* argument decide, and they alone, what is printed of the program, and    *)
(* that argument is the file that is compiled.                             *)
THEOREM CommandIsAlwaysObeyed == Spec => []CommandIsObeyed
<1>1. Init => Obedience
  <2>. SUFFICES ASSUME Init PROVE Obedience
    OBVIOUS
  <2>1. /\ i = 1 /\ pc = "options" /\ cc.path = 0 /\ shown = "nothing"
        /\ cc.dump_tokens = FALSE /\ cc.dump_ast = FALSE
    BY DEF Init
  <2>2. 1 .. i - 1 = {}
    BY <2>1
  <2>. QED
    BY <2>1, <2>2 DEF Obedience, Arguments, ShownIsChosen, Given
<1>2. IInv /\ Obedience /\ [Next]_vars => Obedience'
  <2>. SUFFICES ASSUME IInv, Obedience, [Next]_vars PROVE Obedience'
    OBVIOUS
  <2>o. /\ Arguments /\ ShownIsChosen /\ cc \in CompilerContext
        /\ cc.path # 0 => cc.path = i /\ ~ IsOption(args[i])
    BY DEF Obedience, Arguments, IInv, TypeOK
  <2>1. CASE TakeOption
    BY <2>1, <2>o, TakeOptionObeys
  <2>2. CASE UnknownOption \/ NoInputFile \/ CannotLoad \/ FrontEndDies
    <3>1. /\ pc \in {"options", "pipeline"} /\ pc' = "dead"
          /\ UNCHANGED << args, i, cc, shown >>
      BY <2>2 DEF UnknownOption, NoInputFile, CannotLoad, FrontEndDies, Die
    <3>2. ShownIsChosen'
      BY <3>1, <2>o DEF ShownIsChosen
    <3>. QED
      BY <3>1, <3>2, <2>o, OtherStepsObey
  <2>3. CASE Load
    <3>1. /\ pc = "options" /\ pc' = "pipeline" /\ UNCHANGED << args, i, shown >>
          /\ ~ IsOption(args[i])
          /\ cc'.path = i
          /\ cc'.dump_tokens = cc.dump_tokens /\ cc'.dump_ast = cc.dump_ast
      BY <2>3, <2>o DEF Load, CompilerContext
    <3>2. ShownIsChosen'
      BY <3>1, <2>o DEF ShownIsChosen
    <3>. QED
      BY <3>1, <3>2, <2>o, OtherStepsObey
  <2>4. ASSUME NEW level \in Severity, Emit(level) PROVE Obedience'
    <3>1. /\ pc = "pipeline" /\ pc' = "pipeline" /\ UNCHANGED << args, i, shown >>
          /\ cc'.path = cc.path
          /\ cc'.dump_tokens = cc.dump_tokens /\ cc'.dump_ast = cc.dump_ast
      BY <2>4, <2>o DEF Emit, CompilerContext
    <3>2. ShownIsChosen'
      BY <3>1, <2>o DEF ShownIsChosen
    <3>. QED
      BY <3>1, <3>2, <2>o, OtherStepsObey
  <2>5. CASE EndPipeline
    <3>1. UNCHANGED << args, i, cc >> /\ ShownIsChosen'
      BY <2>5 DEF EndPipeline, ShownIsChosen, Chosen
    <3>. QED
      BY <3>1, <2>o, OtherStepsObey
  <2>6. CASE Flush \/ Summarize
    <3>1. UNCHANGED << args, i, cc >> /\ ShownIsChosen'
      BY <2>6, <2>o DEF Flush, Summarize, ShownIsChosen, Chosen
    <3>. QED
      BY <3>1, <2>o, OtherStepsObey
  <2>7. CASE Free
    <3>1. /\ pc = "free" /\ UNCHANGED << args, i, shown >> /\ cc'.path = 0
          /\ cc'.dump_tokens = cc.dump_tokens /\ cc'.dump_ast = cc.dump_ast
      BY <2>7, <2>o DEF Free, Cleared, CompilerContext
    <3>2. ShownIsChosen'
      BY <2>7, <3>1, <2>o DEF Free, ShownIsChosen, Chosen
    <3>. QED
      BY <3>1, <3>2, <2>o, OtherStepsObey
  <2>8. CASE UNCHANGED vars
    BY <2>8 DEF vars, Obedience, Arguments, ShownIsChosen, Chosen, Given
  <2>. QED
    BY <2>1, <2>2, <2>3, <2>4, <2>5, <2>6, <2>7, <2>8 DEF Next
<1>3. Obedience => CommandIsObeyed
  BY FlagsTell DEF Obedience, Arguments, ShownIsChosen, CommandIsObeyed
<1>. QED
  BY <1>1, <1>2, <1>3, IInvInductive, PTL DEF Spec

-----------------------------------------------------------------------------
(* What Compilation calls the reports and the status. *)
Told == IF pc \in {"free", "returned"} THEN printed ELSE cc.diag.diags

Outcome == IF pc = "dead" THEN 2 ELSE status

(* A run implements Compilation: whatever the front end does, the reports  *)
(* are printed once and in order, and the status is 0 only of a run that   *)
(* printed all of them and had no error.                                   *)
THEOREM ImplementsCompilation == Spec => CompilationSpec
<1>1. Init => Promise!Init
  <2>. SUFFICES ASSUME Init PROVE Promise!Init
    OBVIOUS
  <2>1. pc = "options" /\ printed = << >> /\ cc.diag = diag_init /\ status = NoStatus
    BY DEF Init
  <2>. QED
    BY <2>1, InitialDiagnostics DEF Promise!Init
<1>2. IInv /\ [Next]_vars => [Promise!Next]_<< Told, printed, Outcome >>
  <2>. SUFFICES ASSUME IInv, [Next]_vars
                PROVE  [Promise!Next]_<< Told, printed, Outcome >>
    OBVIOUS
  <2>i. IInv'
    BY StepKeeps
  <2>1. CASE TakeOption
    <3>1. pc = "options" /\ UNCHANGED << pc, printed, status >> /\ cc'.diag = cc.diag
      <4>1. cc \in CompilerContext
        BY DEF IInv, TypeOK
      <4>. QED
        BY <2>1, <4>1 DEF TakeOption, CompilerContext
    <3>. QED
      BY <3>1 DEF Told, Outcome
  <2>2. CASE UnknownOption \/ NoInputFile \/ CannotLoad \/ FrontEndDies
    <3>1. pc \in {"options", "pipeline"} /\ pc' = "dead" /\ UNCHANGED << cc, printed >>
      BY <2>2 DEF UnknownOption, NoInputFile, CannotLoad, FrontEndDies, Die
    <3>2. status = NoStatus
      BY <3>1 DEF IInv, Printing
    <3>. QED
      BY <3>1, <3>2 DEF Promise!Next, Promise!Abort, Told, Outcome
  <2>3. CASE Load
    <3>1. /\ pc = "options" /\ pc' = "pipeline" /\ UNCHANGED << printed, status >>
          /\ cc'.diag = cc.diag
      <4>1. cc \in CompilerContext
        BY DEF IInv, TypeOK
      <4>. QED
        BY <2>3, <4>1 DEF Load, CompilerContext
    <3>. QED
      BY <3>1 DEF Told, Outcome
  <2>4. ASSUME NEW level \in Severity, Emit(level)
        PROVE  Promise!Report
    <3>1. pc = "pipeline" /\ UNCHANGED << pc, printed, status >>
      BY <2>4 DEF Emit
    <3>2. printed = << >> /\ status = NoStatus
      BY <3>1 DEF IInv, Printing
    <3>3. PICK r \in Reports : cc'.diag.diags = Append(cc.diag.diags, r)
      BY <2>4, EmitKeeps
    <3>. QED
      BY <3>1, <3>2, <3>3 DEF Promise!Report, Told, Outcome
  <2>5. CASE EndPipeline
    BY <2>5 DEF EndPipeline, Told, Outcome
  <2>6. CASE Flush
    <3>1. /\ pc = "flush" /\ UNCHANGED << pc, cc, status >>
          /\ Len(printed) < Len(cc.diag.diags)
          /\ printed' = Append(printed, cc.diag.diags[Len(printed) + 1])
      BY <2>6 DEF Flush
    <3>2. status = NoStatus
      BY <3>1 DEF IInv, Printing
    <3>3. Promise!Show
      BY <3>1, <3>2 DEF Promise!Show, Told, Outcome
    <3>. QED
      BY <3>3 DEF Promise!Next
  <2>7. CASE Summarize
    <3>1. /\ pc = "flush" /\ pc' = "free" /\ UNCHANGED << cc, printed >>
          /\ status' = IF diag_has_errors(cc.diag) THEN 1 ELSE 0
      BY <2>7 DEF Summarize
    <3>2. status = NoStatus
      BY <3>1 DEF IInv, Printing
    <3>3. printed = cc.diag.diags
      BY <2>7, SummarizeKeeps
    <3>4. diag_has_errors(cc.diag) <=> HasError(cc.diag.diags)
      BY DEF IInv, Numbered, diag_has_errors
    <3>5. Promise!Finish
      BY <3>1, <3>2, <3>3, <3>4 DEF Promise!Finish, Told, Outcome, HasError
    <3>. QED
      BY <3>5 DEF Promise!Next
  <2>8. CASE Free
    BY <2>8 DEF Free, Told, Outcome
  <2>9. CASE UNCHANGED vars
    BY <2>9 DEF vars, Told, Outcome
  <2>. QED
    BY <2>1, <2>2, <2>3, <2>4, <2>5, <2>6, <2>7, <2>8, <2>9 DEF Next, Promise!Next
<1>. QED
  BY <1>1, <1>2, IInvInductive, PTL
  DEF Spec, CompilationSpec, Promise!Spec, Told, Outcome
=============================================================================
