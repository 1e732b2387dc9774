------------------------------- MODULE Driver --------------------------------
(***************************************************************************)
(* A run of the program: main.c, driver/orn.c, driver/compiler.c and       *)
(* support/parse-options.c, with the reports of diagnostic.c.              *)
(*                                                                         *)
(* The lexer and the parser have modules of their own; here they make      *)
(* whatever reports the interface of diag_emit() takes, or end the         *)
(* program.  An argument is its leading dashes, two at most, and the rest. *)
(***************************************************************************)
EXTENDS Diagnostics

CONSTANTS Names,        \* what follows the dashes of an argument
          MaxArgs,      \* bound: arguments
          MaxReports    \* bound: reports of a run

ASSUME BoundsAssumption == MaxArgs \in Nat /\ MaxReports \in Nat

VARIABLES pc,
          args,         \* argv[1 .. argc - 1]
          i,            \* of parse_options(), the next argument
          cc,           \* struct compiler_context
          live,         \* the blocks of memory that were not freed
          shown,        \* what orn_run_pipeline() printed of the program, in full
          printed,      \* the reports on stderr
          status        \* the exit status

vars == << pc, args, i, cc, live, shown, printed, status >>

(* Pointers; those to messages are above DIAGS. *)
NULL   == -3
ARENA  == -2
SOURCE == -1

NoStatus == -1

Argument == [dashes : 0 .. 2, name : Names]

-----------------------------------------------------------------------------
Options == {[abbrev |-> "t", name |-> "dump-tokens"],
            [abbrev |-> "a", name |-> "dump-ast"]}

(* parse_options() stops at a word, at "", at "-" and at "--". *)
IsOption(a) == a.dashes > 0 /\ a.name # ""

Matches(o, a) == a.name = IF a.dashes = 2 THEN o.name ELSE o.abbrev

Init ==
  /\ pc = "options"
  /\ args \in UNION {[1 .. n -> Argument] : n \in 0 .. MaxArgs}
  /\ i = 1
  /\ cc = [path |-> 0, src |-> NULL, diag |-> diag_init,
           dump_tokens |-> FALSE, dump_ast |-> FALSE]
  /\ live = {ARENA}
  /\ shown = "nothing"
  /\ printed = << >>
  /\ status = NoStatus

(* die() and BUG(): no report is printed, no block is freed. *)
Die ==
  /\ pc' = "dead" /\ status' = 1
  /\ UNCHANGED << args, i, cc, live, shown, printed >>

(* One turn of the loop of parse_options(). *)
TakeOption ==
  /\ pc = "options" /\ i <= Len(args) /\ IsOption(args[i])
  /\ \E o \in Options :
       /\ Matches(o, args[i])
       /\ cc' = IF o.abbrev = "t" THEN [cc EXCEPT !.dump_tokens = TRUE]
                ELSE [cc EXCEPT !.dump_ast = TRUE]
  /\ i' = i + 1
  /\ UNCHANGED << pc, args, live, shown, printed, status >>

UnknownOption ==
  /\ pc = "options" /\ i <= Len(args) /\ IsOption(args[i])
  /\ \A o \in Options : ~ Matches(o, args[i])
  /\ Die

NoInputFile == pc = "options" /\ i > Len(args) /\ Die

(* compiler_load(); the file may be missing, or there is no memory. *)
Load ==
  /\ pc = "options" /\ i <= Len(args) /\ ~ IsOption(args[i])
  /\ pc' = "pipeline"
  /\ cc' = [cc EXCEPT !.path = i, !.src = SOURCE]
  /\ live' = live \cup {SOURCE}
  /\ UNCHANGED << args, i, shown, printed, status >>

CannotLoad ==
  pc = "options" /\ i <= Len(args) /\ ~ IsOption(args[i]) /\ Die

(* A report of the lexer or the parser. *)
Emit(level) ==
  LET d == diag_emit(cc.diag, level, SOURCE, Len(cc.diag.diags) + 1)
  IN  /\ pc = "pipeline" /\ Len(cc.diag.diags) < MaxReports
      /\ Allocable(d.alloc, 1)
      /\ cc' = [cc EXCEPT !.diag = d]
      /\ live' = live \cup {DIAGS, d.diags[Len(d.diags)].msg}
      /\ UNCHANGED << pc, args, i, shown, printed, status >>

(* No memory in the lexer or the parser, or a BUG(). *)
FrontEndDies == pc = "pipeline" /\ Die

(* Mutant of EndPipeline: it prints the tree without being asked to. *)
EndPipelineWithTree ==
  /\ pc = "pipeline"
  /\ shown' = IF cc.dump_tokens THEN "tokens" ELSE "ast"
  /\ pc' = "flush"
  /\ UNCHANGED << args, i, cc, live, printed, status >>

(* orn_run_pipeline() returns; of two dumps it makes that of the tokens. *)
EndPipeline ==
  /\ pc = "pipeline"
  /\ shown' = IF cc.dump_tokens THEN "tokens"
              ELSE IF cc.dump_ast THEN "ast" ELSE "nothing"
  /\ pc' = "flush"
  /\ UNCHANGED << args, i, cc, live, printed, status >>

(* One turn of the loop of diag_flush(). *)
Flush ==
  /\ pc = "flush" /\ Len(printed) < Len(cc.diag.diags)
  /\ printed' = Append(printed, cc.diag.diags[Len(printed) + 1])
  /\ UNCHANGED << pc, args, i, cc, live, shown, status >>

(* The last lines of orn_cmd_parse(). *)
Summarize ==
  /\ pc = "flush" /\ Len(printed) = Len(cc.diag.diags)
  /\ status' = IF diag_has_errors(cc.diag) THEN 1 ELSE 0
  /\ pc' = "free"
  /\ UNCHANGED << args, i, cc, live, shown, printed >>

(* Mutant of Cleared: diag_free() without its memset(). *)
ClearedFile == [cc EXCEPT !.path = 0, !.src = NULL]

Cleared == [cc EXCEPT !.path = 0, !.src = NULL, !.diag = diag_init]

(* compiler_free(), and main() returns. *)
Free ==
  /\ pc = "free"
  /\ live' = live \ ({cc.src, ARENA} \cup Owned(cc.diag))
  /\ cc' = Cleared
  /\ pc' = "returned"
  /\ UNCHANGED << args, i, shown, printed, status >>

Next ==
  \/ TakeOption \/ UnknownOption \/ NoInputFile
  \/ Load \/ CannotLoad
  \/ (\E level \in Severity : Emit(level)) \/ FrontEndDies \/ EndPipeline
  \/ Flush \/ Summarize \/ Free

Spec == Init /\ [][Next]_vars

-----------------------------------------------------------------------------
Reports == [level : Severity, loc : {SOURCE}, msg : 1 .. MaxReports]

DiagContext ==
  [diags : Seq(Reports), alloc : Nat, nr_error : Nat, nr_warning : Nat]

CompilerContext ==
  [path : 0 .. MaxArgs, src : {NULL, SOURCE}, diag : DiagContext,
   dump_tokens : BOOLEAN, dump_ast : BOOLEAN]

(* Types; the array of the reports has room for all of them. *)
TypeOK ==
  /\ pc \in {"options", "pipeline", "flush", "free", "returned", "dead"}
  /\ args \in Seq(Argument) /\ Len(args) <= MaxArgs
  /\ i \in 1 .. Len(args) + 1
  /\ cc \in CompilerContext
  /\ Len(cc.diag.diags) <= cc.diag.alloc
  /\ live \subseteq {ARENA, SOURCE} \cup 0 .. MaxReports
  /\ printed \in Seq(Reports)
  /\ status \in {NoStatus, 0, 1}

(* No pointer of the compiler context and none of a report that is still   *)
(* to be printed is to a block that was freed, and no two reports share a  *)
(* message: freeing them frees each once.                                  *)
NothingDangles ==
  /\ cc.src # NULL => cc.src \in live
  /\ Owned(cc.diag) \subseteq live
  /\ \A j \in DOMAIN cc.diag.diags :
       /\ cc.diag.diags[j].loc \in live
       /\ \A k \in DOMAIN cc.diag.diags :
            cc.diag.diags[j].msg = cc.diag.diags[k].msg => j = k

(* A run that returns from main() has freed every block. *)
NothingLeaks == pc = "returned" => live = {}

(* Option o stands among the arguments that were looked at. *)
Given(o) == \E k \in 1 .. i - 1 :
  args[k] \in {[dashes |-> 1, name |-> o.abbrev], [dashes |-> 2, name |-> o.name]}

(* What a run is to print of the program: the tokens if they are asked     *)
(* for, else the tree if it is, else nothing.                              *)
Asked ==
  LET given == {o.name : o \in {p \in Options : Given(p)}}
  IN  CASE "dump-tokens" \in given -> "tokens"
        [] given = {"dump-ast"}     -> "ast"
        [] given = {}               -> "nothing"

(* The arguments in front of the first that is no option decide, and they  *)
(* alone, what is printed of the program: all of it once the pipeline has  *)
(* run and nothing before or in a run that dies.  That first argument is   *)
(* the file that is compiled.                                              *)
CommandIsObeyed ==
  /\ \A k \in 1 .. i - 1 : IsOption(args[k])
  /\ cc.path # 0 => cc.path = i /\ ~ IsOption(args[i])
  /\ shown = IF pc \in {"flush", "free", "returned"} THEN Asked ELSE "nothing"

(* A run prints its reports as Compilation says, and its status tells a    *)
(* program without errors from one with some.  Once all reports are        *)
(* printed, what was reported is what was printed; a fatal error is told   *)
(* apart from status 1.                                                    *)
Promise == INSTANCE Compilation WITH
  reports <- IF pc \in {"free", "returned"} THEN printed ELSE cc.diag.diags,
  status <- IF pc = "dead" THEN 2 ELSE status,
  NotYet <- NoStatus, Fatal <- 2

CompilationSpec == Promise!Spec
=============================================================================
