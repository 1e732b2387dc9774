----------------------------- MODULE Diagnostics -----------------------------
(***************************************************************************)
(* The reports of src/src/frontend/diagnostic.c: a context collects them   *)
(* in an array that grows, with a message of its own each and a pointer    *)
(* into the source.  A pointer is the name of a block of memory.           *)
(***************************************************************************)
EXTENDS Wrapper, Sequences

Severity == {"note", "warning", "error"}

(* The block of the array; those of the messages are other numbers. *)
DIAGS == 0

diag_init == [diags |-> << >>, alloc |-> 0, nr_error |-> 0, nr_warning |-> 0]

(* Mutant of Room: none for the new report. *)
RoomForOld(d) == AllocGrow(Len(d.diags), d.alloc)

Room(d) == AllocGrow(Len(d.diags) + 1, d.alloc)

(* diag_emit(): the message is what str_buf_detach() returns, a block of   *)
(* its own.                                                                *)
diag_emit(d, level, loc, msg) ==
  [diags |-> Append(d.diags, [level |-> level, loc |-> loc, msg |-> msg]),
   alloc |-> Room(d),
   nr_error |-> d.nr_error + IF level = "error" THEN 1 ELSE 0,
   nr_warning |-> d.nr_warning + IF level = "warning" THEN 1 ELSE 0]

(* Mutant of Owned: diag_free() without its loop. *)
OwnedArray(d) == IF d.alloc > 0 THEN {DIAGS} ELSE {}

(* What diag_free() frees, before it clears the context. *)
Owned(d) ==
  {d.diags[i].msg : i \in DOMAIN d.diags} \cup IF d.alloc > 0 THEN {DIAGS} ELSE {}

(* Mutant of diag_has_errors: warnings count. *)
HasReports(d) == d.nr_error + d.nr_warning > 0

diag_has_errors(d) == d.nr_error > 0
=============================================================================
