----------------------------- MODULE Compilation -----------------------------
(***************************************************************************)
(* What a run of the compiler promises to its user: the reports are        *)
(* printed in the order they were made, each once, and the exit status is  *)
(* zero only after all of them are and none is an error.  A fatal error    *)
(* ends the run at any point.                                              *)
(***************************************************************************)
EXTENDS Naturals, Sequences

CONSTANTS Reports,      \* what may be reported
          NotYet, Fatal \* no exit status; that of a fatal error

VARIABLES reports, printed, status

Init == reports = << >> /\ printed = << >> /\ status = NotYet

Report ==
  /\ status = NotYet /\ printed = << >>
  /\ \E r \in Reports : reports' = Append(reports, r)
  /\ UNCHANGED << printed, status >>

Show ==
  /\ status = NotYet /\ Len(printed) < Len(reports)
  /\ printed' = Append(printed, reports[Len(printed) + 1])
  /\ UNCHANGED << reports, status >>

Finish ==
  /\ status = NotYet /\ printed = reports
  /\ status' = IF \E i \in DOMAIN reports : reports[i].level = "error" THEN 1 ELSE 0
  /\ UNCHANGED << reports, printed >>

Abort == status = NotYet /\ status' = Fatal /\ UNCHANGED << reports, printed >>

Next == Report \/ Show \/ Finish \/ Abort

Spec == Init /\ [][Next]_<< reports, printed, status >>
=============================================================================
