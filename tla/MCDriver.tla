------------------------------ MODULE MCDriver -------------------------------
(* TLC instance of Driver: all command lines of up to three arguments, of  *)
(* known and unknown options, "-", "--", "" and a word.                    *)
EXTENDS Driver

Words == {"", "t", "a", "dump-tokens", "dump-ast"}
=============================================================================
