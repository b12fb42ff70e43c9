---------------------------- MODULE MCValidationRun ----------------------------
(* One count and one sum. *)
EXTENDS ValidationRun

CONSTANTS count, sum

CountThenSum == <<count, sum>>
=============================================================================
