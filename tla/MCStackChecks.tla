----------------------------- MODULE MCStackChecks -----------------------------
(* The three scripts, with room for one resubmission. *)
EXTENDS StackChecks
=============================================================================
