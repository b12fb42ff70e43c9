------------------------- MODULE MCValidationExporter -------------------------
(* Two request threads whose refreshes may overlap. *)
EXTENDS ValidationExporter
=============================================================================
