---------------------------- MODULE MCCdcPipeline ----------------------------
(* One table with a few rows; clock readings at both ends of a second. *)
EXTENDS CdcPipeline

\* The end of a second, whose safe timestamp is its last microsecond, and the
\* start of the next; the clock may step back from one to the other.
AroundASecond == {1999999, 2000000}
=============================================================================
