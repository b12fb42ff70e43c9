------------------------------ MODULE UpdatedAt ------------------------------
(***************************************************************************)
(* The BEFORE UPDATE trigger set_updated_at() of 01-init-primary.sql, in   *)
(* microseconds.  updated_at is the version column of every                *)
(* ReplacingMergeTree sink, so its order decides which row ClickHouse      *)
(* shows.                                                                  *)
(***************************************************************************)
EXTENDS Integers

Second == 1000000

\* clock_timestamp() with its fraction squeezed into the last 900 ms of its second.
SafeTimestamp(raw) ==
  (raw \div Second) * Second + 100000 + ((raw % Second) * 9) \div 10

NextUpdatedAt_NoBump(old, raw) == SafeTimestamp(raw)
\* The trigger: never at or before the row's previous version.
NextUpdatedAt(old, raw) ==
  IF SafeTimestamp(raw) <= old THEN old + 1 ELSE SafeTimestamp(raw)
=============================================================================
