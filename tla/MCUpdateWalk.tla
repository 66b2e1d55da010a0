---------------------------- MODULE MCUpdateWalk ----------------------------
(* The instance of UpdateWalk in which the SDK's cursor skips a row. *)
EXTENDS UpdateWalk

MCOids == 1..4

\* Pages of one row, batches of two ids, and no flush but the cursor's own.
MCSmallPages ==
  [batch : {2}, page : {1}, maxPages : {100}, sdk : {TRUE}, bodyFlushes : {FALSE}]
=============================================================================
