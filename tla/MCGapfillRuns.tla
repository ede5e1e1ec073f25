---------------------------- MODULE MCGapfillRuns ----------------------------
(* A small instance of GapfillRuns: of three tables one lacks a column;    *)
(* the post-run script with the configured list, and by hand a dry run, a  *)
(* window, a disabled job, an unknown table and an --end without --start.  *)
EXTENDS GapfillRuns

CONSTANTS load, prices, flows, bogus

ThreeTables == {load, prices, flows}
AllNames    == ThreeTables \cup {bogus}
BrokenOnes  == {prices}
Defaults    == <<load, flows>>

Scheduled ==
  [tables |-> Unset, configured |-> <<prices, load, flows>>, enable |-> TRUE,
   strict |-> TRUE, dry |-> FALSE, window |-> "none"]

PostRun == {Scheduled}

Calls ==
  PostRun \cup
  {[Scheduled EXCEPT !.tables = <<load>>, !.dry = TRUE],
   [Scheduled EXCEPT !.tables = <<load>>, !.window = "start"],
   [Scheduled EXCEPT !.tables = <<load, bogus>>],
   [Scheduled EXCEPT !.window = "end only"],
   [Scheduled EXCEPT !.configured = Unset],
   [Scheduled EXCEPT !.strict = FALSE, !.configured = <<prices>>],
   [Scheduled EXCEPT !.enable = FALSE]}

=============================================================================
