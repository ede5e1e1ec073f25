---------------------------- MODULE MCFmsIngest ----------------------------
(* A small instance of FmsIngest: one recent package of two lines, so that *)
(* a failure or the other service can come between them; a package refresh *)
(* in the scheduler, and in the admin service a one-off run, which has no  *)
(* fms_package_write_mode, or a backfill.                                  *)
EXTENDS FmsIngest, TLC

CONSTANTS scheduler, admin

OneMonth == {1}
TwoLines == 1 :> 2
OneMonthTasks ==
  scheduler :> {[mode |-> "full", months |-> {1}]} @@
  admin :> {[mode |-> m, months |-> {1}] : m \in {"incremental", "backfill"}}

=============================================================================
