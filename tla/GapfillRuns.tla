----------------------------- MODULE GapfillRuns -----------------------------
(***************************************************************************)
(* scripts/gapfill_timeseries.py and run_gapfill_job of                    *)
(* scripts/lib/gapfiller/db.py: a run over several tables, and what        *)
(* gapfill_runs, gapfill_metrics and its exit code say of it.  The runs    *)
(* take turns; what happens within one table, and when runs overlap, is in *)
(* GapfillTracking.  Here the content of a table is a number, the revision *)
(* of the source that it shows, and 0 is a table that does not exist.      *)
(***************************************************************************)
EXTENDS Integers, Sequences

CONSTANTS Names,        \* what a list of tables can name
          Tables,       \* the tables that ENTSOE_FMS_TABLES knows
          Broken,       \* those whose source lacks a configured column
          DefaultTables,\* DEFAULT_POSTRUN_TABLES
          Invocations,  \* how the script is called, and with which config
          Repeated,     \* those among them that are called again and again
          MaxRevision,  \* a bound on the revisions of a source table
          Unset         \* an argument or a key that is not there

Revisions == 0 .. MaxRevision

(* The arguments of the command line, and what the configuration adds.     *)
InvocationType ==
  [tables : {Unset} \cup Seq(Names), configured : {Unset} \cup Seq(Names), enable : BOOLEAN,
   strict : BOOLEAN, dry : BOOLEAN, window : {"none", "start", "end only"}]

ASSUME GapfillRunsAssumption ==
  /\ MaxRevision \in Nat \ {0} /\ Unset \notin {0, 1}
  /\ Tables \subseteq Names /\ Broken \subseteq Tables
  /\ DefaultTables \in Seq(Tables)
  /\ Invocations \subseteq InvocationType /\ Repeated \subseteq Invocations

VARIABLES
  source,   \* the revision of each source table
  target,   \* the revision that the target table shows
  tracking, \* last_update_time, 0 for none
  row,      \* the row of the latest run in gapfill_runs
  metrics,  \* and its rows in gapfill_metrics: <<table, status>>
  pc,       \* where the process of the run is
  local,    \* and what it knows
  exit      \* its exit code, Unset while it runs

vars == <<source, target, tracking, row, metrics, pc, local, exit>>
data == <<source, target, tracking>>

(* load_job_from_crawler_config: the tables of the command line, of the    *)
(* configuration, or the built-in list.                                    *)
Selected(i) ==
  IF i.tables # Unset THEN i.tables
  ELSE IF i.configured # Unset THEN i.configured ELSE DefaultTables

(* select_tables knows every name, and --end comes with --start; otherwise *)
(* the script ends before it connects.                                     *)
Accepted(i) ==
  /\ \A n \in 1 .. Len(Selected(i)) : Selected(i)[n] \in Tables
  /\ i.window # "end only"

(* Of a run: its invocation, the tables ahead of it, last_update_time as   *)
(* it was read, the max_update_time of the window and the rows read, and   *)
(* how many tables failed.                                                 *)
Fresh(i) == [inv |-> i, todo |-> Selected(i), seen |-> 0, max |-> 0, rows |-> 0, failed |-> 0]

(* A row in gapfill_runs.  That of an earlier run is never written again.  *)
(* since is no column: the sources as they were when the run began.        *)
Row(i, status) ==
  [status |-> status, inv |-> i, tables |-> Selected(i), since |-> source]

Init ==
  /\ source \in [Tables -> {0, 1}]
  /\ target = [t \in Tables |-> 0]
  /\ tracking = [t \in Tables |-> 0]
  /\ \E i \in Invocations : row = Row(i, "none") /\ local = Fresh(i)
  /\ metrics = {} /\ pc = "idle" /\ exit = Unset

Table == Head(local.todo)
Strict == local.inv.strict
Dry    == local.inv.dry
ByHand == local.inv.window # "none"

Goto(from, to) == pc = from /\ pc' = to

(* The next table.                                                         *)
Advance(changed) == local' = [changed EXCEPT !.todo = Tail(@), !.seen = 0, !.max = 0, !.rows = 0]

Says(status) == metrics' = metrics \cup {<<Table, status>>}

-----------------------------------------------------------------------------
(* entsoe_fms creates or revises a source table.                           *)
Revise(t) ==
  /\ source[t] < MaxRevision
  /\ source' = [source EXCEPT ![t] = @ + 1]
  /\ UNCHANGED <<target, tracking, row, metrics, pc, local, exit>>

(* record_run_start.                                                       *)
Start(i) ==
  /\ Accepted(i) /\ Goto("idle", "table")
  /\ row' = Row(i, "running") /\ local' = Fresh(i)
  /\ metrics' = {} /\ exit' = Unset
  /\ UNCHANGED data

Ends(status) ==
  /\ pc' = "idle"
  /\ row' = [row EXCEPT !.status = status]
  /\ exit' = IF status \in {"success", "skipped"} THEN 0 ELSE 1
  /\ UNCHANGED <<source, target, tracking, metrics, local>>

Disabled == pc = "table" /\ ~local.inv.enable /\ Ends("skipped")

(* A source that is missing, or where nothing has changed, is skipped.     *)
Skip(status) ==
  /\ pc' = "table" /\ Says(status) /\ Advance(local)
  /\ UNCHANGED <<source, target, tracking, row, exit>>

AtTable == pc = "table" /\ local.inv.enable /\ local.todo # <<>>

SourceMissing == AtTable /\ source[Table] = 0 /\ Skip("skipped_source_missing")

(* required_columns, get_table_columns: one that is missing raises.        *)
ColumnsMissing ==
  /\ AtTable /\ source[Table] # 0 /\ Table \in Broken
  /\ pc' = "error"
  /\ UNCHANGED <<source, target, tracking, row, metrics, local, exit>>

ReadTracking ==
  /\ AtTable /\ source[Table] # 0 /\ Table \notin Broken
  /\ pc' = "window" /\ local' = [local EXCEPT !.seen = tracking[Table]]
  /\ UNCHANGED <<source, target, tracking, row, metrics, exit>>

(* Mutant: the watermark moves when the window is chosen.                  *)
GetWindowTracks ==
  /\ Goto("window", "read")
  /\ ByHand \/ source[Table] > local.seen
  /\ local' = [local EXCEPT !.max = source[Table]]
  /\ tracking' = IF ByHand \/ Dry THEN tracking ELSE [tracking EXCEPT ![Table] = source[Table]]
  /\ UNCHANGED <<source, target, row, metrics, exit>>

(* get_processing_window: a window of the command line may hold no rows.   *)
GetWindow ==
  /\ Goto("window", "read")
  /\ ByHand \/ source[Table] > local.seen
  /\ local' = [local EXCEPT !.max = source[Table]]
  /\ UNCHANGED <<source, target, tracking, row, metrics, exit>>

NoChanges ==
  /\ pc = "window" /\ (ByHand \/ source[Table] <= local.seen)
  /\ Skip("skipped_no_changes")

ReadSource ==
  /\ Goto("read", IF Dry THEN "metrics" ELSE "replace")
  /\ local' = [local EXCEPT !.rows = source[Table]]
  /\ UNCHANGED <<source, target, tracking, row, metrics, exit>>

(* replace_target_window; a window of the command line may leave out what  *)
(* was revised.                                                            *)
Replace ==
  /\ Goto("replace", IF ByHand THEN "metrics" ELSE "track")
  /\ \E shown \in {local.rows} \cup (IF ByHand THEN {target[Table]} ELSE {}) :
       target' = [target EXCEPT ![Table] = shown]
  /\ UNCHANGED <<source, tracking, row, metrics, local, exit>>

UpdateTracking ==
  /\ Goto("track", "metrics")
  /\ tracking' = [tracking EXCEPT ![Table] = local.max]
  /\ UNCHANGED <<source, target, row, metrics, local, exit>>

WriteMetrics ==
  /\ Goto("metrics", "table") /\ Says("ok") /\ Advance(local)
  /\ UNCHANGED <<source, target, tracking, row, exit>>

(* Mutant: fail_on_table_error ends the run at the first error.            *)
RecordErrorAndStop ==
  /\ Goto("error", "table") /\ Says("error")
  /\ local' = [local EXCEPT !.failed = @ + 1, !.todo = IF Strict THEN <<>> ELSE Tail(@)]
  /\ UNCHANGED <<source, target, tracking, row, exit>>

(* An exception in process_table, once its metric is written.              *)
RecordError ==
  /\ Goto("error", "table") /\ Says("error")
  /\ Advance([local EXCEPT !.failed = @ + 1])
  /\ UNCHANGED <<source, target, tracking, row, exit>>

(* record_run_finish.                                                      *)
Finish ==
  /\ pc = "table" /\ local.inv.enable /\ local.todo = <<>>
  /\ Ends(IF local.failed = 0 THEN "success" ELSE IF Strict THEN "failed" ELSE "partial")

-----------------------------------------------------------------------------
(* An exception for any table.  That the window has been replaced, or the  *)
(* watermark moved, is not taken back.                                     *)
TableFails ==
  /\ AtTable \/ pc \in {"window", "read", "replace", "track", "metrics"}
  /\ pc' = "error"
  /\ UNCHANGED <<source, target, tracking, row, metrics, local, exit>>

(* The metric of an error or the end of the run cannot be written: the     *)
(* script ends with a traceback, and its row says running for ever.  So it *)
(* does when the script is killed.                                         *)
Breaks(code) ==
  /\ pc' = "idle" /\ exit' = code
  /\ UNCHANGED <<source, target, tracking, row, metrics, local>>

RecordFails ==
  /\ pc = "error" \/ (pc = "table" /\ (local.todo = <<>> \/ ~local.inv.enable))
  /\ Breaks(1)

Kill == pc # "idle" /\ Breaks(Unset)

Step ==
  \/ Disabled \/ SourceMissing \/ ColumnsMissing \/ ReadTracking \/ GetWindow \/ NoChanges
  \/ ReadSource \/ Replace \/ UpdateTracking \/ WriteMetrics \/ RecordError \/ Finish

Fault == TableFails \/ RecordFails \/ Kill

Next ==
  \/ \E t \in Tables : Revise(t)
  \/ \E i \in Invocations : Start(i)
  \/ Step \/ Fault

Spec == Init /\ [][Next]_vars

(* A run goes on, the scheduler calls its post-run script after every      *)
(* crawl, and in the end nothing but a missing column fails and nobody     *)
(* calls the script by hand.                                               *)
FairSpec ==
  /\ Spec /\ WF_vars(Step)
  /\ \A i \in Repeated : SF_vars(Start(i))
  /\ <>[][/\ Fault => Step
          /\ \A i \in Invocations : Start(i) => i \in Repeated]_vars

-----------------------------------------------------------------------------
Statuses == {"none", "running", "success", "partial", "failed", "skipped"}

TypeOK ==
  /\ source \in [Tables -> Revisions] /\ target \in [Tables -> Revisions]
  /\ tracking \in [Tables -> Revisions]
  /\ row.status \in Statuses /\ row.inv \in Invocations /\ row.since \in [Tables -> Revisions]
  /\ metrics \subseteq Tables \X {"skipped_source_missing", "skipped_no_changes", "ok", "error"}
  /\ pc \in {"idle", "table", "window", "read", "replace", "track", "metrics", "error"}
  /\ exit \in {0, 1, Unset}

(* scripts/lib/gapfiller/db.py, the status of a run.  Whatever earlier     *)
(* runs have left behind, and wherever they were killed, a run that is     *)
(* recorded as a success, and neither was a dry one nor had a window of    *)
(* its own, leaves every table that it was asked for at least as new as    *)
(* its source was when the run began.  Its metrics say of each table what  *)
(* became of it, an error among them for every other final status, and the *)
(* exit code is 0 for no other.                                            *)
Asked == {row.tables[n] : n \in 1 .. Len(row.tables)}
Reported == {m[1] : m \in metrics}
Failed == {m[1] : m \in {m \in metrics : m[2] = "error"}}

StatusTells ==
  /\ row.status = "success" =>
       /\ Asked = Reported /\ Failed = {}
       /\ ~row.inv.dry /\ row.inv.window = "none"
            => \A t \in Asked : target[t] >= row.since[t]
  /\ row.status \in {"partial", "failed"} => Failed # {} /\ Asked = Reported
  /\ exit = 0 => row.status \in {"success", "skipped"}

(* scripts/lib/gapfiller/db.py, the loop over the tables: one table that   *)
(* fails in every run holds up no other.  The tables of the scheduled runs *)
(* show the newest revision of their sources in the end.                   *)
Wanted == UNION {{Selected(i)[n] : n \in 1 .. Len(Selected(i))} : i \in Repeated} \ Broken

OthersGoOn == <>[](\A t \in Wanted : target[t] = source[t])

=============================================================================
