---------------------------- MODULE ForecastRuns ----------------------------
(***************************************************************************)
(* Processes that run scripts/run_price_forecast.py against one database:  *)
(* the post-run scripts of jobs and runs from a shell, which nothing keeps *)
(* apart.  Each writes a row of forecast_runs, the rows of the forecast in *)
(* transactions of their own, and then decides which runs are in force.    *)
(*                                                                         *)
(* Any step can fail or be the last one before the process is killed.      *)
(***************************************************************************)
EXTENDS ForecastInputs

CONSTANTS
  Procs,
  Targets,        \* the dates each process may forecast
  Backends,       \* of --model-backend
  Readings,       \* what the sources may hold
  RetentionDays,
  MaxDay          \* bound on the days that pass

ASSUME RunsAssumption ==
  /\ Backends \subseteq {"auto", "upstream", "ridge"}
  /\ {RetentionDays, MaxDay} \subseteq Nat

VARIABLES
  today,
  inserts,    \* rows that were ever inserted into forecast_runs
  runs,       \* forecast_runs: run id -> row
  written,    \* the run ids with rows in each dependent table
  proc,       \* where each process is
  overlapped  \* history: targets whose processes have overlapped

vars == <<today, inserts, runs, written, proc, overlapped>>

Dates    == UNION {Targets[p] : p \in Procs}
Variants == {"day_ahead", "backtest"}
RunIds   == Procs \X Variants
Tables   == {"points", "quantiles", "metrics"}

(* The dependent rows that belong to a run: metrics only if its result has *)
(* some, which it has not on days without actual prices.                   *)
Parts(r) ==
  (IF r[2] = "day_ahead" THEN {"points", "quantiles"} ELSE {})
    \cup (IF r[2] \in proc[r[1]].judged THEN {"metrics"} ELSE {})

Alive(p)   == proc[p].step \notin {"idle", "ended"}
RunId(p)   == <<p, proc[p].variant>>
Goto(p, s) == proc' = [proc EXCEPT ![p].step = s]
End(p)     == Goto(p, "ended")

Exists(r)        == r \in DOMAIN runs
Writing(r)       == Exists(r) /\ runs[r].status = "writing"
Active(r)        == Exists(r) /\ runs[r].status = "completed"
Published(r)     == Exists(r) /\ runs[r].status \in {"completed", "superseded"}
SameKey(r, s)    == runs[r].target = runs[s].target /\ r[2] = s[2]
With(r, status)  == IF Exists(r) THEN [runs EXCEPT ![r].status = status] ELSE runs

(* judged: the variants whose result has metrics; cut: what a kill left    *)
(* undone.                                                                 *)
Init ==
  /\ today = 0
  /\ inserts = 0
  /\ runs = [r \in {} |-> 0]
  /\ written = [t \in Tables |-> {}]
  /\ proc \in {[p \in Procs |-> [step |-> "idle", target |-> d[p], trains |-> FALSE,
                                 variant |-> "day_ahead", judged |-> {}, cut |-> "none"]] :
                  d \in {f \in [Procs -> Dates] : \A p \in Procs : f[p] \in Targets[p]}}
  /\ overlapped = {}

-----------------------------------------------------------------------------
MayTrain == {RidgeTrains(LoadPriceSeries(r.fms, r.api)) : r \in Readings}

(* An SQLAlchemyError while the inputs are read ends the process.          *)
ReadInputs(p) ==
  /\ proc[p].step = "idle"
  /\ \/ \E trains \in MayTrain :
          proc' = [proc EXCEPT ![p].step = "loaded", ![p].trains = trains]
     \/ End(p)
  /\ overlapped' = overlapped \cup
       {proc[q].target : q \in {x \in Procs : Alive(x) /\ proc[x].target = proc[p].target}}
  /\ UNCHANGED <<today, inserts, runs, written>>

(* The external package may raise a ValueError of its own.                 *)
ForecastWithBackend(backend, importable, trains) ==
  CASE backend = "ridge"                  -> {IF trains THEN "ok" ELSE "value_error"}
    [] backend # "ridge" /\ ~importable   -> {"unavailable"}
    [] backend # "ridge" /\ importable    -> {"value_error"} \cup {x \in {"ok"} : UpstreamTrains}

(* Only an upstream package that cannot be imported is replaced by ridge.  *)
RunForecastAuto(requested, importable, trains) ==
  IF requested = "auto" /\ ~importable THEN ForecastWithBackend("ridge", importable, trains)
  ELSE ForecastWithBackend(requested, importable, trains)

(* created_at is the time of the insert.                                   *)
WriteRun(r, status) ==
  /\ inserts' = inserts + 1
  /\ runs' = [x \in DOMAIN runs \cup {r} |->
                IF Exists(x) THEN runs[x]
                ELSE [target |-> proc[x[1]].target, status |-> status,
                      day |-> today, seq |-> inserts + 1]]

(* Mutant: the run counts as completed before its rows are written.        *)
RowOfCompleted == [ok |-> "completed", value_error |-> "skipped", unavailable |-> "failed"]

RowOf == [ok |-> "writing", value_error |-> "skipped", unavailable |-> "failed"]

(* The result of a day with actual prices has metrics.                     *)
Forecast(p) ==
  /\ proc[p].step = "loaded"
  /\ \E requested \in Backends, importable \in BOOLEAN, judged \in SUBSET {"day_ahead"} :
       \E result \in RunForecastAuto(requested, importable, proc[p].trains) :
         /\ WriteRun(RunId(p), RowOf[result])
         /\ proc' = [proc EXCEPT ![p].step = IF result = "ok" THEN "points" ELSE "ended",
                                 ![p].trains = FALSE,
                                 ![p].judged = @ \cup IF result = "ok" THEN judged ELSE {}]
  /\ UNCHANGED <<today, written, overlapped>>

After(table) ==
  CASE table = "points" -> "quantiles" [] table = "quantiles" -> "metrics" [] table = "metrics" -> "complete"

(* The foreign key refuses rows of a run that is no longer there.  Metrics *)
(* that a day-ahead result has not are not written, and those that a       *)
(* backtest has not are written as no rows.                                *)
WriteForecastResult(p, table) ==
  /\ proc[p].step = table
  /\ \/ /\ Exists(RunId(p)) /\ (table = "metrics" => proc[p].variant \in proc[p].judged)
        /\ written' = [written EXCEPT ![table] = @ \cup {RunId(p)}]
        /\ Goto(p, After(table))
     \/ /\ table = "metrics" /\ proc[p].variant \notin proc[p].judged
        /\ Goto(p, "complete")
        /\ UNCHANGED written
     \/ Goto(p, "failing") /\ UNCHANGED written
  /\ UNCHANGED <<today, inserts, runs, overlapped>>

(* An exception while the rows are written.                                *)
MarkFailed(p) ==
  /\ proc[p].step = "failing"
  /\ runs' = With(RunId(p), "failed")
  /\ End(p)
  /\ UNCHANGED <<today, inserts, written, overlapped>>

UpdateRunStatus(p) ==
  /\ proc[p].step = "complete"
  /\ runs' = With(RunId(p), "completed")
  /\ Goto(p, "supersede")
  /\ UNCHANGED <<today, inserts, written, overlapped>>

(* Mutant: only the runs of earlier days are superseded.                   *)
SupersededOfEarlierDays(r, p) ==
  /\ runs[r].target = proc[p].target
  /\ r[2] = proc[p].variant
  /\ runs[r].status = "completed"
  /\ runs[r].day < today

(* Mutant: the run itself is not left out.                                 *)
SupersededWithOwn(r, p) ==
  /\ runs[r].target = proc[p].target
  /\ r[2] = proc[p].variant
  /\ runs[r].status = "completed"

(* mark_previous_runs_superseded: every other completed run of the target  *)
(* date and variant, whichever was created first.                          *)
Superseded(r, p) ==
  /\ runs[r].target = proc[p].target
  /\ r[2] = proc[p].variant
  /\ runs[r].status = "completed"
  /\ r # RunId(p)

MarkPreviousRunsSuperseded(p) ==
  /\ proc[p].step = "supersede"
  /\ runs' = [r \in DOMAIN runs |->
                IF Superseded(r, p) THEN [runs[r] EXCEPT !.status = "superseded"] ELSE runs[r]]
  /\ \/ proc[p].variant = "day_ahead" /\ Goto(p, "backtest")
     \/ Goto(p, "cleanup")
  /\ UNCHANGED <<today, inserts, written, overlapped>>

(* With --backtest-days.  The backtests are computed before their row is   *)
(* written, so that one that raises leaves no row.                         *)
Backtest(p) ==
  /\ proc[p].step = "backtest"
  /\ WriteRun(<<p, "backtest">>, "writing")
  /\ \E judged \in SUBSET {"backtest"} :
       proc' = [proc EXCEPT ![p].step = "metrics", ![p].variant = "backtest",
                            ![p].judged = @ \cup judged]
  /\ UNCHANGED <<today, written, overlapped>>

(* The foreign keys cascade.                                               *)
Keep(ids) ==
  /\ runs' = [r \in ids |-> runs[r]]
  /\ written' = [t \in Tables |-> written[t] \cap ids]

Expired(r) == RetentionDays > 0 /\ runs[r].day < today - RetentionDays

CleanupOldRuns(p) ==
  /\ proc[p].step = "cleanup"
  /\ Keep({r \in DOMAIN runs : ~Expired(r)})
  /\ End(p)
  /\ UNCHANGED <<today, inserts, overlapped>>

(* A kill, or an exception that nothing catches.                           *)
Die(p) ==
  /\ Alive(p)
  /\ proc' = [proc EXCEPT ![p].step = "ended", ![p].trains = FALSE,
                          ![p].cut = IF proc[p].step = "supersede" THEN "supersede"
                                     ELSE IF Writing(RunId(p)) THEN "writing" ELSE "none"]
  /\ UNCHANGED <<today, inserts, runs, written, overlapped>>

NextDay ==
  /\ today < MaxDay
  /\ today' = today + 1
  /\ UNCHANGED <<inserts, runs, written, proc, overlapped>>

Step(p) ==
  \/ Forecast(p) \/ \E t \in Tables : WriteForecastResult(p, t)
  \/ MarkFailed(p) \/ UpdateRunStatus(p) \/ MarkPreviousRunsSuperseded(p)
  \/ Backtest(p) \/ CleanupOldRuns(p)

Next == NextDay \/ \E p \in Procs : ReadInputs(p) \/ Step(p) \/ Die(p)

Spec == Init /\ [][Next]_vars

-----------------------------------------------------------------------------
(* What the variables hold: dependent rows never outlive their run.        *)
TypeOK ==
  /\ today \in 0 .. MaxDay
  /\ inserts \in Nat
  /\ DOMAIN runs \subseteq RunIds
  /\ \A r \in DOMAIN runs :
       runs[r] \in [target : Dates, day : 0 .. today, seq : 1 .. inserts,
                    status : {"skipped", "failed", "writing", "completed", "superseded"}]
  /\ \A t \in Tables : written[t] \subseteq DOMAIN runs
  /\ \A p \in Procs : /\ proc[p].variant \in Variants /\ proc[p].target \in Targets[p]
                      /\ proc[p].judged \subseteq Variants
  /\ overlapped \subseteq Dates

(* A run that readers take for one in force, or for one that was, has all  *)
(* of its dependent rows, wherever a process was cut off, and metrics if   *)
(* there was something to judge its result by.                             *)
PublishedWhole ==
  \A r \in RunIds : Published(r) => \A t \in Parts(r) : r \in written[t]

(* Two runs of one target and variant are in force only until the process  *)
(* of one of them has superseded the others, or if it was cut off there.   *)
OneInForce ==
  \A r, s \in RunIds :
    r # s /\ Active(r) /\ Active(s) /\ SameKey(r, s) =>
      \E x \in {r, s} : /\ RunId(x[1]) = x
                        /\ "supersede" \in {proc[x[1]].step, proc[x[1]].cut}

(* While the processes of a target come one after the other, the newest    *)
(* run that was published is in force.                                     *)
NewestOf(r) == \A s \in RunIds : Published(s) /\ SameKey(r, s) => runs[s].seq <= runs[r].seq
NewestInForce ==
  \A r \in RunIds :
    Published(r) /\ NewestOf(r) /\ runs[r].target \notin overlapped => Active(r)

=============================================================================
