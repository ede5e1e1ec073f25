---------------------------- MODULE ForecastInputs ----------------------------
(***************************************************************************)
(* Whether a price forecast has enough to train on: the prices that        *)
(* scripts/run_price_forecast.py reads from the two ENTSO-E schemas, when  *)
(* the history of the API replaces that of the FMS tables, and the rows    *)
(* that the models of oeds_price_forecast then count.                      *)
(*                                                                         *)
(* Time is counted in rows, and row 0 is the first of the target day.  A   *)
(* series is the set of its rows: their values are left out, and so are    *)
(* the covariates, which nothing here depends on.                          *)
(***************************************************************************)
EXTENDS Integers, FiniteSets

CONSTANTS
  TrainRows,    \* train_days, in rows
  LagRows,      \* the 14 days that are read before them
  BufferRows,   \* API_TRAINING_BUFFER_DAYS, in rows
  DayRows,      \* of a day
  FillRows,     \* rows that a value is carried forward for
  MinRows       \* min_training_rows

ASSUME InputsAssumption ==
  /\ {TrainRows, DayRows} \subseteq Nat \ {0}
  /\ {LagRows, BufferRows, FillRows, MinRows} \subseteq Nat
  /\ BufferRows <= LagRows

(* What the queries ask for, and the history that coverage is taken of.    *)
History       == -(TrainRows + LagRows) .. -1
TargetDay     == 0 .. DayRows - 1
HistoryWindow == -(TrainRows + BufferRows) .. -1
TrainWindow   == -TrainRows .. -1

(* API_MIN_TRAINING_COVERAGE_RATIO is 0.85.                                *)
Enough(s) == 100 * Cardinality(s \cap HistoryWindow) >= 85 * Cardinality(HistoryWindow)

ApiTrainingReady(apiPrice, apiExaa) == Enough(apiPrice) /\ Enough(apiExaa)

(* Fresh rows are taken from both sources, the history from one, unless    *)
(* the API has enough of it.                                               *)
TrainingFallbackSeries(fms, api, ready) ==
  IF ready \/ fms = {} THEN fms \cup api ELSE fms \cup (api \cap TargetDay)

LoadPriceSeries(fms, api) ==
  TrainingFallbackSeries(fms.price, api.price, ApiTrainingReady(api.price, api.exaa))

-----------------------------------------------------------------------------
(* The models.                                                             *)

(* A row has a value if one of the FillRows before it or itself has.       *)
Regularized(s) ==
  {t \in History \cup TargetDay : \E u \in t - FillRows .. t : u \in s}

TrainingRows(price) == Regularized(price) \cap TrainWindow

(* forecast_day of the ridge model.                                        *)
RidgeTrains(price) == Cardinality(TrainingRows(price)) >= MinRows

(* The frame of the upstream model has a row for every day of its index,   *)
(* and its columns are filled in both directions: rows are counted, not    *)
(* values.                                                                 *)
UpstreamFrame  == -(TrainRows + LagRows) .. 0
UpstreamTrains == Cardinality(UpstreamFrame \cap TrainWindow) >= MinRows
=============================================================================
