----------------------------- MODULE CrawlWeather -----------------------------
(***************************************************************************)
(* Forecasts and weather: open_meteo, which keeps the newest forecast,     *)
(* weather_forecast, which keeps every forecast, energy_forecast, a row    *)
(* per start, and copernicus_cds, which downloads one month per request.   *)
(* The series are locations.                                               *)
(***************************************************************************)
EXTENDS CrawlerTables

(* past_days or past_hours, and the days to come.                          *)
ForecastHours == {t \in Days : t >= now - LookBack}

-----------------------------------------------------------------------------
OpenMeteoKey == {"series", "time"}

(* From the first to the last time of the answers, for all locations.  A   *)
(* null value is a row as well.                                            *)
OpenMeteoCleared(rows) ==
  Series \X {t \in Days : \E a, b \in rows : a.time <= t /\ t <= b.time}

OpenMeteoWrites(rows) ==
  Unless(rows = {}, <<Replace(OpenMeteoCleared(rows), OpenMeteoKey, rows)>>)

OpenMeteoRun == RunsWith(TRUE, {"abort"}, "abort")

-----------------------------------------------------------------------------
WeatherKey == {"series", "time", "at"}

(* Every forecast is kept under the time it was fetched.                   *)
WeatherRows(rows) == {[r EXCEPT !.at = now] : r \in rows}

WeatherUpsert(rows) == Unless(rows = {}, <<Upsert(WeatherKey, rows)>>)

WeatherWrites(rows) == WeatherUpsert(WeatherRows(rows))

(* The locations that answered; without any the run raises.                *)
WeatherRun == RunsWith(TRUE, {"skip"}, "abort")

-----------------------------------------------------------------------------
EnergyForecastKey == {"series", "time"}

(* The entries that start from now on, in one row for the first of them.   *)
EnergyForecastRow(rows) == Valued({r \in rows : r.time >= now})

EnergyForecastUpsert(rows) == <<Upsert(EnergyForecastKey, rows)>>

EnergyForecastWrites(rows) ==
  Unless(EnergyForecastRow(rows) = {}, EnergyForecastUpsert(EnergyForecastRow(rows)))

EnergyForecastRun == RunsWith(FALSE, {"abort"}, "abort")

-----------------------------------------------------------------------------
(* The month of the request moves with the day.                            *)
CopernicusMonth == {now}

CopernicusKey == {"series", "time"}

CopernicusStatus(state, rows) == <<Report(state, rows)>>

CopernicusStatistics(rows) == Valued(rows)

(* For mutation: reports a request when its file is there.                 *)
CopernicusWritesStatusFirst(s, rows) ==
  CopernicusStatus("completed", CopernicusStatistics(rows))
    \o <<Replace({s} \X CopernicusMonth, CopernicusKey, CopernicusStatistics(rows))>>

(* The file and its statistics, then the state of the request.             *)
CopernicusWrites(s, rows) ==
  <<Replace({s} \X CopernicusMonth, CopernicusKey, CopernicusStatistics(rows))>>
    \o CopernicusStatus("completed", CopernicusStatistics(rows))

(* An exception is reported and raised again.                              *)
CopernicusRun == RunsWith(FALSE, {"abort"}, "abort")

TodayDespiteFailures(t) == t >= NextRun + FailuresLeft
=============================================================================
