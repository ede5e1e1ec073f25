------------------------------- MODULE Crawlers -------------------------------
(***************************************************************************)
(* The runs of one crawler, day after day.  A run makes the requests for   *)
(* its series one after the other and writes what they answer in one or    *)
(* several transactions, at once or, for some crawlers, after the last     *)
(* request.  Requests and transactions can fail and the process can be     *)
(* killed.  Meanwhile the service publishes new days, some of them late,   *)
(* and revises old ones.  The crawlers differ in what a run asks for, what *)
(* it writes, the keys of their tables and what they do about a failure.   *)
(***************************************************************************)
EXTENDS CrawlEpex, CrawlSmard, CrawlEntso, CrawlWindows, CrawlWeather, CrawlSnapshots

CONSTANT Names  \* the crawlers to run

Snapshots == {"dwd", "osm", "ninja", "power_system", "eurostat"}

AllCrawlers ==
  {"epex", "epex_ida", "smard", "entsoe_api", "entsog", "netz", "gie", "tradinghub", "eia",
   "regelleistung", "open_meteo", "weather", "energy_forecast", "copernicus"} \cup Snapshots

ASSUME NamesAssumption == Names \subseteq AllCrawlers

VARIABLES
  run,      \* the run: its step, series, windows, answers and transactions
  cut,      \* a run was killed, or failed to report its failure
  updates,  \* late and revised cells so far
  beyond,   \* history: cells that no run was bound to fetch when they changed
  spoilt    \* history: cells whose deletion failed without notice

vars == <<crawler, now, source, table, reports, failures, ran, run, cut, updates, beyond, spoilt>>

Window(s) ==
  CASE crawler \in {"epex", "epex_ida"} -> EpexWindow(s)
    [] crawler = "smard"                -> SmardWindow(s)
    [] crawler = "entsoe_api"           -> EntsoeQueryWindow
    [] crawler = "entsog"               -> EntsogWindow(s)
    [] crawler = "regelleistung"        -> RegelWindow(s)
    [] crawler = "copernicus"           -> CopernicusMonth
    [] crawler \in Snapshots            -> Days
    [] crawler \in {"open_meteo", "weather", "energy_forecast"} -> ForecastHours
    [] OTHER                            -> DateWindow

Writes(s, rows) ==
  CASE crawler \in {"epex", "epex_ida"} -> EpexWrites(rows)
    [] crawler = "smard"                -> SmardWrites(rows)
    [] crawler = "entsoe_api"           -> EntsoeWrites(rows)
    [] crawler = "entsog"               -> EntsogWrites(s, rows)
    [] crawler = "netz"                 -> NetzWrites(s, rows)
    [] crawler = "gie"                  -> GieWrites(rows)
    [] crawler = "tradinghub"           -> TradingHubWrites(s, rows)
    [] crawler = "eia"                  -> EiaWrites(s, rows)
    [] crawler = "regelleistung"        -> RegelWrites(s, rows)
    [] crawler = "open_meteo"           -> OpenMeteoWrites(rows)
    [] crawler = "weather"              -> WeatherWrites(rows)
    [] crawler = "energy_forecast"      -> EnergyForecastWrites(rows)
    [] crawler = "copernicus"           -> CopernicusWrites(s, rows)
    [] crawler = "dwd"                  -> DwdWrites(rows)
    [] crawler = "osm"                  -> OsmWrites(rows)
    [] crawler = "ninja"                -> NinjaWrites(s, rows)
    [] crawler = "power_system"         -> PowerSystemWrites(rows)
    [] crawler = "eurostat"             -> EurostatWrites(rows)

RunOf ==
  CASE crawler \in {"epex", "epex_ida"} -> EpexRun
    [] crawler = "smard"                -> SmardRun
    [] crawler = "entsoe_api"           -> EntsoeRun
    [] crawler = "entsog"               -> EntsogRun
    [] crawler = "netz"                 -> NetzRun
    [] crawler = "gie"                  -> GieRun
    [] crawler = "tradinghub"           -> TradingHubRun
    [] crawler = "eia"                  -> EiaRun
    [] crawler = "regelleistung"        -> RegelRun
    [] crawler = "open_meteo"           -> OpenMeteoRun
    [] crawler = "weather"              -> WeatherRun
    [] crawler = "energy_forecast"      -> EnergyForecastRun
    [] crawler = "copernicus"           -> CopernicusRun
    [] crawler = "dwd"                  -> DwdRun
    [] crawler = "osm"                  -> OsmRun
    [] crawler = "ninja"                -> NinjaRun
    [] crawler = "power_system"         -> PowerSystemRun
    [] crawler = "eurostat"             -> EurostatRun

(* What is written before the first request, and after a failure.          *)
Opening == Unless(crawler # "copernicus", CopernicusStatus("running", {}))

Complaint ==
  CASE crawler = "netz"       -> NetzComplaint
    [] crawler = "copernicus" -> CopernicusStatus("failed", {})
    [] OTHER                  -> Nothing

(* The cells that some run is bound to fetch, if they change today.        *)
Promised(s, t) ==
  CASE crawler \in {"epex", "epex_ida"} -> EpexPromised(t)
    [] crawler = "smard"                -> SmardPromised(s, t)
    [] crawler = "entsog"               -> EntsogPromised(t)
    [] crawler = "regelleistung"        -> s \in RegelFiles
    [] crawler \in {"copernicus", "energy_forecast"} -> TodayDespiteFailures(t)
    [] crawler \in Snapshots            -> TRUE
    [] OTHER                            -> InWindowDespiteFailures(t)

-----------------------------------------------------------------------------
Idle == [step |-> "idle", series |-> 0, windows |-> <<>>, got |-> {}, todo |-> <<>>,
         failing |-> FALSE, ending |-> FALSE]

(* Where a run goes: on with its transactions, to the next request, or to  *)
(* its end.                                                                *)
Onward(r) ==
  IF r.todo # <<>> THEN [r EXCEPT !.step = "writing"]
  ELSE IF r.ending THEN Idle
  ELSE [r EXCEPT !.step = "asking", !.series = @ + 1, !.failing = FALSE]

IsLast(s) == s = Cardinality(Series)

Init ==
  /\ crawler \in Names
  /\ now = 1
  /\ source = [s \in Series |-> [t \in Days |-> IF t = 1 THEN 1 ELSE 0]]
  /\ table = {}
  /\ reports = [id \in Requests |-> [state |-> "none", rows |-> {}]]
  /\ failures = 0 /\ updates = 0
  /\ ran = FALSE
  /\ run = Idle /\ cut = FALSE
  /\ beyond = {c \in Series \X {1} : ~Promised(c[1], c[2])}
  /\ spoilt = {}

TypeOK ==
  /\ crawler \in Names
  /\ now \in Days /\ ran \in BOOLEAN
  /\ source \in [Series -> [Days -> 0 .. 2]]
  /\ table \subseteq Row
  /\ reports \in [Requests -> [state : {"none", "running", "completed", "failed"},
                               rows : SUBSET Row]]
  /\ failures \in 0 .. MaxFailures /\ updates \in 0 .. MaxUpdates
  /\ cut \in BOOLEAN /\ run.step \in {"idle", "asking", "writing"}
  /\ beyond \cup spoilt \subseteq Series \X Days

-----------------------------------------------------------------------------
Begin ==
  /\ run.step = "idle"
  /\ run' = Onward([Idle EXCEPT !.windows = [s \in Series |-> Window(s)], !.todo = Opening])
  /\ ran' = TRUE
  /\ UNCHANGED <<crawler, now, source, table, reports, failures, cut, updates, beyond, spoilt>>

(* A run that gathers goes on with what the other series answered.         *)
Answered(got) ==
  LET s == run.series
  IN  run' = Onward([run EXCEPT
               !.got    = IF RunOf.gathers THEN got ELSE {},
               !.todo   = Unless(RunOf.gathers /\ ~IsLast(s), Writes(s, got)),
               !.ending = IsLast(s)])

Ask ==
  /\ run.step = "asking"
  /\ Answered(run.got \cup Answer(run.series, run.windows[run.series]))
  /\ UNCHANGED <<crawler, now, source, table, reports, failures, ran, cut, updates, beyond, spoilt>>

Fails ==
  /\ failures < MaxFailures
  /\ failures' = failures + 1

(* An exception that is caught, reported by some crawlers, and perhaps     *)
(* raised again.                                                           *)
Recover(ends) ==
  run' = Onward([run EXCEPT !.todo = Complaint, !.failing = TRUE,
                            !.ending = ends \/ IsLast(run.series)])

AskFails ==
  /\ run.step = "asking"
  /\ Fails
  /\ \/ /\ "skip" \in RunOf.onRequest
        /\ IF RunOf.gathers THEN Answered(run.got) ELSE Recover(FALSE)
     \/ /\ "abort" \in RunOf.onRequest
        /\ Recover(TRUE)
  /\ UNCHANGED <<crawler, now, source, table, reports, ran, cut, updates, beyond, spoilt>>

RequestOf(s) == <<s, IF crawler = "copernicus" THEN now ELSE 0>>

(* The opening of copernicus belongs to its one request.                   *)
Commit ==
  LET w == Head(run.todo)
      s == IF run.series = 0 THEN 1 ELSE run.series
  IN  /\ run.step = "writing"
      /\ ~Rejected(w)
      /\ IF w.report = "none"
         THEN /\ table' = Inserted(w)
              /\ UNCHANGED reports
         ELSE /\ reports' = [reports EXCEPT ![RequestOf(s)] = [state |-> w.report, rows |-> w.rows]]
              /\ UNCHANGED table
      /\ run' = Onward([run EXCEPT !.todo = Tail(@)])
      /\ UNCHANGED <<crawler, now, source, failures, ran, cut, updates, beyond, spoilt>>

(* A transaction that fails leaves nothing.  An exception outside of the   *)
(* try, or in its except clause, ends the run.                             *)
CommitFails ==
  LET w == Head(run.todo)
  IN  /\ run.step = "writing"
      /\ IF Rejected(w) THEN UNCHANGED failures ELSE Fails
      /\ IF w.optional
         THEN /\ run' = Onward([run EXCEPT !.todo = Tail(@)])
              /\ spoilt' = spoilt \cup w.clear
              /\ UNCHANGED cut
         ELSE /\ IF run.failing \/ run.series = 0 THEN run' = Idle
                 ELSE Recover(RunOf.onWrite = "abort")
              /\ cut' = (cut \/ run.failing)
              /\ UNCHANGED spoilt
      /\ UNCHANGED <<crawler, now, source, table, reports, ran, updates, beyond>>

Die ==
  /\ run.step # "idle"
  /\ Fails
  /\ run' = Idle
  /\ cut' = TRUE
  /\ UNCHANGED <<crawler, now, source, table, reports, ran, updates, beyond, spoilt>>

-----------------------------------------------------------------------------
(* The crawler is scheduled at least once a day.  A day can be published   *)
(* late, and an old one anew.                                              *)
NextDay(late) ==
  /\ run.step = "idle" /\ ran
  /\ now < Horizon
  /\ updates + Cardinality(late) <= MaxUpdates
  /\ now' = now + 1
  /\ ran' = FALSE
  /\ source' = [s \in Series |-> [source[s] EXCEPT ![now + 1] = IF s \in late THEN 0 ELSE 1]]
  /\ updates' = updates + Cardinality(late)
  /\ beyond' = beyond \cup {c \in (Series \ late) \X {now + 1} : ~Promised(c[1], c[2])}
  /\ UNCHANGED <<crawler, table, reports, failures, run, cut, spoilt>>

Publish(s, t) ==
  /\ t <= now
  /\ source[s][t] < 2
  /\ IF source[s][t] = 0 THEN UNCHANGED updates
     ELSE /\ updates < MaxUpdates
          /\ updates' = updates + 1
  /\ source' = [source EXCEPT ![s][t] = @ + 1]
  /\ beyond' = (beyond \ {<<s, t>>}) \cup (IF Promised(s, t) THEN {} ELSE {<<s, t>>})
  /\ UNCHANGED <<crawler, now, table, reports, failures, ran, run, cut, spoilt>>

Run == Ask \/ AskFails \/ Commit \/ CommitFails \/ Die

Next ==
  \/ Begin \/ Run
  \/ \E late \in SUBSET Series : NextDay(late)
  \/ \E s \in Series, t \in Days : Publish(s, t)

Spec == Init /\ [][Next]_vars

(* The cron schedule starts runs, and a run goes on.                       *)
FairSpec == Spec /\ WF_vars(Begin) /\ WF_vars(Ask \/ Commit)

-----------------------------------------------------------------------------
(* A cell is in the table once, and once per fetch in the table that keeps *)
(* every forecast.  The tables of netztransparenz, tradinghub, eia,        *)
(* regelleistung and entsog have no key to make sure of it: only deleting  *)
(* what is about to be inserted does.                                      *)
NoDuplicates ==
  \A q, r \in table :
    (Cell(q) = Cell(r) /\ Cell(r) \notin spoilt /\ (crawler = "weather" => q.at = r.at)) => q = r

(* eia keeps the rows of the window, netz those whose time it knows.       *)
Wanted(c) ==
  /\ crawler = "eia" => c[2] >= now - LookBack
  /\ crawler = "netz" => NetzTimed(c[2])
Missing(c) == c \in Published \ beyond /\ ~Current(c) /\ Wanted(c)

(* Between runs, whatever a run that failed, was killed or came too early  *)
(* for has left out is within reach of a run that starts now.  What is     *)
(* asked for depends on the day or on the newest row, which must not run   *)
(* ahead of what is stored.                                                *)
MissingWithinReach ==
  run.step = "idle" => \A c \in Series \X Days : Missing(c) => \E t \in Window(c[1]) : t <= c[2]

(* What is stored is only replaced by the same or a newer revision.  A run *)
(* of entsog that has deleted a chunk and not yet written it, and the rows *)
(* that leave the window of eia, are excepted, and the rows of netz without  *)
(* a time: they are deleted when they have left the window.                *)
KeepsWhatItHas ==
  [][\A r \in table :
       \/ \E q \in table' : Cell(q) = Cell(r) /\ q.rev >= r.rev
       \/ crawler = "entsog" /\ run.step = "writing" /\ Cell(r) \in Head(run.todo).clear
       \/ ~Wanted(Cell(r))]_vars

(* A request that is reported as completed has its rows in the table, or   *)
(* newer ones, and one that is reported as running is running, unless its  *)
(* process was killed or could not report its failure.                     *)
ReportsTrue ==
  \A id \in Requests :
    /\ reports[id].state = "completed" =>
         \A r \in reports[id].rows : Wanted(Cell(r)) => \E q \in RowsOf(Cell(r)) : q.rev >= r.rev
    /\ reports[id].state = "running" => (cut \/ run.step # "idle")

(* Failures come to an end, and then every day that a run was bound to     *)
(* fetch is stored as it was last published.                               *)
Converges ==
  \A s \in 1 .. NSeries, t \in 1 .. 4 :
    (s \in Series /\ t \in Days /\ Missing(<<s, t>>)) ~>
       (s \in Series /\ t \in Days /\ ~Missing(<<s, t>>))
=============================================================================
