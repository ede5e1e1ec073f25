---------------------------- MODULE AdminActions ----------------------------
(***************************************************************************)
(* The actions of a crawler's page, from the form to the call: what the    *)
(* page sends, what prepare_action accepts of it and joins with the        *)
(* configuration of that moment, what the crawler or the script takes from *)
(* that, and what a refused form is shown with.  The lock and the row of a *)
(* run are in AdminRuns, what the crawlers and the scripts write in their  *)
(* modules.                                                                *)
(*                                                                         *)
(* A field of a form is the set of its values: {} when it is left empty or *)
(* no number.  A month or year is a record with its unit, and a timestamp  *)
(* one of an hour on the wall and the offset of its zone, or Malformed.    *)
(***************************************************************************)
EXTENDS Integers, Sequences

CONSTANTS
  AdminItems,        \* FMS_ACTIVE_DATA_ITEMS of runtime_service.py, a sequence
  CrawlerItems,      \* the copy of it in entsoe_fms.py
  Cadence,           \* of an item: "single", "annual" or "monthly"
  Dates,             \* the numbers of the periods that pandas has dates for
  Tables,            \* BUILTIN_GAPFILL_TABLES_BY_JOB
  PostRunTables,     \* DEFAULT_POSTRUN_TABLES
  DefaultLocations,  \* DEFAULT_LOCATIONS
  NotSet, Malformed,
  Configs,           \* effective configurations, one record for all crawlers
  Wishes,            \* forms that a user means to send
  Slips              \* pairs of a field and a value that is entered by mistake

VARIABLES config, run

vars == <<config, run>>

Elements(s) == {s[i] : i \in DOMAIN s}

Init == config \in Configs /\ run = [step |-> "none"]

-----------------------------------------------------------------------------
IsOne(field) == \E x \in field : field = {x}
IsAtMostOne(field) == field = {} \/ IsOne(field)

(* A list of a form sends one value for each entry that is selected, and   *)
(* _form_to_payload makes a list of them only when there are several.      *)
FormToPayload(selected) ==
  CASE selected = {} -> [is |-> "absent"]
    [] IsOne(selected) -> [is |-> "text", text |-> CHOOSE x \in selected : TRUE]
    [] OTHER -> [is |-> "list", items |-> selected]

(* Mutant: only lists count.                                               *)
EnsureListOfLists(value) == IF value.is = "list" THEN value.items ELSE {}

EnsureList(value) ==
  CASE value.is = "absent" -> {}
    [] value.is = "text" -> {value.text}
    [] value.is = "list" -> value.items

ParseInt(field, minimum, maximum) == field \cap (minimum .. maximum)

OrDefault(field, default) == IF field = {} THEN {default} ELSE field

-----------------------------------------------------------------------------
(* prepare_action, one operator for each action: what is prepared of the   *)
(* form f under the configuration c, or nothing when the form is refused.  *)
RunNow(c) == {[calls |-> "crawler", config |-> c]}

(* _filter_weather_locations looks in the configured locations, or in the  *)
(* default ones when there are none.                                       *)
Available(c) == IF c.locations \in {NotSet, {}} THEN DefaultLocations ELSE c.locations

WithWindow(c, forecast, past, ids) ==
  [c EXCEPT !.forecast_hours = forecast, !.past_hours = past,
            !.locations = IF ids = {} THEN @ ELSE ids]

WeatherWindow(f, c) ==
  {[calls |-> "crawler", config |-> WithWindow(c, forecast, past, ids)] :
     forecast \in ParseInt(f.forecast_hours, 1, 336), past \in ParseInt(f.past_hours, 0, 336),
     ids \in {f.location_ids} \cap SUBSET Available(c)}

WithRange(c, dataset, start, end) ==
  [c EXCEPT !.dataset_id = dataset, !.start_year = start, !.end_year = end]

EurostatRange(f, c) ==
  {[calls |-> "crawler", config |-> WithRange(c, dataset, years[1], years[2])] :
     dataset \in f.dataset_id,
     years \in {y \in ParseInt(f.start_year, 1990, 2100) \X ParseInt(f.end_year, 1990, 2100) :
                  y[1] <= y[2]}}

EntsoeTargeted(f, c) ==
  {[calls |-> "crawler", config |->
      [c EXCEPT !.target_data_items = IF items = {} THEN @ ELSE items]] :
     items \in {EnsureList(FormToPayload(f.target_data_items))}
                 \cap SUBSET Elements(AdminItems)}

(* _validate_entsoe_backfill_range; a single file has no range.            *)
BackfillRanges(f, item) ==
  IF Cadence[item] = "single" THEN {<<>>}
  ELSE {r \in f.start \X f.end :
          /\ r[1].unit = Cadence[item] /\ r[2].unit = Cadence[item]
          /\ r[1].number <= r[2].number}

(* The crawler is told the place of the item in the list.                  *)
TargetIndex(item) == CHOOSE i \in DOMAIN AdminItems : AdminItems[i] = item

EntsoeBackfill(f) ==
  UNION {{[calls |-> "backwards_update", index |-> TargetIndex(item), range |-> range] :
            range \in BackfillRanges(f, item)} :
           item \in f.data_item \cap Elements(AdminItems)}

(* _parse_timestamp drops the zone before the two are compared.            *)
GapfillBackfill(f) ==
  {[calls |-> "gapfill_timeseries", start |-> start, end |-> f.gapfill_end, tables |-> tables] :
     start \in {s \in f.gapfill_start \ {Malformed} :
                  \A e \in f.gapfill_end : e # Malformed /\ s.wall <= e.wall},
     tables \in {EnsureList(FormToPayload(f.gapfill_tables))} \cap SUBSET Tables}

PriceForecast(f) ==
  {[calls |-> "run_price_forecast", mode |-> mode, target |-> f.target_date,
    train |-> train, backtest |-> backtest, backend |-> backend] :
     mode \in OrDefault(f.run_mode, "forecast") \cap {"forecast", "self_test"},
     train \in IF Malformed \in f.target_date THEN {} ELSE ParseInt(f.train_days, 14, 365),
     backtest \in ParseInt(f.backtest_days, 0, 60),
     backend \in OrDefault(f.model_backend, "auto") \cap {"auto", "upstream", "ridge"}}

(* get_action_definitions.                                                 *)
Actions(crawler) ==
  {"run_now"} \cup
    CASE crawler = "weather_forecast" -> {"weather_window"}
      [] crawler = "eurostat_crawler" -> {"eurostat_range"}
      [] crawler = "entsoe_api"       -> {"price_forecast"}
      [] crawler = "entsoe_fms"       -> {"entsoe_targeted", "entsoe_backfill", "gapfill_backfill"}

PrepareAction(f, c) ==
  IF ~c.section \/ f.action \notin Actions(f.crawler) THEN {}
  ELSE CASE f.action = "run_now"          -> RunNow(c)
         [] f.action = "weather_window"   -> WeatherWindow(f, c)
         [] f.action = "eurostat_range"   -> EurostatRange(f, c)
         [] f.action = "entsoe_targeted"  -> EntsoeTargeted(f, c)
         [] f.action = "entsoe_backfill"  -> EntsoeBackfill(f)
         [] f.action = "gapfill_backfill" -> GapfillBackfill(f)
         [] f.action = "price_forecast"   -> PriceForecast(f)

-----------------------------------------------------------------------------
(* What is called makes of its arguments: a record, or an error.           *)
Error == [error |-> TRUE]

Locations(c) == IF c.locations = NotSet THEN DefaultLocations ELSE c.locations

Targets(c) ==
  IF c.target_data_items = {} THEN Elements(CrawlerItems)
  ELSE Elements(CrawlerItems) \cap c.target_data_items

(* The settings a crawler reads when it is built and run.  Locations that  *)
(* are not enabled are passed over, and without any the run is an error.   *)
Crawl(crawler, c) ==
  CASE crawler = "weather_forecast" ->
         IF Locations(c) \ c.off = {} THEN Error
         ELSE [forecast |-> c.forecast_hours, past |-> c.past_hours, at |-> Locations(c) \ c.off]
    [] crawler = "eurostat_crawler" -> [dataset |-> c.dataset_id, years |-> c.start_year .. c.end_year]
    [] crawler = "entsoe_fms" -> [items |-> Targets(c)]
    [] crawler = "entsoe_api" -> [days |-> "all"]

(* _build_backfill_periods counts one past the end.  Without a date for    *)
(* each of them backwards_update logs a ValueError and returns.            *)
HasDates(start, end) == start.number .. end.number + 1 \subseteq Dates

BackwardsUpdate(p) ==
  [item |-> CrawlerItems[p.index],
   periods |-> IF p.range = <<>> \/ ~HasDates(p.range[1], p.range[2]) THEN {}
               ELSE p.range[1].number .. p.range[2].number]

Utc(time) == time.wall - time.offset

(* The script reads the configuration when it starts; --tables comes       *)
(* before it.  A job that is not enabled is skipped, without an error.     *)
ConfiguredTables(c) == IF c.gapfill_tables = NotSet THEN PostRunTables ELSE c.gapfill_tables

GapfillTimeseries(p, c) ==
  LET tables == IF p.tables = {} THEN ConfiguredTables(c) ELSE p.tables
  IN  IF ~(tables \subseteq Tables) \/ (\E e \in p.end : Utc(e) < Utc(p.start)) THEN Error
      ELSE IF ~c.gapfill_enabled THEN [tables |-> {}]
      ELSE [tables |-> tables, from |-> Utc(p.start), to |-> {Utc(e) : e \in p.end}]

RunPriceForecast(p) ==
  [mode |-> p.mode, target |-> p.target, train |-> p.train, backtest |-> p.backtest,
   backend |-> p.backend]

Executor(crawler, p, c) ==
  CASE p.calls = "crawler"            -> Crawl(crawler, p.config)
    [] p.calls = "backwards_update"   -> BackwardsUpdate(p)
    [] p.calls = "gapfill_timeseries" -> GapfillTimeseries(p, c)
    [] p.calls = "run_price_forecast" -> RunPriceForecast(p)

-----------------------------------------------------------------------------
(* Every field is filled in as it is meant, or one of them is mistyped.    *)
Mistyped(wish, slip) == [wish EXCEPT ![slip[1]] = slip[2]]

Fill ==
  /\ run.step = "none"
  /\ \E wish \in Wishes, slip \in Slips \cup {<<>>} :
       /\ slip # <<>> => slip[1] \in DOMAIN wish
       /\ run' = [step |-> "filled", wish |-> wish, again |-> FALSE,
                  form |-> IF slip = <<>> THEN wish ELSE Mistyped(wish, slip)]
  /\ UNCHANGED config

(* start_action, with the configuration of this moment.  A form is refused *)
(* when nothing is prepared, or while another run locks the crawler.       *)
StartAction ==
  /\ run.step = "filled"
  /\ LET prepared == PrepareAction(run.form, config)
     IN  \/ run' = [run EXCEPT !.step = "refused"]
         \/ \E p \in prepared :
              run' = [step |-> "queued", wish |-> run.wish, again |-> run.again,
                      form |-> run.form, seen |-> config, prepared |-> p]
  /\ UNCHANGED config

(* The page of a refused form shows what _build_action_values and the      *)
(* template make of it.  A list that sent one value sent a text, and the   *)
(* template selects nothing for a text; one that sent none is missing, and *)
(* shown with its default again.                                           *)
Reshown(selected, default) ==
  LET value == FormToPayload(selected)
  IN  CASE value.is = "absent" -> default
        [] value.is = "text"   -> {}
        [] value.is = "list"   -> value.items

ShownAgain(wish, c) ==
  [x \in DOMAIN wish |->
     CASE x = "gapfill_tables" ->
            Reshown(wish[x], IF c.gapfill_tables = NotSet THEN {} ELSE c.gapfill_tables \cap Tables)
       [] x = "target_data_items" ->
            Reshown(wish[x], c.target_data_items \cap Elements(AdminItems))
       [] OTHER -> wish[x]]

(* The user corrects what was mistyped and sends the page again, once.  A  *)
(* crawler without a section has no forms.                                 *)
Correct ==
  /\ run.step = "refused" /\ ~run.again /\ config.section
  /\ run' = [run EXCEPT !.step = "filled", !.again = TRUE, !.form = ShownAgain(run.wish, config)]
  /\ UNCHANGED config

(* _execute_run.  What is called may also fail for a reason of its own.    *)
ExecuteRun ==
  /\ run.step = "queued"
  /\ LET done == Executor(run.wish.crawler, run.prepared, config)
     IN  \/ done = Error /\ run' = [run EXCEPT !.step = "rejected"]
         \/ done # Error /\ run' = [step |-> "succeeded", wish |-> run.wish, again |-> run.again,
                                    seen |-> run.seen, at |-> config, did |-> done]
         \/ done # Error /\ run' = [step |-> "failed"]
  /\ UNCHANGED config

EditConfig == config' \in Configs /\ UNCHANGED run

Next == Fill \/ StartAction \/ Correct \/ ExecuteRun \/ EditConfig

Spec == Init /\ [][Next]_vars

-----------------------------------------------------------------------------
(* What the page says that a form does.                                    *)
Only(field) == CHOOSE x \in field : TRUE

AskedWeather(f, seen) ==
  [forecast |-> Only(f.forecast_hours), past |-> Only(f.past_hours),
   at |-> IF f.location_ids = {} THEN Locations(seen) \ seen.off ELSE f.location_ids]

YearsOf(f) ==
  {y \in 1990 .. 2100 : (\E s \in f.start_year : s <= y) /\ \E e \in f.end_year : y <= e}

AskedYears(f) == [dataset |-> Only(f.dataset_id), years |-> YearsOf(f)]

AskedItems(f) ==
  [items |-> IF f.target_data_items = {} THEN Elements(CrawlerItems) ELSE f.target_data_items]

FromTo(f) == UNION {s.number .. e.number : s \in f.start, e \in f.end}

AskedPeriods(f) ==
  [item |-> Only(f.data_item),
   periods |-> IF Cadence[Only(f.data_item)] = "single" THEN {} ELSE FromTo(f)]

AskedTables(f, at) ==
  [tables |-> IF f.gapfill_tables = {} THEN ConfiguredTables(at) ELSE f.gapfill_tables,
   from |-> Utc(Only(f.gapfill_start)), to |-> {Utc(e) : e \in f.gapfill_end}]

AskedForecast(f) ==
  [mode |-> Only(f.run_mode), target |-> f.target_date, train |-> Only(f.train_days),
   backtest |-> Only(f.backtest_days), backend |-> Only(f.model_backend)]

Asked(f, seen, at) ==
  CASE f.action = "run_now"          -> Crawl(f.crawler, seen)
    [] f.action = "weather_window"   -> AskedWeather(f, seen)
    [] f.action = "eurostat_range"   -> AskedYears(f)
    [] f.action = "entsoe_targeted"  -> AskedItems(f)
    [] f.action = "entsoe_backfill"  -> AskedPeriods(f)
    [] f.action = "gapfill_backfill" -> AskedTables(f, at)
    [] f.action = "price_forecast"   -> AskedForecast(f)

(* What the constants stand for.  The two lists of items name the same      *)
(* ones in the same order.  A form that a user means to send has one value *)
(* in each field that takes one; a mistake is a value that is refused, or  *)
(* of a field that does not matter.                                        *)
ConfigType ==
  [section : BOOLEAN, locations : {NotSet} \cup SUBSET STRING, off : SUBSET STRING,
   forecast_hours : Int, past_hours : Int, dataset_id : STRING, start_year : Int, end_year : Int,
   target_data_items : SUBSET STRING, gapfill_enabled : BOOLEAN,
   gapfill_tables : {NotSet} \cup SUBSET STRING]

Fields(f) ==
  CASE f.action = "run_now"          -> TRUE
    [] f.action = "weather_window"   -> IsOne(f.forecast_hours) /\ IsOne(f.past_hours) /\ f.location_ids # NotSet
    [] f.action = "eurostat_range"   -> IsOne(f.dataset_id) /\ IsOne(f.start_year) /\ IsOne(f.end_year)
    [] f.action = "entsoe_targeted"  -> TRUE
    [] f.action = "entsoe_backfill"  -> IsOne(f.data_item) /\ IsAtMostOne(f.start) /\ IsAtMostOne(f.end)
    [] f.action = "gapfill_backfill" -> IsOne(f.gapfill_start)
    [] f.action = "price_forecast"   -> /\ IsOne(f.run_mode) /\ IsOne(f.train_days)
                                        /\ IsOne(f.backtest_days) /\ IsOne(f.model_backend)

IsForm(f) ==
  /\ f = [x \in DOMAIN f |-> f[x]]
  /\ f.crawler \in {"weather_forecast", "eurostat_crawler", "entsoe_api", "entsoe_fms"}
  /\ "target_data_items" \in DOMAIN f => f.action = "entsoe_targeted"
  /\ "gapfill_tables" \in DOMAIN f => f.action = "gapfill_backfill"
  /\ Fields(f)

ActionsAssumption ==
  /\ AdminItems = CrawlerItems
  /\ Configs \subseteq ConfigType
  /\ \A f \in Wishes : IsForm(f)
  /\ \A f \in Wishes, slip \in Slips : slip[1] \in DOMAIN f =>
       \A c \in Configs : PrepareAction(Mistyped(f, slip), c) \subseteq PrepareAction(f, c)

(* A backfill of periods some of which have no dates.                      *)
NoDates(f) ==
  Cadence[Only(f.data_item)] # "single" /\ \E s \in f.start, e \in f.end : ~HasDates(s, e)

(* Where the code does not do what the page says:                          *)
(* an empty selection runs the configured items, not all of them; a        *)
(* location that is asked for but not enabled is passed over; a run that   *)
(* gap filling is not enabled for does nothing, nor does a backfill of     *)
(* periods that datetime accepts and pandas has no dates for; and a form   *)
(* that was refused is shown without an entry that was selected alone, and *)
(* with the configured ones when none was.                                 *)
Excepted ==
  LET f == run.wish
  IN  \/ f.action = "entsoe_targeted" /\ f.target_data_items = {} /\ run.seen.target_data_items # {}
      \/ f.action = "weather_window" /\ f.location_ids \cap run.seen.off # {}
      \/ f.action = "gapfill_backfill" /\ ~run.at.gapfill_enabled
      \/ f.action = "entsoe_backfill" /\ NoDates(f)
      \/ f.action = "gapfill_backfill" /\ run.again /\ IsAtMostOne(f.gapfill_tables)
      \/ f.action = "entsoe_targeted" /\ run.again /\ IsAtMostOne(f.target_data_items)

(* A manual run that is shown as succeeded was called for exactly what its *)
(* form asked for, also after corrections and with a configuration that is *)
(* edited meanwhile.                                                       *)
ActsAsAsked ==
  run.step = "succeeded" => run.did = Asked(run.wish, run.seen, run.at) \/ Excepted

=============================================================================
