--------------------------- MODULE MCAdminService ---------------------------
(* Small instances of the admin service, for two runs.  In the first, a    *)
(* behaviour is the manual runs of AdminRuns, where form.step stays "off", *)
(* or one form of AdminActions from the page to the call, while no run is  *)
(* started.  In the second, it is the windows and the file of ConfigStore, *)
(* where text stays NoText, or a text of ConfigForms, while nobody else    *)
(* writes the file.                                                        *)
EXTENDS AdminRuns, MCConfigTexts, Integers, Sequences, FiniteSets

CONSTANTS AdminItems, CrawlerItems, Cadence, Dates, GapfillTables, PostRunTables, DefaultLocations,
          NotSet, Malformed, FormConfigs, Wishes, Slips,  \* of AdminActions
          Users, Values,        \* of ConfigStore
          NoText,
          ConfigTexts, NewSchedules, TableNames  \* of ConfigForms

FmsItems == <<"filling", "load", "units">>
Cadences == [filling |-> "annual", load |-> "monthly", units |-> "single"]
AllTables    == {"prices", "load", "flows"}
PostRuns     == {"prices", "load"}
TwoLocations == {"berlin", "hamburg"}

Base == [section |-> TRUE, locations |-> NotSet, off |-> {}, forecast_hours |-> 120, past_hours |-> 24,
         dataset_id |-> "capacity", start_year |-> 2019, end_year |-> 2020, target_data_items |-> {},
         gapfill_enabled |-> TRUE, gapfill_tables |-> NotSet]

SmallConfigs ==
  {Base,
   [Base EXCEPT !.section = FALSE],
   [Base EXCEPT !.locations = {"berlin", "essen"}, !.off = {"essen"}, !.past_hours = 0],
   [Base EXCEPT !.locations = {}, !.target_data_items = {"load", "gone"}, !.gapfill_enabled = FALSE],
   [Base EXCEPT !.target_data_items = {"units"}, !.gapfill_tables = {"prices"}, !.start_year = 2020],
   [Base EXCEPT !.gapfill_tables = {"prices", "gone"}]}

FiveDates == 1 .. 5

Period(unit, n) == [unit |-> unit, number |-> n]
Hour(wall, offset) == [wall |-> wall, offset |-> offset]

SmallWishes ==
  [action : {"run_now"}, crawler : {"weather_forecast", "eurostat_crawler", "entsoe_fms", "entsoe_api"}]
    \cup [action : {"weather_window"}, crawler : {"weather_forecast"},
          forecast_hours : {{1}, {336}}, past_hours : {{0}, {24}},
          location_ids : SUBSET {"berlin", "essen"}]
    \cup [action : {"eurostat_range"}, crawler : {"eurostat_crawler"}, dataset_id : {{"balance"}},
          start_year : {{1990}, {2100}}, end_year : {{1990}, {2100}}]
    \cup [action : {"entsoe_targeted"}, crawler : {"entsoe_fms"},
          target_data_items : SUBSET {"filling", "load", "units"}]
    \cup [action : {"entsoe_backfill"}, crawler : {"entsoe_fms"},
          data_item : {{"filling"}, {"load"}, {"units"}},
          start : {{}, {Period("annual", 1)}, {Period("monthly", 2)}},
          end : {{Period("annual", 1)}, {Period("annual", 2)}, {Period("annual", 5)},
                 {Period("monthly", 2)}, {Period("monthly", 4)}}]
    \cup [action : {"gapfill_backfill"}, crawler : {"entsoe_fms"},
          gapfill_start : {{Hour(2, 0)}, {Hour(2, -1)}, {Hour(3, 2)}},
          gapfill_end : {{}, {Hour(2, 0)}, {Hour(4, 2)}},
          gapfill_tables : SUBSET {"prices", "load", "flows"}]
    \cup [action : {"price_forecast"}, crawler : {"entsoe_api", "entsoe_fms"},
          run_mode : {{"forecast"}, {"self_test"}}, target_date : {{}, {1}},
          train_days : {{14}, {365}}, backtest_days : {{0}, {60}}, model_backend : {{"auto"}, {"ridge"}}]

SmallSlips ==
  {<<"location_ids", {"berlin", "gone"}>>, <<"end_year", {2101}>>, <<"start", {Period("annual", 6)}>>,
   <<"gapfill_start", {Malformed}>>, <<"gapfill_end", {Hour(0, 0)}>>, <<"target_date", {Malformed}>>,
   <<"train_days", {13}>>, <<"backtest_days", {}>>, <<"past_hours", {337}>>}

VARIABLES config, form,          \* of AdminActions
          file, page, handler,   \* of ConfigStore
          text                   \* of ConfigForms

forms == <<config, form>>
saves == <<file, page, handler, text>>

Page == INSTANCE AdminActions WITH
  run <- form, Tables <- GapfillTables, Configs <- FormConfigs

ASSUME FormConstants == Page!ActionsAssumption

Store == INSTANCE ConfigStore

Forms == INSTANCE ConfigForms WITH Configs <- ConfigTexts, Schedules <- NewSchedules, TableOf <- TableNames

-----------------------------------------------------------------------------
(* The first run: manual runs and forms.                                   *)
NoForm == config = (CHOOSE c \in FormConfigs : TRUE) /\ form = [step |-> "off"]

OneText == CHOOSE c \in Store!Content : TRUE

NoSaves == /\ file = OneText /\ page = [u \in Users |-> Store!NoPage]
           /\ handler = Store!Idle /\ text = NoText

RunsInit == Init /\ (NoForm \/ Page!Init) /\ NoSaves

Runs_(A) == form.step = "off" /\ A

RunsNext ==
  \/ Runs_(Next) /\ UNCHANGED <<forms, saves>>
  \/ form.step # "off" /\ Page!Next /\ UNCHANGED <<vars, saves>>

(* FairSpec of AdminRuns.                                                  *)
RunsSpec ==
  /\ RunsInit /\ [][RunsNext]_<<vars, forms, saves>>
  /\ WF_vars(Runs_(Start))
  /\ \A r \in Runs : WF_vars(Runs_(RunStep(r)))

(* ActsAsAsked of AdminActions, where a form is sent: what is shown as     *)
(* succeeded was called for what the form asked for.                       *)
ActsAsAsked == form.step # "off" => Page!ActsAsAsked

-----------------------------------------------------------------------------
(* The second run: the configuration.                                      *)
ConfigInit ==
  /\ Init /\ NoForm
  /\ \/ Store!Init /\ text = NoText
     \/ Forms!Init /\ file = OneText /\ page = [u \in Users |-> Store!NoPage] /\ handler = Store!Idle

ConfigNext ==
  \/ text = NoText /\ Store!Next /\ UNCHANGED <<vars, forms, text>>
  \/ text # NoText /\ Forms!Next /\ UNCHANGED <<vars, forms, file, page, handler>>

ConfigSpec == ConfigInit /\ [][ConfigNext]_<<vars, forms, saves>>

(* From the editor and the dashboard, a save only writes over the text the *)
(* page was rendered from, over what came after the request, or over its   *)
(* own truncated file.                                                     *)
NoUnseenOverwrite == Store!NoUnseenOverwrite

(* What the dashboard shows as enabled is what the scheduler loads.        *)
ShownIsLoaded == text # NoText => Forms!ShownIsLoaded

(* Jobs that write one table share a lock key.                             *)
LocksCover == text # NoText => Forms!LocksCover

(* A saved dialog changes what the scheduler loads as it says, and in      *)
(* nothing else.                                                           *)
SaveIsExact == [][text # NoText => Forms!SavesExactly]_text

=============================================================================
