---------------------------- MODULE CrawlSnapshots ----------------------------
(***************************************************************************)
(* Crawlers that fetch all there is: dwd_cdc and osm_power delete the      *)
(* table and fill it again in one transaction, ninja replaces a table per  *)
(* file, power_system_data and eurostat_crawler write over what is there.  *)
(***************************************************************************)
EXTENDS CrawlerTables

WholeTable == Series \X Days

(* A missing value is a row as well.                                       *)
DwdKey              == {"series", "time"}
DwdVariables(rows)  == rows
DwdWrites(rows)     == <<Replace(WholeTable, DwdKey, DwdVariables(rows))>>
DwdRun              == RunsWith(TRUE, {"abort"}, "abort")

(* Features that exist.                                                    *)
OsmKey            == {"series", "time"}
OsmFeatures(rows) == Valued(rows)
OsmWrites(rows)   == <<Replace(WholeTable, OsmKey, OsmFeatures(rows))>>
OsmRun            == RunsWith(TRUE, {"abort"}, "abort")

(* A file that is not there is skipped.                                    *)
NinjaWrites(s, rows) == <<Replace({s} \X Days, {}, rows)>>
NinjaRun             == RunsWith(FALSE, {"skip", "abort"}, "abort")

(* Plants without a position are dropped.                                  *)
PowerSystemKey          == {"series", "time"}
PowerSystemUpsert(rows) == <<Upsert(PowerSystemKey, rows)>>
PowerSystemWrites(rows) == PowerSystemUpsert(Valued(rows))
PowerSystemRun          == RunsWith(TRUE, {"abort"}, "abort")

(* Years without a value are dropped.                                      *)
EurostatKey          == {"series", "time"}
EurostatFrame(rows)  == Valued(rows)
EurostatUpsert(rows) == <<Upsert(EurostatKey, rows)>>
EurostatWrites(rows) == Unless(EurostatFrame(rows) = {}, EurostatUpsert(EurostatFrame(rows)))
EurostatRun          == RunsWith(TRUE, {"abort"}, "abort")
=============================================================================
