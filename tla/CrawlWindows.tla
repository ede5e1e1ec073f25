----------------------------- MODULE CrawlWindows -----------------------------
(***************************************************************************)
(* Crawlers that replace what their tables hold for the last days by what  *)
(* the service answers: netztransparenz, gie_agsi_alsi, tradinghub, eia    *)
(* and regelleistung.                                                      *)
(***************************************************************************)
EXTENDS CrawlerTables

CONSTANT Ambiguous  \* the days of the local hour that comes twice

(* lookback_days, up to and with today.                                    *)
DateWindow == {t \in Days : t >= now - LookBack /\ t <= now}

(* The rows of a series that a request for the window replaces.            *)
WindowOf(s) == {s} \X DateWindow

NoKey == {}

-----------------------------------------------------------------------------
(* netztransparenz.  The raw rows of a request are a log and are left out. *)
(* A failed request is reported as well, and the next one follows.         *)
NetzKey == NoKey

NetzNormalized(rows) == Valued(rows)

(* The local time of an ambiguous hour becomes NULL, and such a row is     *)
(* deleted whatever the window.                                            *)
NetzTimed(t) == t \notin Ambiguous

NetzReplace(s, rows) ==
  Replace({<<s, t>> : t \in {d \in Days : NetzTimed(d) => d \in DateWindow}}, NetzKey, rows)

NetzWriteRun(state, rows) == Report(state, rows)

NetzWrites(s, rows) ==
  <<NetzReplace(s, NetzNormalized(rows)), NetzWriteRun("completed", NetzNormalized(rows))>>

NetzComplaint == <<NetzWriteRun("failed", {})>>

NetzRun == RunsWith(FALSE, {"skip"}, "skip")

-----------------------------------------------------------------------------
(* gie_agsi_alsi: all queries first, without those that failed, and then   *)
(* one transaction for the platforms and scopes that have rows.            *)
GieKey == {"series", "time"}

(* For mutation: empties the window of the series that failed as well.     *)
GieReplaceAll(rows) == Replace(Series \X DateWindow, GieKey, rows)

GieReplace(rows) == Replace(UNION {WindowOf(r.series) : r \in rows}, GieKey, rows)

GieWrites(rows) == Unless(rows = {}, <<GieReplace(rows)>>)

GieRun == RunsWith(TRUE, {"skip"}, "abort")

-----------------------------------------------------------------------------
(* tradinghub: a transaction per report; a report that fails is skipped.   *)
(* The two reports without a window are assumed to answer within it.       *)
TradingHubKey == NoKey

TradingHubValues(rows) == Valued(rows)

TradingHubReplace(s, rows) == Replace(WindowOf(s), TradingHubKey, rows)

TradingHubWrites(s, rows) == <<TradingHubReplace(s, TradingHubValues(rows))>>

TradingHubRun == RunsWith(FALSE, {"skip"}, "skip")

-----------------------------------------------------------------------------
(* eia: the tables hold the rows of the last answer only.                  *)
EiaKey == NoKey

EiaValues(rows) == Valued(rows)

EiaReplace(s, rows) == Replace({s} \X Days, EiaKey, rows)

EiaWrites(s, rows) == <<EiaReplace(s, EiaValues(rows))>>

EiaRun == RunsWith(FALSE, {"abort"}, "abort")

-----------------------------------------------------------------------------
(* regelleistung: a series is a file, of which the first of the listing    *)
(* are downloaded, the same in every run.  The listing can fail as well.   *)
RegelKey == NoKey

RegelFiles == {s \in Series : s <= MaxFiles}

RegelWindow(s) == IF s \in RegelFiles THEN Days ELSE {}

RegelWorkbook(rows) == Valued(rows)

RegelReplace(s, rows) == Replace({s} \X Days, RegelKey, rows)

RegelWrites(s, rows) ==
  Unless(s \notin RegelFiles, <<RegelReplace(s, RegelWorkbook(rows))>>)

RegelRun == RunsWith(FALSE, {"skip", "abort"}, "skip")
=============================================================================
