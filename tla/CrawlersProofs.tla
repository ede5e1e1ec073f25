---------------------------- MODULE CrawlersProofs ----------------------------
(***************************************************************************)
(* What a daily crawler's table and its reports promise, for every crawler *)
(* and every value of the constants.  The invariant, DailyInv, relates the *)
(* rows that are stored, what the service has published, the answers the   *)
(* run has gathered and the transactions it has still to write: each of    *)
(* them writes rows that are no older than the table's, a cell in one of   *)
(* them only, and empties a cell before it inserts it without a key.  The  *)
(* lemmas go from the operators (answers, lists of transactions, what each *)
(* crawler writes) to the steps of a run.  A second invariant, ReachInv,   *)
(* on top of it, says what becomes of a cell that is missing: in a sliding *)
(* window it is due or in the hand of the run, and where a crawler reads   *)
(* on from its newest row, no row that is stored or about to be passes it. *)
(* The days are those of Horizon, three or, for smard, four: the lists     *)
(* that are written file by file or chunk by chunk are unfolded over them. *)
(***************************************************************************)
EXTENDS Crawlers, SequenceTheorems, FiniteSetTheorems, TLAPS

(* Whose windows depend on what is stored.                                 *)
ReadOn    == {"epex", "epex_ida", "smard", "entsog"}
(* Who stores no row without a value.                                      *)
Valuing   == {"smard", "netz", "tradinghub", "eia", "regelleistung", "copernicus", "osm"}
(* Who gathers, and stops at the first failure.                            *)
Whole     == {"open_meteo", "dwd", "osm"}
Reporting == {"netz", "copernicus"}

LastSeries == IF crawler \in {"copernicus", "energy_forecast"} THEN 1 ELSE NSeries

WriteSet == [clear : SUBSET (Series \X Days), key : SUBSET {"series", "time", "at"}, update : BOOLEAN,
             rows : SUBSET Row, optional : BOOLEAN, report : {"none", "running", "completed", "failed"}]

Fresh(rows) ==
  \A r \in rows : /\ r.time <= now /\ r.rev <= source[r.series][r.time]
                  /\ \A q \in table : Cell(q) = Cell(r) => q.rev <= r.rev

HasValues(rows) == crawler \in Valuing => \A r \in rows : r.rev > 0

Distinct(rows) == \A q, r \in rows : Cell(q) = Cell(r) => q = r

(* The rows that are stored.                                               *)
TableFine ==
  \A r \in table :
    /\ r.series \in Series /\ r.time \in Days /\ r.rev \in 0 .. 2
    /\ r.time <= now /\ r.rev <= source[r.series][r.time]
    /\ crawler \in Valuing => r.rev > 0

Key == IF crawler = "weather" THEN {"series", "time", "at"} ELSE {"series", "time"}

Covers(w)  == \A r \in w.rows : Cell(r) \in w.clear
Upserts(w) == /\ w.update /\ w.clear = {} /\ w.key = Key
              /\ crawler = "weather" => \A r \in w.rows : r.at = now
Sound(w) ==
  \/ Upserts(w)
  \/ ~w.update /\ w.key = {"series", "time"} /\ crawler # "weather" /\ Covers(w)
  \/ ~w.update /\ w.key = {}

(* The cells of a write that only inserts have been emptied before.        *)
Emptied(todo, i) ==
  IF i = 1 THEN \A r \in todo[1].rows, q \in table : Cell(q) = Cell(r) => Cell(r) \in spoilt
  ELSE /\ todo[i - 1].optional /\ todo[i - 1].rows = {} /\ todo[i - 1].report = "none"
       /\ todo[i - 1].key = {}
       /\ \A r \in todo[i].rows : Cell(r) \in todo[i - 1].clear

Restores(w) ==
  \A q \in table : Cell(q) \in w.clear /\ Wanted(Cell(q)) => \E r \in w.rows : Cell(r) = Cell(q)

IsStored(rows) == \A r \in rows : Wanted(Cell(r)) => \E q \in RowsOf(Cell(r)) : q.rev >= r.rev

TodoFine(todo) ==
  /\ todo \in Seq(WriteSet)
  /\ \A i \in 1 .. Len(todo) : Fresh(todo[i].rows) /\ HasValues(todo[i].rows)
  /\ \A i, j \in 1 .. Len(todo) : \A q \in todo[i].rows, r \in todo[j].rows : Cell(q) = Cell(r) => q = r
  /\ \A i \in 1 .. Len(todo) : todo[i].report = "none" =>
       /\ Sound(todo[i])
       /\ todo[i].key = {} => Covers(todo[i]) \/ Emptied(todo, i)
       /\ crawler = "entsog" \/ todo[i].clear = {} \/ (i = 1 /\ Restores(todo[i]))
  /\ \A i \in 1 .. Len(todo) : todo[i].report = "completed" =>
       \/ i = 1 /\ IsStored(todo[1].rows)
       \/ /\ i = 2 /\ todo[1].report = "none" /\ ~todo[1].optional
          /\ todo[2].rows \subseteq todo[1].rows
  /\ \A i \in 1 .. Len(todo) : todo[i].report # "none" => crawler \in Reporting /\ todo[i].update /\ ~todo[i].optional

(* The answers so far.                                                     *)
GotSeries(s) == \A t \in run.windows[s] : t <= now => \E q \in run.got : Cell(q) = <<s, t>>
GotFine ==
  /\ Fresh(run.got)
  /\ Distinct(run.got)
  /\ \A r \in run.got : /\ r.series < run.series /\ r.at = 0
                        /\ r.time \in run.windows[r.series] /\ GotSeries(r.series)
  /\ crawler \in Whole => \A s \in Series : s < run.series => GotSeries(s)

RunSet == [step : {"asking", "writing"}, series : 0 .. LastSeries, windows : [Series -> SUBSET Days],
           got : SUBSET Row, todo : Seq(WriteSet), failing : BOOLEAN, ending : BOOLEAN]

(* The opening of copernicus, before its request.                          *)
IsOpening == /\ crawler = "copernicus" /\ run.step = "writing" /\ ~run.ending
             /\ run.todo = <<Report("running", {})>>

Writing ==
  /\ run.todo # <<>> /\ TodoFine(run.todo)
  /\ run.ending \/ (run.series < LastSeries /\ ~RunOf.gathers)
  /\ \A i \in 1 .. Len(run.todo) : run.todo[i].report = "running" => run.series = 0

Running ==
  /\ run \in RunSet
  /\ crawler \notin ReadOn => \A s \in Series : run.windows[s] = Window(s)
  /\ ~RunOf.gathers => run.got = {}
  /\ run.step = "asking" => run.series >= 1 /\ run.todo = <<>> /\ GotFine
  /\ run.step = "writing" => Writing
  /\ run.series = 0 => IsOpening

RunFine == run = Idle \/ Running

(* The request of copernicus, from its opening to its last transaction.    *)
UnderWay(id) ==
  /\ crawler = "copernicus" /\ id = <<1, now>> /\ run.series = 1
  /\ \/ run.step = "asking"
     \/ run.step = "writing" /\ run.ending /\ run.todo[Len(run.todo)].report \in {"completed", "failed"}

ReportsFine ==
  \A id \in Requests :
    /\ reports[id].rows \in SUBSET Row
    /\ reports[id].state # "none" => crawler \in Reporting
    /\ reports[id].state = "completed" => IsStored(reports[id].rows)
    /\ reports[id].state = "running" => cut \/ UnderWay(id)

Facts ==
  /\ crawler \in AllCrawlers /\ now \in Days
  /\ source \in [Series -> [Days -> 0 .. 2]]
  /\ DOMAIN reports = Requests

DailyInv == Facts /\ TableFine /\ NoDuplicates /\ RunFine /\ ReportsFine

-----------------------------------------------------------------------------
(* The numbers of the series, and how many there are.                      *)
LEMMA SeriesAre ==
  /\ LastSeries \in Nat \ {0} /\ Series = 1 .. LastSeries
  /\ Cardinality(Series) = LastSeries
<1>1. LastSeries \in Nat \ {0} /\ Series = 1 .. LastSeries
  BY TablesAssumption DEF LastSeries, Series
<1>2. Cardinality(1 .. LastSeries) = LastSeries
  BY <1>1, FS_Interval
<1> QED BY <1>1, <1>2

(* The days of a run of the checked length.                                *)
LEMMA DaysAre == Horizon \in {3, 4} /\ Days = 1 .. Horizon
  BY DEF Horizon, Days

(* What an answer has: a row for each day of the window until today.       *)
LEMMA AnswerIs ==
  ASSUME Facts, NEW s \in Series, NEW window \in SUBSET Days
  PROVE  /\ Answer(s, window) \in SUBSET Row
         /\ \A r \in Answer(s, window) :
              /\ r.series = s /\ r.time \in window /\ r.time <= now
              /\ r.rev = source[s][r.time] /\ r.at = 0
         /\ \A t \in window : t <= now => \E r \in Answer(s, window) : Cell(r) = <<s, t>>
<1> DEFINE row(t) == [series |-> s, time |-> t, rev |-> source[s][t], at |-> 0, copy |-> 1]
<1>1. Answer(s, window) = {row(t) : t \in {d \in window : d <= now}}
  BY DEF Answer
<1>2. ASSUME NEW t \in window PROVE row(t) \in Row /\ Cell(row(t)) = <<s, t>>
  <2>1. source[s][t] \in 0 .. 2
    BY DEF Facts
  <2>2. 0 \in 0 .. Horizon /\ 1 \in Nat
    BY DaysAre
  <2> QED BY <2>1, <2>2 DEF Row, Cell
<1>3. \A t \in window : /\ row(t).series = s /\ row(t).time = t /\ row(t).rev = source[s][t] /\ row(t).at = 0
  OBVIOUS
<1> HIDE DEF row
<1> QED BY <1>1, <1>2, <1>3

(* An answer is newer than what is stored, and has a cell once.            *)
LEMMA AnswerFine ==
  ASSUME Facts, TableFine, NEW s \in Series, NEW window \in SUBSET Days
  PROVE  Fresh(Answer(s, window)) /\ Distinct(Answer(s, window))
<1> DEFINE A == Answer(s, window)
<1>1. \A r \in A : /\ r \in Row /\ r.series = s /\ r.time \in window /\ r.time <= now
                   /\ r.rev = source[s][r.time] /\ r.at = 0
  BY AnswerIs
<1>2. Fresh(A)
  <2> SUFFICES ASSUME NEW r \in A
               PROVE  /\ r.time <= now /\ r.rev <= source[r.series][r.time]
                      /\ \A q \in table : Cell(q) = Cell(r) => q.rev <= r.rev
    BY DEF Fresh
  <2>1. r.rev \in 0 .. 2
    BY <1>1 DEF Row
  <2> QED BY <1>1, <2>1 DEF TableFine, Cell
<1>3. Distinct(A)
  <2> SUFFICES ASSUME NEW q \in A, NEW r \in A, Cell(q) = Cell(r) PROVE q = r
    BY DEF Distinct
  <2>1. q.time = r.time
    BY DEF Cell
  <2> QED BY <2>1 DEF Answer
<1> QED BY <1>2, <1>3

(* Fewer rows are as fresh.                                                *)
LEMMA FewerRows ==
  ASSUME NEW rows, NEW some \in SUBSET rows
  PROVE  /\ Fresh(rows) => Fresh(some)
         /\ Distinct(rows) => Distinct(some)
         /\ HasValues(rows) => HasValues(some)
  BY DEF Fresh, Distinct, HasValues

-----------------------------------------------------------------------------
(* What makes a list of transactions fine.                                 *)
Cells == Series \X Days
KeyFields == {"series", "time", "at"}

(* Two transactions, one after the other, as a list.                       *)
LEMMA PairIs == \A a, b : <<a>> \o <<b>> = <<a, b>>
<1> SUFFICES ASSUME NEW a, NEW b PROVE <<a>> \o <<b>> = <<a, b>>
  OBVIOUS
<1> DEFINE S == {a, b}  x == <<a>>  y == <<b>>  z == <<a, b>>
<1>1. /\ x \in Seq(S) /\ Len(x) = 1 /\ x[1] = a
      /\ y \in Seq(S) /\ Len(y) = 1 /\ y[1] = b
      /\ z \in Seq(S) /\ Len(z) = 2 /\ z[1] = a /\ z[2] = b
  OBVIOUS
<1> HIDE DEF x, y, z
<1>2. x \o y \in Seq(S) /\ Len(x \o y) = 2 /\ (x \o y)[1] = a /\ (x \o y)[2] = b
  BY <1>1, ConcatProperties
<1>3. x \o y = z
  BY <1>1, <1>2, SeqEqual
<1> QED BY <1>3 DEF x, y, z

(* There is nothing wrong with writing nothing.                            *)
LEMMA NoTodo == TodoFine(<<>>)
  BY DEF TodoFine

(* One transaction: it may empty what it writes, or upsert it.             *)
LEMMA OneWrite ==
  ASSUME NEW w \in WriteSet, Fresh(w.rows), HasValues(w.rows), Distinct(w.rows), w.report = "none",
         Sound(w), w.key = {} => Covers(w), w.clear = {} \/ Restores(w)
  PROVE  TodoFine(<<w>>)
<1> DEFINE todo == <<w>>
<1>1. todo \in Seq(WriteSet) /\ Len(todo) = 1 /\ todo[1] = w
  OBVIOUS
<1>2. \A i \in 1 .. Len(todo) : i = 1
  BY <1>1
<1> HIDE DEF todo
<1>3. \A i, j \in 1 .. Len(todo) : \A q \in todo[i].rows, r \in todo[j].rows : Cell(q) = Cell(r) => q = r
  BY <1>1, <1>2 DEF Distinct
<1>4. TodoFine(todo)
  BY <1>1, <1>2, <1>3 DEF TodoFine
<1> QED BY <1>4 DEF todo

(* A report that says that a run is under way or has failed.               *)
LEMMA OneReport ==
  ASSUME crawler \in Reporting, NEW state \in {"running", "failed"}
  PROVE  TodoFine(<<Report(state, {})>>)
<1> DEFINE w == Report(state, {})  todo == <<w>>
<1>0. w \in WriteSet /\ w.rows = {} /\ w.report = state /\ w.update = TRUE /\ w.optional = FALSE
  BY DEF Report, Write, WriteSet
<1> HIDE DEF w
<1>1. todo \in Seq(WriteSet) /\ Len(todo) = 1 /\ todo[1] = w
  BY <1>0
<1>2. \A i \in 1 .. Len(todo) : i = 1
  BY <1>1
<1> HIDE DEF todo
<1>3. TodoFine(todo)
  BY <1>0, <1>1, <1>2 DEF TodoFine, Fresh, HasValues
<1> QED BY <1>3 DEF todo, w

(* A transaction, and the report that its rows are stored.                 *)
LEMMA WriteAndReport ==
  ASSUME crawler \in Reporting, NEW w \in WriteSet, Fresh(w.rows), HasValues(w.rows), Distinct(w.rows),
         w.report = "none", ~w.optional,
         Sound(w), w.key = {} => Covers(w), w.clear = {} \/ Restores(w)
  PROVE  TodoFine(<<w, Report("completed", w.rows)>>)
<1> DEFINE v == Report("completed", w.rows)  todo == <<w, v>>
<1>0. v \in WriteSet /\ v.rows = w.rows /\ v.report = "completed" /\ v.update = TRUE /\ v.optional = FALSE
  <2>1. w.rows \in SUBSET Row
    BY DEF WriteSet
  <2> QED BY <2>1 DEF Report, Write, WriteSet
<1> HIDE DEF v
<1>1. todo \in Seq(WriteSet) /\ Len(todo) = 2 /\ todo[1] = w /\ todo[2] = v
  BY <1>0
<1>2. \A i \in 1 .. Len(todo) : i = 1 \/ i = 2
  BY <1>1
<1> HIDE DEF todo
<1>3. \A i, j \in 1 .. Len(todo) : \A q \in todo[i].rows, r \in todo[j].rows : Cell(q) = Cell(r) => q = r
  BY <1>0, <1>1, <1>2 DEF Distinct
<1>4. TodoFine(todo)
  <2>1. \A i \in 1 .. Len(todo) : Fresh(todo[i].rows) /\ HasValues(todo[i].rows)
    BY <1>0, <1>1, <1>2
  <2>2. \A i \in 1 .. Len(todo) : todo[i].report = "none" => i = 1
    BY <1>0, <1>1, <1>2
  <2>3. todo[2].rows \subseteq todo[1].rows
    BY <1>0, <1>1
  <2> QED BY <1>0, <1>1, <1>2, <1>3, <2>1, <2>2, <2>3 DEF TodoFine
<1> QED BY <1>4 DEF todo, v

-----------------------------------------------------------------------------
(* What a run writes about an answer.  Given(s, rows): the rows are what   *)
(* the series up to s have answered, each for its window.                  *)
Complete(rows, s) == \A t \in run.windows[s] : t <= now => \E q \in rows : Cell(q) = <<s, t>>

Given(s, rows) ==
  /\ rows \in SUBSET Row /\ Fresh(rows) /\ Distinct(rows)
  /\ run.windows \in [Series -> SUBSET Days]
  /\ crawler \notin ReadOn => \A u \in Series : run.windows[u] = Window(u)
  /\ \A r \in rows : r.at = 0 /\ r.time \in run.windows[r.series] /\ Complete(rows, r.series)

(* Of one series, and of all.                                              *)
GivenOne(s, rows) == Given(s, rows) /\ Complete(rows, s) /\ \A r \in rows : r.series = s
GivenAll(s, rows) == Given(s, rows) /\ \A u \in Series : Complete(rows, u)

Gatherers == {"gie", "open_meteo", "weather", "dwd", "osm", "power_system", "eurostat"}

(* The windows that the date alone tells.                                  *)
LEMMA WindowIs ==
  /\ crawler \in {"netz", "gie", "tradinghub", "eia"} => \A s \in Series : Window(s) = DateWindow
  /\ crawler \in {"dwd", "osm", "ninja", "power_system", "eurostat"} => \A s \in Series : Window(s) = Days
  /\ crawler = "regelleistung" => \A s \in Series : Window(s) = RegelWindow(s)
  /\ crawler = "copernicus" => \A s \in Series : Window(s) = CopernicusMonth
  /\ crawler = "open_meteo" => \A s \in Series : Window(s) = ForecastHours
  BY DEF Window, Snapshots

(* Who gathers, and who of them goes on without an answer.                 *)
LEMMA RunOfIs ==
  ASSUME crawler \in AllCrawlers
  PROVE  /\ RunOf.gathers \in BOOLEAN /\ (RunOf.gathers <=> crawler \in Gatherers)
         /\ RunOf.gathers /\ "skip" \in RunOf.onRequest => crawler \in {"gie", "weather"}
  BY DEF RunOf, AllCrawlers, Gatherers, RunsWith, Snapshots, EpexRun, SmardRun, EntsoeRun, EntsogRun, NetzRun,
         GieRun, TradingHubRun, EiaRun, RegelRun, OpenMeteoRun, WeatherRun, EnergyForecastRun,
         CopernicusRun, DwdRun, OsmRun, NinjaRun, PowerSystemRun, EurostatRun

(* Who gathers has one transaction, and ends when it fails.                *)
LEMMA RunOfAborts ==
  ASSUME crawler \in AllCrawlers, RunOf.gathers
  PROVE  RunOf.onWrite = "abort"
  BY DEF RunOf, AllCrawlers, RunsWith, Snapshots, EpexRun, SmardRun, EntsoeRun, EntsogRun, NetzRun,
         GieRun, TradingHubRun, EiaRun, RegelRun, OpenMeteoRun, WeatherRun, EnergyForecastRun,
         CopernicusRun, DwdRun, OsmRun, NinjaRun, PowerSystemRun, EurostatRun

(* A table whose key is the cell is written over.                          *)
LEMMA UpsertFine ==
  ASSUME NEW rows \in SUBSET Row, NEW some \in SUBSET rows, Fresh(rows), Distinct(rows),
         crawler # "weather", HasValues(some)
  PROVE  TodoFine(<<Upsert({"series", "time"}, some)>>)
<1> DEFINE key == {"series", "time"}  w == Upsert(key, some)
<1>1. Fresh(some) /\ Distinct(some)
  BY FewerRows
<1>2. some \in SUBSET Row /\ key \in SUBSET KeyFields
  BY DEF KeyFields
<1>3. /\ w \in WriteSet /\ w.clear = {} /\ w.key = key /\ w.update = TRUE
      /\ w.rows = some /\ w.report = "none"
  BY <1>2 DEF Upsert, Write, WriteSet, KeyFields
<1> HIDE DEF w
<1>4. Sound(w)
  BY <1>3 DEF Sound, Upserts, Key
<1>5. w.key # {}
  BY <1>3
<1>6. TodoFine(<<w>>)
  BY <1>1, <1>3, <1>4, <1>5, OneWrite
<1> QED BY <1>6 DEF w

(* Cells are emptied and written anew.                                     *)
LEMMA ReplaceFine ==
  ASSUME NEW rows \in SUBSET Row, Fresh(rows), Distinct(rows), HasValues(rows),
         crawler # "weather", NEW clear \in SUBSET Cells, NEW key \in {{}, {"series", "time"}},
         \A r \in rows : Cell(r) \in clear,
         \A q \in table : Cell(q) \in clear /\ Wanted(Cell(q)) => \E r \in rows : Cell(r) = Cell(q)
  PROVE  /\ TodoFine(<<Replace(clear, key, rows)>>)
         /\ crawler \in Reporting =>
              TodoFine(<<Replace(clear, key, rows), Report("completed", rows)>>)
<1> DEFINE w == Replace(clear, key, rows)
<1>1. key \in SUBSET KeyFields
  BY DEF KeyFields
<1>2. /\ w \in WriteSet /\ w.clear = clear /\ w.key = key /\ w.update = FALSE
      /\ w.rows = rows /\ w.report = "none" /\ w.optional = FALSE
  BY <1>1 DEF Replace, Write, WriteSet, KeyFields, Cells
<1> HIDE DEF w
<1>3. Covers(w) /\ Restores(w)
  BY <1>2 DEF Covers, Restores
<1>4. Sound(w)
  BY <1>2, <1>3 DEF Sound
<1>5. TodoFine(<<w>>)
  BY <1>2, <1>3, <1>4, OneWrite
<1>6. ASSUME crawler \in Reporting PROVE TodoFine(<<w, Report("completed", rows)>>)
  <2>1. TodoFine(<<w, Report("completed", w.rows)>>)
    BY <1>2, <1>3, <1>4, <1>6, WriteAndReport
  <2> QED BY <1>2, <2>1
<1> QED BY <1>5, <1>6 DEF w

(* A stored cell of a complete answer is answered again, with a value if   *)
(* the stored row has one.                                                 *)
LEMMA AnsweredAgain ==
  ASSUME TableFine, NEW rows \in SUBSET Row, Fresh(rows), NEW s, Complete(rows, s),
         NEW q \in table, q.series = s, q.time \in run.windows[s]
  PROVE  /\ \E r \in rows : Cell(r) = Cell(q)
         /\ q.rev > 0 => \E r \in Valued(rows) : Cell(r) = Cell(q)
<1>1. q.time <= now /\ q.rev \in 0 .. 2
  BY DEF TableFine
<1>2. PICK r \in rows : Cell(r) = <<s, q.time>>
  BY <1>1 DEF Complete
<1>3. Cell(r) = Cell(q)
  BY <1>2 DEF Cell
<1>4. q.rev <= r.rev
  BY <1>3 DEF Fresh
<1>5. r.rev \in 0 .. 2
  BY DEF Row
<1>6. q.rev > 0 => r \in Valued(rows)
  BY <1>1, <1>4, <1>5 DEF Valued
<1> QED BY <1>3, <1>6

-----------------------------------------------------------------------------
(* The days of a file or a chunk, one after the other.                     *)
EpexPart(rows, todo) ==
  todo \in Seq(WriteSet) /\ \A i \in 1 .. Len(todo) : \E X \in SUBSET rows : todo[i] = Upsert(EpexKey, X)

(* The files of EPEX written so far are upserts of different days.         *)
LEMMA EpexPartsFine ==
  ASSUME NEW rows \in SUBSET Row, Fresh(rows), Distinct(rows), crawler \in {"epex", "epex_ida"},
         NEW todo, EpexPart(rows, todo)
  PROVE  TodoFine(todo)
<1> DEFINE n == Len(todo)
<1>1. todo \in Seq(WriteSet)
  BY DEF EpexPart
<1>2. ASSUME NEW i \in 1 .. n
      PROVE  /\ todo[i].rows \subseteq rows /\ todo[i].report = "none" /\ todo[i].clear = {}
             /\ todo[i].key = {"series", "time"} /\ Sound(todo[i]) /\ Fresh(todo[i].rows) /\ HasValues(todo[i].rows)
  <2>1. PICK X \in SUBSET rows : todo[i] = Upsert(EpexKey, X)
    BY DEF EpexPart
  <2> DEFINE w == Upsert(EpexKey, X)
  <2>2. w.rows = X /\ w.report = "none" /\ w.clear = {} /\ w.key = {"series", "time"} /\ w.update
    BY DEF Upsert, Write, EpexKey
  <2> HIDE DEF w
  <2>3. Sound(w)
    BY <2>2 DEF Sound, Upserts, Key
  <2>4. HasValues(X) /\ Fresh(X)
    BY FewerRows DEF HasValues, Valuing
  <2> QED BY <2>1, <2>2, <2>3, <2>4 DEF w
<1> HIDE DEF n
<1>3. \A i, j \in 1 .. n : \A q \in todo[i].rows, r \in todo[j].rows : Cell(q) = Cell(r) => q = r
  BY <1>2 DEF Distinct
<1> QED BY <1>1, <1>2, <1>3 DEF TodoFine, n

(* And so they are with the file of the next day.                          *)
LEMMA EpexPartGrows ==
  ASSUME NEW rows \in SUBSET Row, NEW todo, EpexPart(rows, todo), NEW X \in SUBSET rows
  PROVE  EpexPart(rows, todo \o EpexUpsert(X))
<1>1. CASE X = {}
  <2>1. todo \in Seq(WriteSet) /\ EpexUpsert(X) = <<>>
    BY <1>1 DEF EpexUpsert, Unless, Nothing, EpexPart
  <2>2. todo \o EpexUpsert(X) = todo
    BY <2>1
  <2> QED BY <2>2
<1>2. CASE X # {}
  <2> DEFINE w == Upsert(EpexKey, X)  long == todo \o <<w>>
  <2>1. w \in WriteSet
    BY DEF Upsert, Write, WriteSet, EpexKey
  <2>2. EpexUpsert(X) = <<w>>
    BY <1>2 DEF EpexUpsert, Unless
  <2> HIDE DEF w
  <2>3. todo \in Seq(WriteSet)
    BY DEF EpexPart
  <2>4. /\ long \in Seq(WriteSet) /\ Len(long) = Len(todo) + 1
        /\ \A i \in 1 .. Len(todo) : long[i] = todo[i]
        /\ long[Len(todo) + 1] = w
    BY <2>1, <2>3
  <2>5. ASSUME NEW i \in 1 .. Len(long) PROVE \E Y \in SUBSET rows : long[i] = Upsert(EpexKey, Y)
    <3>1. i \in 1 .. Len(todo) \/ i = Len(todo) + 1
      BY <2>3, <2>4
    <3> QED BY <2>4, <3>1 DEF EpexPart, w
  <2> HIDE DEF long
  <2>6. EpexPart(rows, long)
    BY <2>4, <2>5 DEF EpexPart
  <2> QED BY <2>2, <2>6 DEF long
<1> QED BY <1>1, <1>2

(* A file after the other, day by day.                                     *)
EpexFile(rows, d) == EpexUpsert(EpexParsed({r \in rows : r.time = d}))

(* The recursive list of files, unfolded.                                  *)
LEMMA EpexUnfolds ==
  ASSUME NEW rows, crawler \in {"epex", "epex_ida"}
  PROVE  EpexWrites(rows) = ((Nothing \o EpexFile(rows, 1)) \o EpexFile(rows, 2)) \o EpexFile(rows, 3)
<1> DEFINE U(d) == EpexUpsert(EpexParsed({r \in rows : r.time = d}))
           import == CHOOSE f : f = [d \in 0 .. Horizon |-> IF d = 0 THEN Nothing ELSE f[d - 1] \o U(d)]
           G1 == Nothing \o U(1)  G2 == G1 \o U(2)  G3 == G2 \o U(3)
           G == [d \in 0 .. Horizon |-> IF d = 0 THEN Nothing ELSE IF d = 1 THEN G1
                                        ELSE IF d = 2 THEN G2 ELSE G3]
<1>1. EpexWrites(rows) = import[Horizon]
  BY DEF EpexWrites
<1>2. \A d : U(d) = EpexFile(rows, d)
  BY DEF EpexFile
<1> HIDE DEF U
<1>3. Horizon = 3 /\ 0 .. Horizon = {0, 1, 2, 3}
  BY DEF Horizon
<1>4. ASSUME NEW d \in 0 .. Horizon, d # 0 PROVE G[d] = G[d - 1] \o U(d)
  <2>1. d \in {1, 2, 3} /\ d - 1 \in 0 .. Horizon
    BY <1>3, <1>4
  <2> QED BY <2>1
<1> HIDE DEF G1, G2, G3
<1>5. G = [d \in 0 .. Horizon |-> IF d = 0 THEN Nothing ELSE G[d - 1] \o U(d)]
  BY <1>4
<1> HIDE DEF G
<1>6. import = [d \in 0 .. Horizon |-> IF d = 0 THEN Nothing ELSE import[d - 1] \o U(d)]
  BY <1>5
<1> HIDE DEF import
<1>7. \A d \in 0 .. 3 : import[d] = IF d = 0 THEN Nothing ELSE import[d - 1] \o U(d)
  BY <1>3, <1>6
<1>8. import[0] = Nothing /\ import[1] = import[0] \o U(1)
  BY <1>7
<1>9. import[2] = import[1] \o U(2) /\ import[3] = import[2] \o U(3)
  BY <1>7
<1> QED BY <1>1, <1>2, <1>3, <1>8, <1>9

(* What a run of EPEX writes about an answer is fine.                      *)
LEMMA EpexFine ==
  ASSUME NEW rows \in SUBSET Row, Fresh(rows), Distinct(rows), crawler \in {"epex", "epex_ida"}
  PROVE  TodoFine(EpexWrites(rows))
<1>1. \A d : EpexParsed({r \in rows : r.time = d}) \in SUBSET rows
  BY DEF EpexParsed, EpexAuction, Valued
<1>2. ASSUME NEW todo, NEW d, EpexPart(rows, todo) PROVE EpexPart(rows, todo \o EpexFile(rows, d))
  BY <1>1, <1>2, EpexPartGrows DEF EpexFile
<1>3. EpexPart(rows, Nothing)
  BY DEF EpexPart, Nothing
<1>4. EpexPart(rows, Nothing \o EpexFile(rows, 1))
  BY <1>2, <1>3
<1>5. EpexPart(rows, (Nothing \o EpexFile(rows, 1)) \o EpexFile(rows, 2))
  BY <1>2, <1>4
<1>6. EpexPart(rows, ((Nothing \o EpexFile(rows, 1)) \o EpexFile(rows, 2)) \o EpexFile(rows, 3))
  BY <1>2, <1>5
<1>7. EpexWrites(rows) = ((Nothing \o EpexFile(rows, 1)) \o EpexFile(rows, 2)) \o EpexFile(rows, 3)
  BY EpexUnfolds
<1>8. EpexPart(rows, EpexWrites(rows))
  BY <1>6, <1>7, Zenon
<1> QED BY <1>8, EpexPartsFine

(* The chunks of entsog: each insertion follows the deletion of its day.   *)
EntsogInsert(rows, t) == Replace({}, {}, {r \in rows : r.time = t})

EntsogPart(s, rows, todo) ==
  /\ todo \in Seq(WriteSet)
  /\ \A i \in 1 .. Len(todo) : \E t \in Days :
       \/ todo[i] = EntsogDeleteChunk(s, t)
       \/ i > 1 /\ todo[i - 1] = EntsogDeleteChunk(s, t) /\ todo[i] = EntsogInsert(rows, t)

(* A chunk of entsog: its deletion and its insertion.                      *)
LEMMA ChunkIs ==
  ASSUME NEW s \in Series, NEW rows \in SUBSET Row, NEW t \in Days
  PROVE  EntsogDeleteChunk(s, t) \in WriteSet /\ EntsogInsert(rows, t) \in WriteSet
<1>1. {r \in rows : r.time = t} \in SUBSET Row /\ {<<s, t>>} \in SUBSET (Series \X Days)
  OBVIOUS
<1> QED BY <1>1 DEF EntsogDeleteChunk, EntsogInsert, Try, Replace, Write, WriteSet

(* The chunks of entsog so far never insert what has not been deleted.     *)
LEMMA EntsogPartsFine ==
  ASSUME NEW s \in Series, NEW rows \in SUBSET Row, Fresh(rows), Distinct(rows), \A r \in rows : r.series = s,
         crawler = "entsog", NEW todo, EntsogPart(s, rows, todo)
  PROVE  TodoFine(todo)
<1> DEFINE n == Len(todo)
           Delete(t) == EntsogDeleteChunk(s, t)
           Insert(t) == EntsogInsert(rows, t)
<1>1. todo \in Seq(WriteSet) /\ n \in Nat
  BY DEF EntsogPart
<1>2. \A t \in Days : /\ Delete(t).clear = {<<s, t>>} /\ Delete(t).rows = {} /\ Delete(t).optional
                      /\ Delete(t).report = "none" /\ Delete(t).key = {} /\ ~Delete(t).update
                      /\ Insert(t).rows = {r \in rows : r.time = t} /\ Insert(t).report = "none"
                      /\ Insert(t).key = {} /\ ~Insert(t).update
  <2> TAKE t \in Days
  <2>1. /\ Delete(t).clear = {<<s, t>>} /\ Delete(t).rows = {} /\ Delete(t).optional
        /\ Delete(t).report = "none" /\ Delete(t).key = {} /\ ~Delete(t).update
    BY DEF EntsogDeleteChunk, Try, Write
  <2>2. /\ Insert(t).rows = {r \in rows : r.time = t} /\ Insert(t).report = "none"
        /\ Insert(t).key = {} /\ ~Insert(t).update
    BY DEF EntsogInsert, Replace, Write
  <2> QED BY <2>1, <2>2
<1>3. \A i \in 1 .. n : \E t \in Days :
        \/ todo[i] = Delete(t)
        \/ i > 1 /\ todo[i - 1] = Delete(t) /\ todo[i] = Insert(t)
  BY DEF EntsogPart
<1> HIDE DEF Delete, Insert, n
<1>4. ASSUME NEW i \in 1 .. n
      PROVE  /\ todo[i].rows \subseteq rows /\ todo[i].report = "none" /\ todo[i].key = {} /\ ~todo[i].update
             /\ Covers(todo[i]) \/ Emptied(todo, i)
  <2>1. PICK t \in Days :
          \/ todo[i] = Delete(t)
          \/ i > 1 /\ todo[i - 1] = Delete(t) /\ todo[i] = Insert(t)
    BY <1>3
  <2>2. CASE todo[i] = Delete(t)
    BY <1>2, <2>2 DEF Covers
  <2>3. CASE i > 1 /\ todo[i - 1] = Delete(t) /\ todo[i] = Insert(t)
    <3>1. \A r \in todo[i].rows : Cell(r) \in todo[i - 1].clear
      BY <1>2, <2>3 DEF Cell
    <3>2. i # 1
      BY <2>3
    <3> QED BY <1>2, <2>3, <3>1, <3>2 DEF Emptied
  <2> QED BY <2>1, <2>2, <2>3
<1>5. ASSUME NEW i \in 1 .. n PROVE Fresh(todo[i].rows) /\ HasValues(todo[i].rows) /\ Sound(todo[i])
  <2>1. Fresh(todo[i].rows)
    BY <1>4, FewerRows
  <2>2. HasValues(todo[i].rows)
    BY DEF HasValues, Valuing
  <2> QED BY <1>4, <2>1, <2>2 DEF Sound
<1>6. \A i, j \in 1 .. n : \A q \in todo[i].rows, r \in todo[j].rows : Cell(q) = Cell(r) => q = r
  BY <1>4 DEF Distinct
<1> QED BY <1>1, <1>4, <1>5, <1>6 DEF TodoFine, n

(* And neither do they with the chunk of the next day.                     *)
LEMMA EntsogPartGrows ==
  ASSUME NEW s \in Series, NEW rows \in SUBSET Row, NEW t \in Days, NEW todo, EntsogPart(s, rows, todo)
  PROVE  EntsogPart(s, rows, todo \o EntsogChunk(s, t, {r \in rows : r.time = t}))
<1> DEFINE X == {r \in rows : r.time = t}
<1> HIDE DEF X
<1>1. CASE X = {}
  <2>1. todo \in Seq(WriteSet) /\ EntsogChunk(s, t, X) = <<>>
    BY <1>1 DEF EntsogChunk, Unless, Nothing, EntsogPart
  <2>2. todo \o EntsogChunk(s, t, X) = todo
    BY <2>1
  <2> QED BY <2>2 DEF X
<1>2. CASE X # {}
  <2> DEFINE d == EntsogDeleteChunk(s, t)  w == EntsogInsert(rows, t)  n == Len(todo)  long == todo \o <<d, w>>
  <2>1. d \in WriteSet /\ w \in WriteSet
    BY ChunkIs
  <2>2. EntsogChunk(s, t, X) = <<d, w>>
    BY <1>2 DEF EntsogChunk, Unless, EntsogInsert, X
  <2>3. todo \in Seq(WriteSet) /\ n \in Nat
    BY DEF EntsogPart
  <2> HIDE DEF d, w
  <2>4. /\ long \in Seq(WriteSet) /\ Len(long) = n + 2
        /\ \A i \in 1 .. n : long[i] = todo[i]
        /\ long[n + 1] = d /\ long[n + 2] = w
    BY <2>1, <2>3
  <2> HIDE DEF long, n
  <2>5. ASSUME NEW i \in 1 .. Len(long)
        PROVE  \E u \in Days : \/ long[i] = EntsogDeleteChunk(s, u)
                               \/ /\ i > 1 /\ long[i - 1] = EntsogDeleteChunk(s, u)
                                  /\ long[i] = EntsogInsert(rows, u)
    <3>1. CASE i \in 1 .. n
      <4>1. PICK u \in Days : \/ todo[i] = EntsogDeleteChunk(s, u)
                             \/ /\ i > 1 /\ todo[i - 1] = EntsogDeleteChunk(s, u)
                                /\ todo[i] = EntsogInsert(rows, u)
        BY <3>1 DEF EntsogPart, n
      <4>2. i > 1 => i - 1 \in 1 .. n
        BY <2>3, <3>1
      <4> QED BY <2>4, <3>1, <4>1, <4>2
    <3>2. CASE i = n + 1
      BY <2>4, <3>2 DEF d
    <3>3. CASE i = n + 2
      <4>1. i > 1 /\ i - 1 = n + 1
        BY <2>3, <3>3
      <4> QED BY <2>4, <3>3, <4>1 DEF d, w
    <3> QED BY <2>3, <2>4, <3>1, <3>2, <3>3
  <2>6. EntsogPart(s, rows, long)
    BY <2>4, <2>5 DEF EntsogPart
  <2> QED BY <2>2, <2>6 DEF long, X
<1> QED BY <1>1, <1>2 DEF X

(* A chunk after the other, day by day.                                    *)
EntsogDay(s, rows, d) == EntsogChunk(s, d, {r \in rows : r.time = d})

(* The recursive list of chunks, unfolded.                                 *)
LEMMA EntsogUnfolds ==
  ASSUME NEW s, NEW rows, crawler = "entsog"
  PROVE  EntsogWrites(s, rows) = ((Nothing \o EntsogDay(s, rows, 1)) \o EntsogDay(s, rows, 2)) \o EntsogDay(s, rows, 3)
<1> DEFINE U(d) == EntsogChunk(s, d, {r \in rows : r.time = d})
           refresh == CHOOSE f : f = [d \in 0 .. Horizon |-> IF d = 0 THEN Nothing ELSE f[d - 1] \o U(d)]
           G1 == Nothing \o U(1)  G2 == G1 \o U(2)  G3 == G2 \o U(3)
           G == [d \in 0 .. Horizon |-> IF d = 0 THEN Nothing ELSE IF d = 1 THEN G1
                                        ELSE IF d = 2 THEN G2 ELSE G3]
<1>1. EntsogWrites(s, rows) = refresh[Horizon]
  BY DEF EntsogWrites
<1>2. \A d : U(d) = EntsogDay(s, rows, d)
  BY DEF EntsogDay
<1> HIDE DEF U
<1>3. Horizon = 3 /\ 0 .. Horizon = {0, 1, 2, 3}
  BY DEF Horizon
<1>4. ASSUME NEW d \in 0 .. Horizon, d # 0 PROVE G[d] = G[d - 1] \o U(d)
  <2>1. d \in {1, 2, 3} /\ d - 1 \in 0 .. Horizon
    BY <1>3, <1>4
  <2> QED BY <2>1
<1> HIDE DEF G1, G2, G3
<1>5. G = [d \in 0 .. Horizon |-> IF d = 0 THEN Nothing ELSE G[d - 1] \o U(d)]
  BY <1>4
<1> HIDE DEF G
<1>6. refresh = [d \in 0 .. Horizon |-> IF d = 0 THEN Nothing ELSE refresh[d - 1] \o U(d)]
  BY <1>5
<1> HIDE DEF refresh
<1>7. \A d \in 0 .. 3 : refresh[d] = IF d = 0 THEN Nothing ELSE refresh[d - 1] \o U(d)
  BY <1>3, <1>6
<1>8. refresh[0] = Nothing /\ refresh[1] = refresh[0] \o U(1)
  BY <1>7
<1>9. refresh[2] = refresh[1] \o U(2) /\ refresh[3] = refresh[2] \o U(3)
  BY <1>7
<1> QED BY <1>1, <1>2, <1>3, <1>8, <1>9

(* What a run of entsog writes about an answer is fine.                    *)
LEMMA EntsogFine ==
  ASSUME NEW s \in Series, NEW rows \in SUBSET Row, Fresh(rows), Distinct(rows), \A r \in rows : r.series = s,
         crawler = "entsog"
  PROVE  TodoFine(EntsogWrites(s, rows))
<1>1. {1, 2, 3} \subseteq Days
  BY DEF Horizon, Days
<1>2. ASSUME NEW todo, NEW d \in Days, EntsogPart(s, rows, todo)
      PROVE  EntsogPart(s, rows, todo \o EntsogDay(s, rows, d))
  BY <1>2, EntsogPartGrows DEF EntsogDay
<1>3. EntsogPart(s, rows, Nothing)
  BY DEF EntsogPart, Nothing
<1>4. EntsogPart(s, rows, EntsogWrites(s, rows))
  BY <1>1, <1>2, <1>3, EntsogUnfolds
<1> QED BY <1>4, EntsogPartsFine

-----------------------------------------------------------------------------
(* What each crawler writes about an answer is fine.                       *)
LEMMA SomeValued ==
  ASSUME NEW rows \in SUBSET Row
  PROVE  Valued(rows) \in SUBSET rows /\ HasValues(Valued(rows))
  BY DEF Valued, HasValues

(* The crawlers whose tables have the cell as their key write over it.     *)
LEMMA UpsertsFine ==
  ASSUME NEW s \in Series, NEW rows, Given(s, rows),
         crawler \in {"smard", "entsoe_api", "energy_forecast", "power_system", "eurostat"}
  PROVE  TodoFine(Writes(s, rows))
<1>1. rows \in SUBSET Row /\ Fresh(rows) /\ Distinct(rows)
  BY DEF Given
<1>2. \A some \in SUBSET Valued(rows) : HasValues(some)
  BY <1>1, SomeValued DEF HasValues, Valued
<1>3. \A some \in SUBSET Valued(rows) : TodoFine(<<Upsert({"series", "time"}, some)>>)
  <2>1. Valued(rows) \in SUBSET rows
    BY DEF Valued
  <2> QED BY <1>1, <1>2, <2>1, UpsertFine
<1>4. EnergyForecastRow(rows) \in SUBSET Valued(rows)
  BY DEF Valued, EnergyForecastRow
<1>5. CASE crawler = "smard"
  BY <1>3, <1>4, <1>5, NoTodo DEF Writes, SmardWrites, SmardSeries, SmardUpsert, SmardKey, Unless, Nothing
<1>6. CASE crawler = "entsoe_api"
  BY <1>3, <1>4, <1>6, NoTodo DEF Writes, EntsoeWrites, EntsoeFrame, EntsoeUpsert, EntsoeKey, Unless, Nothing
<1>7. CASE crawler = "energy_forecast"
  BY <1>3, <1>4, <1>7, NoTodo
  DEF Writes, EnergyForecastWrites, EnergyForecastUpsert, EnergyForecastKey, Unless, Nothing
<1>8. CASE crawler = "power_system"
  BY <1>3, <1>4, <1>8 DEF Writes, PowerSystemWrites, PowerSystemUpsert, PowerSystemKey
<1>9. CASE crawler = "eurostat"
  BY <1>3, <1>4, <1>9, NoTodo
  DEF Writes, EurostatWrites, EurostatFrame, EurostatUpsert, EurostatKey, Unless, Nothing
<1> QED BY <1>5, <1>6, <1>7, <1>8, <1>9

(* The forecasts that are all kept have the time of their fetch.           *)
LEMMA WeatherFine ==
  ASSUME Facts, NEW s \in Series, NEW rows, Given(s, rows), crawler = "weather"
  PROVE  TodoFine(Writes(s, rows))
<1> DEFINE X == WeatherRows(rows)  w == Upsert(WeatherKey, X)
<1>1. rows \in SUBSET Row /\ Fresh(rows) /\ Distinct(rows) /\ \A r \in rows : r.at = 0
  BY DEF Given
<1>2. now \in 0 .. Horizon
  BY DaysAre DEF Facts
<1>3. \A x \in X : /\ x \in Row /\ x.at = now
                   /\ \E r \in rows : /\ x = [r EXCEPT !.at = now] /\ Cell(x) = Cell(r)
                                      /\ x.series = r.series /\ x.time = r.time /\ x.rev = r.rev
  <2> SUFFICES ASSUME NEW r \in rows
               PROVE  LET x == [r EXCEPT !.at = now]
                      IN  /\ x \in Row /\ x.at = now /\ Cell(x) = Cell(r)
                          /\ x.series = r.series /\ x.time = r.time /\ x.rev = r.rev
    BY DEF WeatherRows
  <2> QED BY <1>1, <1>2 DEF Row, Cell
<1> HIDE DEF X
<1>4. Fresh(X)
  <2>1. \A x \in X : \E r \in rows : /\ Cell(x) = Cell(r)
                                     /\ x.series = r.series /\ x.time = r.time /\ x.rev = r.rev
    BY <1>3
  <2> QED BY <1>1, <2>1 DEF Fresh
<1>5. Distinct(X)
  BY <1>1, <1>3 DEF Distinct
<1>6. HasValues(X)
  BY DEF HasValues, Valuing
<1>7. X \subseteq Row
  BY <1>3
<1>8. w \in WriteSet /\ w.rows = X /\ w.clear = {} /\ w.key = {"series", "time", "at"} /\ w.update /\ w.report = "none"
  BY <1>7 DEF Upsert, Write, WriteSet, WeatherKey
<1> HIDE DEF w
<1>9. Sound(w)
  BY <1>3, <1>8 DEF Sound, Upserts, Key
<1>10. w.key # {}
  BY <1>8
<1>11. TodoFine(<<w>>)
  BY <1>4, <1>5, <1>6, <1>8, <1>9, <1>10, OneWrite
<1>12. Writes(s, rows) = Unless(X = {}, <<w>>)
  BY DEF Writes, WeatherWrites, WeatherUpsert, X, w
<1> QED BY <1>11, <1>12, NoTodo DEF Unless, Nothing

(* netztransparenz, tradinghub, eia, regelleistung, ninja and copernicus   *)
(* replace cells of the series they have asked for.                        *)
LEMMA OneReplaced ==
  ASSUME Facts, TableFine, NEW s \in Series, NEW rows, GivenOne(s, rows),
         NEW clear \in SUBSET Cells, NEW some \in SUBSET rows,
         crawler # "weather",
         some = rows \/ (some = Valued(rows) /\ crawler \in Valuing), HasValues(some),
         \A r \in rows : Cell(r) \in clear,
         \A q \in table : Cell(q) \in clear /\ Wanted(Cell(q)) => q.series = s /\ q.time \in run.windows[s],
         NEW key \in {{}, {"series", "time"}}
  PROVE  /\ TodoFine(<<Replace(clear, key, some)>>)
         /\ crawler \in Reporting =>
              TodoFine(<<Replace(clear, key, some), Report("completed", some)>>)
<1>1. rows \in SUBSET Row /\ Fresh(rows) /\ Distinct(rows) /\ Complete(rows, s)
  BY DEF GivenOne, Given
<1>2. some \in SUBSET Row /\ Fresh(some) /\ Distinct(some)
  BY <1>1, FewerRows
<1>3. ASSUME NEW q \in table, Cell(q) \in clear, Wanted(Cell(q)) PROVE \E r \in some : Cell(r) = Cell(q)
  <2>1. q.series = s /\ q.time \in run.windows[s]
    BY <1>3
  <2>2. /\ \E r \in rows : Cell(r) = Cell(q)
        /\ q.rev > 0 => \E r \in Valued(rows) : Cell(r) = Cell(q)
    BY <1>1, <2>1, AnsweredAgain
  <2>3. crawler \in Valuing => q.rev > 0
    BY DEF TableFine
  <2> QED BY <2>2, <2>3
<1>4. \A r \in some : Cell(r) \in clear
  OBVIOUS
<1> QED BY <1>2, <1>3, <1>4, ReplaceFine

(* What these write about an answer is fine.                               *)
LEMMA ReplacesFine ==
  ASSUME Facts, TableFine, NEW s \in Series, NEW rows, GivenOne(s, rows),
         crawler \in {"netz", "tradinghub", "eia", "regelleistung", "ninja", "copernicus"}
  PROVE  TodoFine(Writes(s, rows))
<1>1. /\ rows \in SUBSET Row /\ run.windows[s] = Window(s) /\ Window(s) \in SUBSET Days
      /\ \A r \in rows : r.series = s /\ r.time \in run.windows[s] /\ Cell(r) = <<s, r.time>>
  BY DEF GivenOne, Given, ReadOn, Cell
<1>2. Valued(rows) \in SUBSET rows /\ HasValues(Valued(rows))
  BY <1>1, SomeValued
<1>3. \A q \in table : Cell(q) = <<q.series, q.time>> /\ q.series \in Series /\ q.time \in Days /\ q.time <= now
  BY DEF TableFine, Cell
<1>4. now \in Int /\ LookBack \in Int
  BY TablesAssumption, DaysAre DEF Facts
<1>5. CASE crawler = "netz"
  <2> DEFINE clear == {<<s, t>> : t \in {d \in Days : NetzTimed(d) => d \in DateWindow}}
  <2>1. Window(s) = DateWindow
    BY <1>5, WindowIs
  <2>2. clear \in SUBSET Cells /\ \A t \in Days : (t \in DateWindow => <<s, t>> \in clear)
    BY DEF Cells
  <2>3. \A r \in rows : Cell(r) \in clear
    BY <1>1, <2>1, <2>2 DEF DateWindow
  <2>4. ASSUME NEW q \in table, Cell(q) \in clear, Wanted(Cell(q)) PROVE q.series = s /\ q.time \in run.windows[s]
    BY <1>1, <1>3, <1>5, <2>1, <2>4 DEF Wanted
  <2>5. Writes(s, rows) = <<Replace(clear, {}, Valued(rows)), Report("completed", Valued(rows))>>
    BY <1>5 DEF Writes, NetzWrites, NetzReplace, NetzNormalized, NetzWriteRun, NetzKey, NoKey
  <2> HIDE DEF clear
  <2>6. TodoFine(<<Replace(clear, {}, Valued(rows)), Report("completed", Valued(rows))>>)
    <3>1. crawler \in Valuing /\ crawler \in Reporting /\ crawler # "weather"
      BY <1>5 DEF Valuing, Reporting
    <3> QED BY <1>2, <2>2, <2>3, <2>4, <3>1, OneReplaced
  <2> QED BY <2>5, <2>6
<1>6. CASE crawler = "tradinghub"
  <2>1. Window(s) = DateWindow
    BY <1>6, WindowIs
  <2>2. WindowOf(s) \in SUBSET Cells
    BY DEF Cells, WindowOf, DateWindow
  <2>3. \A r \in rows : Cell(r) \in WindowOf(s)
    BY <1>1, <2>1 DEF WindowOf
  <2>4. ASSUME NEW q \in table, Cell(q) \in WindowOf(s) PROVE q.series = s /\ q.time \in run.windows[s]
    BY <1>1, <1>3, <2>1, <2>4 DEF WindowOf
  <2>5. Writes(s, rows) = <<Replace(WindowOf(s), {}, Valued(rows))>>
    BY <1>6 DEF Writes, TradingHubWrites, TradingHubReplace, TradingHubValues, TradingHubKey, NoKey
  <2>6. crawler \in Valuing
    BY <1>6 DEF Valuing
  <2>7. TodoFine(<<Replace(WindowOf(s), {}, Valued(rows))>>)
    BY <1>2, <1>6, <2>2, <2>3, <2>4, <2>6, OneReplaced
  <2> QED BY <2>5, <2>7
<1>7. CASE crawler = "eia"
  <2> DEFINE clear == {s} \X Days
  <2>1. Window(s) = DateWindow
    BY <1>7, WindowIs
  <2>2. clear \in SUBSET Cells
    BY DEF Cells
  <2>3. \A r \in rows : Cell(r) \in clear
    BY <1>1
  <2>4. ASSUME NEW q \in table, Cell(q) \in clear, Wanted(Cell(q)) PROVE q.series = s /\ q.time \in run.windows[s]
    <3>1. q.time >= now - LookBack
      BY <1>3, <1>7, <2>4 DEF Wanted
    <3> QED BY <1>1, <1>3, <2>1, <2>4, <3>1 DEF DateWindow
  <2>5. Writes(s, rows) = <<Replace(clear, {}, Valued(rows))>>
    BY <1>7 DEF Writes, EiaWrites, EiaReplace, EiaValues, EiaKey, NoKey
  <2>6. crawler \in Valuing
    BY <1>7 DEF Valuing
  <2> HIDE DEF clear
  <2>7. TodoFine(<<Replace(clear, {}, Valued(rows))>>)
    BY <1>2, <1>7, <2>2, <2>3, <2>4, <2>6, OneReplaced
  <2> QED BY <2>5, <2>7
<1>8. CASE crawler = "regelleistung"
  <2> DEFINE clear == {s} \X Days
  <2>1. Window(s) = RegelWindow(s)
    BY <1>8, WindowIs
  <2>2. clear \in SUBSET Cells
    BY DEF Cells
  <2>3. \A r \in rows : Cell(r) \in clear
    BY <1>1
  <2>4. ASSUME s \in RegelFiles, NEW q \in table, Cell(q) \in clear PROVE q.series = s /\ q.time \in run.windows[s]
    BY <1>1, <1>3, <2>1, <2>4 DEF RegelWindow
  <2>5. Writes(s, rows) = Unless(s \notin RegelFiles, <<Replace(clear, {}, Valued(rows))>>)
    BY <1>8 DEF Writes, RegelWrites, RegelReplace, RegelWorkbook, RegelKey, NoKey
  <2>6. crawler \in Valuing
    BY <1>8 DEF Valuing
  <2> HIDE DEF clear
  <2>7. s \in RegelFiles => TodoFine(<<Replace(clear, {}, Valued(rows))>>)
    BY <1>2, <1>8, <2>2, <2>3, <2>4, <2>6, OneReplaced
  <2> QED BY <2>5, <2>7, NoTodo DEF Unless, Nothing
<1>9. CASE crawler = "ninja"
  <2> DEFINE clear == {s} \X Days
  <2>1. Window(s) = Days
    BY <1>9, WindowIs
  <2>2. clear \in SUBSET Cells
    BY DEF Cells
  <2>3. \A r \in rows : Cell(r) \in clear
    BY <1>1
  <2>4. ASSUME NEW q \in table, Cell(q) \in clear PROVE q.series = s /\ q.time \in run.windows[s]
    BY <1>1, <1>3, <2>1, <2>4
  <2>5. Writes(s, rows) = <<Replace(clear, {}, rows)>>
    BY <1>9 DEF Writes, NinjaWrites
  <2>6. HasValues(rows)
    BY <1>9 DEF HasValues, Valuing
  <2> HIDE DEF clear
  <2>7. TodoFine(<<Replace(clear, {}, rows)>>)
    BY <1>9, <2>2, <2>3, <2>4, <2>6, OneReplaced
  <2> QED BY <2>5, <2>7
<1>10. CASE crawler = "copernicus"
  <2> DEFINE clear == {s} \X CopernicusMonth  rep == Replace(clear, CopernicusKey, Valued(rows))
  <2>1. Window(s) = CopernicusMonth
    BY <1>10, WindowIs
  <2>2. clear \in SUBSET Cells
    BY DEF Cells, CopernicusMonth, Facts
  <2>3. \A r \in rows : Cell(r) \in clear
    BY <1>1, <2>1
  <2>4. ASSUME NEW q \in table, Cell(q) \in clear PROVE q.series = s /\ q.time \in run.windows[s]
    BY <1>1, <1>3, <2>1, <2>4
  <2>5. Writes(s, rows) = <<rep, Report("completed", Valued(rows))>>
    <3>1. Writes(s, rows) = CopernicusWrites(s, rows)
      BY <1>10 DEF Writes
    <3>2. CopernicusWrites(s, rows) = <<rep>> \o <<Report("completed", Valued(rows))>>
      BY DEF CopernicusWrites, CopernicusStatistics, CopernicusStatus
    <3> QED BY <3>1, <3>2, PairIs
  <2>6. crawler \in Valuing /\ crawler \in Reporting
    BY <1>10 DEF Valuing, Reporting
  <2> HIDE DEF clear
  <2>7. TodoFine(<<rep, Report("completed", Valued(rows))>>)
    <3>1. CopernicusKey \in {{}, {"series", "time"}}
      BY DEF CopernicusKey
    <3> QED BY <1>2, <1>10, <2>2, <2>3, <2>4, <2>6, <3>1, OneReplaced
  <2> QED BY <2>5, <2>7
<1> QED BY <1>5, <1>6, <1>7, <1>8, <1>9, <1>10

(* The crawlers that gather replace cells of several series.               *)
LEMMA GatheredFine ==
  ASSUME Facts, TableFine, NEW s \in Series, NEW rows, Given(s, rows),
         crawler \in {"gie", "open_meteo", "dwd", "osm"},
         crawler \in Whole => GivenAll(s, rows)
  PROVE  TodoFine(Writes(s, rows))
<1> DEFINE key == {"series", "time"}
<1>1. /\ rows \in SUBSET Row /\ Fresh(rows) /\ Distinct(rows) /\ run.windows \in [Series -> SUBSET Days]
      /\ \A u \in Series : run.windows[u] = Window(u)
      /\ \A r \in rows : /\ r.series \in Series /\ r.time \in run.windows[r.series] /\ Complete(rows, r.series)
                         /\ Cell(r) = <<r.series, r.time>> /\ r.time \in Days
  BY DEF Given, ReadOn, Cell, Row
<1>2. Valued(rows) \in SUBSET rows /\ HasValues(Valued(rows))
  BY <1>1, SomeValued
<1>3. \A q \in table : /\ Cell(q) = <<q.series, q.time>> /\ q.series \in Series /\ q.time \in Days /\ q.time <= now
                       /\ crawler \in Valuing => q.rev > 0
  BY DEF TableFine, Cell
<1>4. now \in Int /\ LookBack \in Int
  BY TablesAssumption, DaysAre DEF Facts
<1>5. crawler # "osm" => \A some \in SUBSET rows : HasValues(some)
  BY DEF HasValues, Valuing
<1>6. CASE crawler = "gie"
  <2> DEFINE clear == UNION {WindowOf(r.series) : r \in rows}
  <2>1. \A u \in Series : Window(u) = DateWindow
    BY <1>6, WindowIs
  <2>2. clear \in SUBSET Cells
    BY <1>1 DEF Cells, WindowOf, DateWindow
  <2>3. \A r \in rows : Cell(r) \in clear
    BY <1>1, <2>1 DEF WindowOf
  <2>4. ASSUME NEW q \in table, Cell(q) \in clear PROVE \E r \in rows : Cell(r) = Cell(q)
    <3>1. PICK r \in rows : Cell(q) \in WindowOf(r.series)
      BY <2>4
    <3>2. q.series = r.series /\ q.time \in run.windows[r.series]
      BY <1>1, <1>3, <2>1, <3>1 DEF WindowOf
    <3>3. Complete(rows, r.series)
      BY <1>1
    <3> QED BY <1>1, <3>2, <3>3, AnsweredAgain
  <2>5. Writes(s, rows) = Unless(rows = {}, <<Replace(clear, key, rows)>>)
    BY <1>6 DEF Writes, GieWrites, GieReplace, GieKey
  <2> HIDE DEF clear
  <2>6. TodoFine(<<Replace(clear, key, rows)>>)
    BY <1>1, <1>5, <1>6, <2>2, <2>3, <2>4, ReplaceFine
  <2> QED BY <2>5, <2>6, NoTodo DEF Unless, Nothing
<1>7. CASE crawler = "open_meteo"
  <2> DEFINE clear == OpenMeteoCleared(rows)
  <2>1. \A u \in Series : Window(u) = ForecastHours
    BY <1>7, WindowIs
  <2>2. clear \in SUBSET Cells
    BY DEF Cells, OpenMeteoCleared
  <2>3. \A r \in rows : Cell(r) \in clear
    BY <1>1, DaysAre DEF OpenMeteoCleared
  <2>4. ASSUME NEW q \in table, Cell(q) \in clear PROVE \E r \in rows : Cell(r) = Cell(q)
    <3>1. PICK a \in rows : a.time <= q.time
      BY <1>3, <2>4 DEF OpenMeteoCleared
    <3>2. a.time \in ForecastHours /\ a.time \in Int /\ q.time \in Int
      BY <1>1, <1>3, <2>1, DaysAre
    <3>3. q.time \in ForecastHours
      BY <1>3, <1>4, <3>1, <3>2 DEF ForecastHours
    <3>4. Complete(rows, q.series)
      BY <1>3, <1>7 DEF Whole, GivenAll
    <3> QED BY <1>1, <1>3, <2>1, <3>3, <3>4, AnsweredAgain
  <2>5. Writes(s, rows) = Unless(rows = {}, <<Replace(clear, key, rows)>>)
    BY <1>7 DEF Writes, OpenMeteoWrites, OpenMeteoKey
  <2> HIDE DEF clear
  <2>6. TodoFine(<<Replace(clear, key, rows)>>)
    BY <1>1, <1>5, <1>7, <2>2, <2>3, <2>4, ReplaceFine
  <2> QED BY <2>5, <2>6, NoTodo DEF Unless, Nothing
<1>8. CASE crawler \in {"dwd", "osm"}
  <2>1. \A u \in Series : Window(u) = Days
    BY <1>8, WindowIs
  <2>2. WholeTable \in SUBSET Cells
    BY DEF Cells, WholeTable
  <2>3. \A r \in rows : Cell(r) \in WholeTable
    BY <1>1 DEF WholeTable
  <2>4. ASSUME NEW q \in table
        PROVE  /\ \E r \in rows : Cell(r) = Cell(q)
               /\ q.rev > 0 => \E r \in Valued(rows) : Cell(r) = Cell(q)
    <3>1. Complete(rows, q.series)
      BY <1>3, <1>8 DEF Whole, GivenAll
    <3> QED BY <1>1, <1>3, <2>1, <3>1, AnsweredAgain
  <2>5. CASE crawler = "dwd"
    <3>1. Writes(s, rows) = <<Replace(WholeTable, key, rows)>>
      BY <2>5 DEF Writes, DwdWrites, DwdKey, DwdVariables
    <3>2. TodoFine(<<Replace(WholeTable, key, rows)>>)
      BY <1>1, <1>5, <2>2, <2>3, <2>4, <2>5, ReplaceFine
    <3> QED BY <3>1, <3>2
  <2>6. CASE crawler = "osm"
    <3>1. Writes(s, rows) = <<Replace(WholeTable, key, Valued(rows))>>
      BY <2>6 DEF Writes, OsmWrites, OsmKey, OsmFeatures
    <3>2. Valued(rows) \in SUBSET Row /\ Fresh(Valued(rows)) /\ Distinct(Valued(rows))
      BY <1>1, <1>2, FewerRows
    <3>3. \A q \in table : \E r \in Valued(rows) : Cell(r) = Cell(q)
      BY <1>3, <2>4, <2>6 DEF Valuing
    <3>4. TodoFine(<<Replace(WholeTable, key, Valued(rows))>>)
      BY <1>2, <2>2, <2>3, <2>6, <3>2, <3>3, ReplaceFine
    <3> QED BY <3>1, <3>4
  <2> QED BY <1>8, <2>5, <2>6
<1> QED BY <1>6, <1>7, <1>8 DEF Whole

(* What any crawler writes about an answer is fine.                        *)
LEMMA WritesFine ==
  ASSUME Facts, TableFine, NEW s \in Series, NEW rows, Given(s, rows),
         crawler \notin Gatherers => GivenOne(s, rows),
         crawler \in Whole => GivenAll(s, rows)
  PROVE  TodoFine(Writes(s, rows))
<1>1. rows \in SUBSET Row /\ Fresh(rows) /\ Distinct(rows)
  BY DEF Given
<1>2. CASE crawler \in {"epex", "epex_ida"}
  BY <1>1, <1>2, EpexFine DEF Writes
<1>3. CASE crawler = "entsog"
  <2>1. \A r \in rows : r.series = s
    BY <1>3 DEF Gatherers, GivenOne
  <2> QED BY <1>1, <1>3, <2>1, EntsogFine DEF Writes
<1>4. CASE crawler \in {"netz", "tradinghub", "eia", "regelleistung", "ninja", "copernicus"}
  BY <1>4, ReplacesFine DEF Gatherers
<1> QED BY <1>2, <1>3, <1>4, UpsertsFine, WeatherFine, GatheredFine DEF Facts, AllCrawlers, Snapshots

-----------------------------------------------------------------------------
(* What does not change while the crawler and the day stay.                *)
LEMMA SameSets ==
  ASSUME crawler' = crawler
  PROVE  /\ LastSeries' = LastSeries /\ Series' = Series /\ Days' = Days /\ Horizon' = Horizon
         /\ Row' = Row /\ WriteSet' = WriteSet /\ RunSet' = RunSet /\ Requests' = Requests
         /\ (RunOf.gathers)' = RunOf.gathers /\ Idle' = Idle
<1>1. /\ LastSeries' = LastSeries /\ Series' = Series /\ Days' = Days /\ Horizon' = Horizon
      /\ Idle' = Idle
  BY DEF LastSeries, Series, Days, Horizon, Idle
<1>2. Row' = Row
  BY <1>1 DEF Row
<1>3. WriteSet' = WriteSet
  BY <1>1, <1>2 DEF WriteSet
<1>4. RunSet' = RunSet
  BY <1>1, <1>2, <1>3 DEF RunSet
<1>5. Requests' = Requests
  BY <1>1 DEF Requests
<1>6. RunOf' = RunOf
  BY DEF RunOf, RunsWith, EpexRun, SmardRun, EntsoeRun, EntsogRun, NetzRun,
         GieRun, TradingHubRun, EiaRun, RegelRun, OpenMeteoRun, WeatherRun, EnergyForecastRun,
         CopernicusRun, DwdRun, OsmRun, NinjaRun, PowerSystemRun, EurostatRun, Snapshots
<1> QED BY <1>1, <1>2, <1>3, <1>4, <1>5, <1>6

(* Windows that do not look at the table stay as they are for the day.     *)
LEMMA SameWindow ==
  ASSUME crawler' = crawler, now' = now, crawler \notin ReadOn, NEW s
  PROVE  Window(s)' = Window(s)
<1>1. Days' = Days /\ RegelFiles' = RegelFiles
  BY DEF Days, Horizon, RegelFiles, Series
<1>2. /\ EntsoeQueryWindow' = EntsoeQueryWindow /\ CopernicusMonth' = CopernicusMonth
      /\ RegelWindow(s)' = RegelWindow(s)
      /\ ForecastHours' = ForecastHours /\ DateWindow' = DateWindow
  BY <1>1 DEF EntsoeQueryWindow, CopernicusMonth, RegelWindow, ForecastHours, DateWindow
<1>3. crawler \notin {"epex", "epex_ida", "smard", "entsog"}
  BY DEF ReadOn
<1> QED BY <1>1, <1>2, <1>3 DEF Window, Snapshots

(* So does what a table has to keep.                                       *)
LEMMA SameWanted ==
  ASSUME crawler' = crawler, now' = now, NEW c
  PROVE  Wanted(c)' = Wanted(c)
  BY DEF Wanted, NetzTimed

(* A window is of days.                                                    *)
LEMMA WindowType ==
  ASSUME Facts, NEW s \in Series
  PROVE  Window(s) \in SUBSET Days
<1>1. EpexWindow(s) \in SUBSET Days
  BY DEF EpexWindow, EpexFiles
<1>2. SmardWindow(s) \in SUBSET Days
  <2>1. \A w : WeekFile(w) \in SUBSET Days
    BY DEF WeekFile
  <2>2. SmardFile(SmardLatest(s)) \in SUBSET Days
    BY <2>1 DEF SmardFile
  <2> QED BY <2>2 DEF SmardWindow
<1>3. EntsoeQueryWindow \in SUBSET Days /\ EntsogWindow(s) \in SUBSET Days /\ RegelWindow(s) \in SUBSET Days
  BY DEF EntsoeQueryWindow, EntsogWindow, RegelWindow
<1>4. CopernicusMonth \in SUBSET Days /\ ForecastHours \in SUBSET Days /\ DateWindow \in SUBSET Days
  BY DEF CopernicusMonth, ForecastHours, DateWindow, Facts
<1> QED BY <1>1, <1>2, <1>3, <1>4 DEF Window

(* The service only publishes more, and cells are only added to those whose*)
(* deletion failed.                                                        *)
SourceGrows == \A s \in Series, t \in Days : source[s][t] <= source'[s][t]

(* Rows stay as fresh as the table, when the service only moves on.        *)
LEMMA FreshStays ==
  ASSUME Facts, Facts', crawler' = crawler, now' = now, table' = table, SourceGrows,
         NEW rows \in SUBSET Row, Fresh(rows)
  PROVE  Fresh(rows)'
<1> SUFFICES ASSUME NEW r \in rows PROVE r.rev <= source'[r.series][r.time]
  BY DEF Fresh
<1>1. r.series \in Series /\ r.time \in Days /\ r.rev \in 0 .. 2
  BY DEF Row
<1>2. source[r.series][r.time] \in 0 .. 2 /\ source'[r.series][r.time] \in 0 .. 2
  BY <1>1, SameSets DEF Facts
<1> QED BY <1>1, <1>2 DEF SourceGrows, Fresh

(* So do the transactions that are left.                                   *)
LEMMA TodoStays ==
  ASSUME Facts, Facts', crawler' = crawler, now' = now, table' = table, spoilt \subseteq spoilt', SourceGrows,
         NEW todo, TodoFine(todo)
  PROVE  TodoFine(todo)'
<1> DEFINE n == Len(todo)
<1>1. todo \in Seq(WriteSet) /\ WriteSet' = WriteSet /\ \A i \in 1 .. n : todo[i].rows \in SUBSET Row
  <2>1. todo \in Seq(WriteSet) /\ WriteSet' = WriteSet
    BY SameSets DEF TodoFine
  <2>2. \A i \in 1 .. n : todo[i] \in WriteSet
    BY <2>1
  <2>3. \A w \in WriteSet : w.rows \in SUBSET Row
    BY DEF WriteSet
  <2> QED BY <2>1, <2>2, <2>3
<1>2. \A i \in 1 .. n : Fresh(todo[i].rows)'
  BY <1>1, FreshStays DEF TodoFine
<1>3. \A rows : HasValues(rows)' = HasValues(rows)
  BY DEF HasValues
<1>4. \A i \in 1 .. n : Sound(todo[i])' = Sound(todo[i]) /\ Restores(todo[i])' = Restores(todo[i])
  <2> TAKE i \in 1 .. n
  <2>1. Sound(todo[i])' = Sound(todo[i])
    BY DEF Sound, Upserts, Key
  <2>2. Restores(todo[i])' = Restores(todo[i])
    BY SameWanted DEF Restores
  <2> QED BY <2>1, <2>2
<1>5. \A i \in 1 .. n : Emptied(todo, i) => Emptied(todo, i)'
  BY DEF Emptied
<1>6. IsStored(todo[1].rows)' = IsStored(todo[1].rows)
  BY SameWanted DEF IsStored, RowsOf
<1>7. \A i \in 1 .. n : Covers(todo[i])' = Covers(todo[i])
  BY DEF Covers
<1> HIDE DEF n
<1> QED BY <1>1, <1>2, <1>3, <1>4, <1>5, <1>6, <1>7 DEF TodoFine, n

-----------------------------------------------------------------------------
(* Where a run goes.                                                       *)
AnyRun == [step : {"idle", "asking", "writing"}, series : 0 .. LastSeries, windows : [Series -> SUBSET Days],
           got : SUBSET Row, todo : Seq(WriteSet), failing : BOOLEAN, ending : BOOLEAN]

Has(r, s) == \A t \in r.windows[s] : t <= now => \E q \in r.got : Cell(q) = <<s, t>>

Asked(r) ==
  /\ Distinct(r.got)
  /\ \A q \in r.got : /\ q.series <= r.series /\ q.at = 0
                      /\ q.time \in r.windows[q.series] /\ Has(r, q.series)
  /\ crawler \in Whole => \A s \in Series : s <= r.series => Has(r, s)

(* A run that is not idle has its shape.                                   *)
LEMMA RunIs ==
  ASSUME Facts, RunFine
  PROVE  /\ run.step = "idle" <=> run = Idle
         /\ run.step # "idle" => Running /\ run \in AnyRun
         /\ Idle.step = "idle" /\ Idle.series = 0
<1>1. Idle.step = "idle" /\ Idle.series = 0
  BY DEF Idle
<1>2. Running => run.step \in {"asking", "writing"} /\ run \in AnyRun
  BY DEF Running, RunSet, AnyRun
<1> QED BY <1>1, <1>2 DEF RunFine

(* Where a run goes from its step.                                         *)
LEMMA OnwardIs ==
  ASSUME NEW r \in AnyRun
  PROVE  /\ r.todo # <<>> => /\ Onward(r).step = "writing" /\ Onward(r).series = r.series
                             /\ Onward(r).windows = r.windows /\ Onward(r).got = r.got /\ Onward(r).todo = r.todo
                             /\ Onward(r).ending = r.ending /\ Onward(r) \in RunSet
         /\ r.todo = <<>> /\ r.ending => Onward(r) = Idle
         /\ r.todo = <<>> /\ ~r.ending =>
              /\ Onward(r).step = "asking" /\ Onward(r).series = r.series + 1
              /\ Onward(r).windows = r.windows /\ Onward(r).got = r.got /\ Onward(r).todo = <<>>
              /\ Onward(r).ending = FALSE
              /\ r.series < LastSeries => Onward(r) \in RunSet
<1>1. LastSeries \in Nat
  BY SeriesAre
<1>2. CASE r.todo # <<>>
  BY <1>2 DEF Onward, AnyRun, RunSet
<1>3. CASE r.todo = <<>> /\ r.ending
  BY <1>3 DEF Onward
<1>4. CASE r.todo = <<>> /\ ~r.ending
  <2>1. r.series \in 0 .. LastSeries
    BY DEF AnyRun
  <2>2. r.series < LastSeries => r.series + 1 \in 0 .. LastSeries
    BY <1>1, <2>1
  <2>3. Onward(r) = [r EXCEPT !.step = "asking", !.series = @ + 1, !.failing = FALSE]
    BY <1>4 DEF Onward
  <2> QED BY <1>4, <2>2, <2>3 DEF AnyRun, RunSet
<1> QED BY <1>2, <1>3, <1>4

(* The run is fine wherever it goes from a fine step.                      *)
LEMMA OnwardFine ==
  ASSUME Facts, crawler' = crawler, now' = now, NEW r \in AnyRun, run' = Onward(r),
         crawler \notin ReadOn => \A s \in Series : r.windows[s] = Window(s),
         ~RunOf.gathers => r.got = {},
         r.todo # <<>> =>
           /\ TodoFine(r.todo)'
           /\ r.ending \/ (r.series < LastSeries /\ ~RunOf.gathers)
           /\ \A i \in 1 .. Len(r.todo) : r.todo[i].report = "running" => r.series = 0
           /\ r.series = 0 => crawler = "copernicus" /\ ~r.ending /\ r.todo = <<Report("running", {})>>,
         r.todo = <<>> /\ ~r.ending => r.series < LastSeries /\ Fresh(r.got)' /\ Asked(r)
  PROVE  RunFine'
<1>1. /\ LastSeries' = LastSeries /\ Series' = Series /\ RunSet' = RunSet
      /\ (RunOf.gathers)' = RunOf.gathers /\ Idle' = Idle
  BY SameSets
<1>2. ASSUME crawler \notin ReadOn PROVE \A s \in Series : r.windows[s] = Window(s)'
  BY <1>2, SameWindow
<1>3. r.series \in 0 .. LastSeries /\ LastSeries \in Nat
  BY SeriesAre DEF AnyRun
<1>4. CASE r.todo # <<>>
  <2>1. /\ run'.step = "writing" /\ run'.series = r.series /\ run'.windows = r.windows /\ run'.got = r.got
        /\ run'.todo = r.todo /\ run'.ending = r.ending /\ run' \in RunSet
    BY <1>4, OnwardIs
  <2>2. Writing'
    BY <1>1, <1>4, <2>1 DEF Writing
  <2>3. run'.series = 0 => IsOpening'
    BY <1>4, <2>1 DEF IsOpening, Report, Write
  <2>4. Running'
    BY <1>1, <1>2, <2>1, <2>2, <2>3 DEF Running
  <2> QED BY <2>4 DEF RunFine
<1>5. CASE r.todo = <<>> /\ r.ending
  BY <1>1, <1>5, OnwardIs DEF RunFine
<1>6. CASE r.todo = <<>> /\ ~r.ending
  <2>1. /\ run'.step = "asking" /\ run'.series = r.series + 1 /\ run'.windows = r.windows /\ run'.got = r.got
        /\ run'.todo = <<>> /\ run' \in RunSet
    BY <1>6, OnwardIs
  <2>2. ASSUME NEW s, Has(r, s) PROVE GotSeries(s)'
    BY <2>1, <2>2 DEF Has, GotSeries, Cell
  <2>3. Distinct(run'.got)
    BY <1>6, <2>1 DEF Asked
  <2>4. Fresh(run.got)'
    BY <1>6, <2>1
  <2>5. \A q \in r.got : q.series \in 0 .. LastSeries
    BY SeriesAre DEF AnyRun, Row
  <2>6. \A q \in run'.got : /\ q.series < run'.series /\ q.at = 0
                            /\ q.time \in run'.windows[q.series] /\ GotSeries(q.series)'
    BY <1>3, <1>6, <2>1, <2>2, <2>5 DEF Asked
  <2>7. ASSUME crawler' \in Whole, NEW s \in Series, s < run'.series PROVE GotSeries(s)'
    <3>1. s <= r.series
      BY <1>3, <2>1, <2>7, SeriesAre
    <3> QED BY <1>6, <2>2, <2>7, <3>1 DEF Asked
  <2>8. GotFine'
    BY <1>1, <2>3, <2>4, <2>6, <2>7 DEF GotFine, Distinct, Cell
  <2>9. run'.series >= 1
    BY <1>3, <2>1
  <2>10. Running'
    BY <1>1, <1>2, <2>1, <2>8, <2>9 DEF Running
  <2> QED BY <2>10 DEF RunFine
<1> QED BY <1>4, <1>5, <1>6

-----------------------------------------------------------------------------
(* The steps.                                                              *)
LEMMA FactsStay ==
  ASSUME Facts, UNCHANGED <<crawler, now, source>>, DOMAIN reports' = DOMAIN reports
  PROVE  Facts' /\ SourceGrows
<1>1. Series' = Series /\ Days' = Days /\ Requests' = Requests
  BY SameSets
<1>2. SourceGrows
  <2>1. \A s \in Series, t \in Days : source[s][t] \in 0 .. 2
    BY DEF Facts
  <2> QED BY <2>1 DEF SourceGrows
<1> QED BY <1>1, <1>2 DEF Facts

(* A table that is not written stays fine while the service moves on.      *)
LEMMA TableStays ==
  ASSUME Facts, Facts', TableFine, NoDuplicates, crawler' = crawler, now' = now, table' = table,
         SourceGrows, spoilt \subseteq spoilt'
  PROVE  TableFine' /\ NoDuplicates'
<1>1. NoDuplicates'
  BY DEF NoDuplicates, Cell
<1>2. ASSUME NEW r \in table
      PROVE  /\ r.series \in Series' /\ r.time \in Days' /\ r.rev \in 0 .. 2
             /\ r.time <= now' /\ r.rev <= source'[r.series][r.time]
             /\ crawler' \in Valuing => r.rev > 0
  <2>1. /\ r.series \in Series /\ r.time \in Days /\ r.rev \in 0 .. 2
        /\ r.time <= now /\ r.rev <= source[r.series][r.time] /\ (crawler \in Valuing => r.rev > 0)
    BY DEF TableFine
  <2>2. source[r.series][r.time] \in 0 .. 2 /\ source'[r.series][r.time] \in 0 .. 2
    BY <2>1, SameSets DEF Facts
  <2>3. source[r.series][r.time] <= source'[r.series][r.time]
    BY <2>1 DEF SourceGrows
  <2> QED BY <2>1, <2>2, <2>3, SameSets
<1>3. TableFine'
  BY <1>2 DEF TableFine
<1> QED BY <1>1, <1>3

(* So do the reports.                                                      *)
LEMMA ReportsStay ==
  ASSUME ReportsFine, UNCHANGED <<crawler, now, table, reports>>,
         cut => cut',
         \A id \in Requests : reports[id].state = "running" /\ UnderWay(id) => cut' \/ UnderWay(id)'
  PROVE  ReportsFine'
<1>1. Requests' = Requests /\ Row' = Row
  BY SameSets
<1>2. \A rows : IsStored(rows)' = IsStored(rows)
  BY SameWanted DEF IsStored, RowsOf
<1> QED BY <1>1, <1>2 DEF ReportsFine

(* Copernicus opens with a report, the others with nothing.                *)
LEMMA OpeningIs ==
  /\ crawler = "copernicus" => Opening = <<Report("running", {})>> /\ TodoFine(Opening)
  /\ crawler # "copernicus" => Opening = <<>>
  /\ Opening \in Seq(WriteSet)
<1>1. ASSUME crawler = "copernicus" PROVE Opening = <<Report("running", {})>> /\ TodoFine(Opening)
  <2>1. Opening = <<Report("running", {})>>
    BY <1>1 DEF Opening, Unless, CopernicusStatus
  <2>2. crawler \in Reporting
    BY <1>1 DEF Reporting
  <2> QED BY <2>1, <2>2, OneReport
<1>2. ASSUME crawler # "copernicus" PROVE Opening = <<>>
  BY <1>2 DEF Opening, Unless, Nothing
<1> QED BY <1>1, <1>2, NoTodo DEF TodoFine

(* A run begins.                                                           *)
LEMMA BeginFine ==
  ASSUME DailyInv, Begin
  PROVE  DailyInv'
<1> USE DEF DailyInv
<1>1. Facts' /\ SourceGrows
  BY FactsStay DEF Begin
<1>2. TableFine' /\ NoDuplicates'
  BY <1>1, TableStays DEF Begin
<1>3. ReportsFine'
  <2>1. run.series = 0
    BY RunIs DEF Begin
  <2> QED BY <2>1, ReportsStay DEF Begin, UnderWay
<1>4. RunFine'
  <2> DEFINE begun == [Idle EXCEPT !.windows = [s \in Series |-> Window(s)], !.todo = Opening]
  <2>0. PICK r : r = begun
    OBVIOUS
  <2>1. /\ r.series = 0 /\ r.windows = [s \in Series |-> Window(s)] /\ r.got = {} /\ r.todo = Opening
        /\ r.ending = FALSE /\ r.failing = FALSE /\ r.step = "idle"
    BY <2>0 DEF Idle
  <2>2. r \in AnyRun
    <3>1. [s \in Series |-> Window(s)] \in [Series -> SUBSET Days]
      BY WindowType
    <3>2. 0 \in 0 .. LastSeries
      BY SeriesAre
    <3> QED BY <2>0, <3>1, <3>2, OpeningIs DEF AnyRun, Idle
  <2>3. run' = Onward(r)
    BY <2>0 DEF Begin
  <2>4. \A s \in Series : r.windows[s] = Window(s)
    BY <2>1
  <2>5. 0 < LastSeries
    BY SeriesAre
  <2>6. ASSUME r.todo # <<>>
        PROVE  /\ TodoFine(r.todo)' /\ r.series < LastSeries /\ ~RunOf.gathers
               /\ \A i \in 1 .. Len(r.todo) : r.todo[i].report = "running" => r.series = 0
               /\ r.series = 0 => crawler = "copernicus" /\ ~r.ending /\ r.todo = <<Report("running", {})>>
    <3>1. crawler = "copernicus" /\ r.todo = <<Report("running", {})>> /\ TodoFine(r.todo)
      BY <2>1, <2>6, OpeningIs
    <3>2. TodoFine(r.todo)'
      BY <1>1, <3>1, TodoStays DEF Begin
    <3>3. ~RunOf.gathers
      BY <3>1, RunOfIs DEF Facts, Gatherers
    <3> QED BY <2>1, <2>5, <3>1, <3>2, <3>3
  <2>7. Fresh(r.got)' /\ Asked(r)
    <3>1. \A s \in Series : ~(s <= 0)
      BY SeriesAre
    <3>2. Fresh(r.got)'
      BY <2>1 DEF Fresh
    <3>3. Asked(r)
      BY <2>1, <3>1 DEF Asked, Distinct
    <3> QED BY <3>2, <3>3
  <2>8. r.series < LastSeries
    BY <2>1, <2>5
  <2>9. crawler' = crawler /\ now' = now
    BY DEF Begin
  <2>10. r.got = {}
    BY <2>1
  <2> HIDE DEF begun
  <2> QED BY <2>2, <2>3, <2>4, <2>6, <2>7, <2>8, <2>9, <2>10, OnwardFine
<1> QED BY <1>1, <1>2, <1>3, <1>4

(* Those who report do so after their one transaction.                     *)
LEMMA WritesReport ==
  ASSUME crawler \in Reporting, NEW s, NEW rows
  PROVE  /\ Len(Writes(s, rows)) = 2 /\ Writes(s, rows) # <<>>
         /\ Writes(s, rows)[1].report = "none" /\ Writes(s, rows)[2].report = "completed"
<1>1. \E a, b : Writes(s, rows) = <<a, b>> /\ a.report = "none" /\ b.report = "completed"
  <2>1. CASE crawler = "netz"
    <3> DEFINE a == NetzReplace(s, NetzNormalized(rows))  b == NetzWriteRun("completed", NetzNormalized(rows))
    <3>1. Writes(s, rows) = <<a, b>>
      BY <2>1 DEF Writes, NetzWrites
    <3>2. a.report = "none" /\ b.report = "completed"
      BY DEF NetzReplace, Replace, NetzWriteRun, Report, Write
    <3> QED BY <3>1, <3>2
  <2>2. CASE crawler = "copernicus"
    <3> DEFINE a == Replace({s} \X CopernicusMonth, CopernicusKey, CopernicusStatistics(rows))
               b == Report("completed", CopernicusStatistics(rows))
    <3>1. Writes(s, rows) = CopernicusWrites(s, rows)
      BY <2>2 DEF Writes
    <3>2. CopernicusWrites(s, rows) = <<a>> \o <<b>>
      BY DEF CopernicusWrites, CopernicusStatus
    <3>3. a.report = "none" /\ b.report = "completed"
      BY DEF Replace, Report, Write
    <3> QED BY <3>1, <3>2, <3>3, PairIs
  <2> QED BY <2>1, <2>2 DEF Reporting
<1> QED BY <1>1

(* A run that has no answer for a series may only go on without it if it   *)
(* does not need all of them.                                              *)
LEMMA AnsweredFine ==
  ASSUME DailyInv, run.step = "asking", UNCHANGED <<crawler, now, source, table, reports, spoilt>>, cut => cut',
         NEW got, Given(run.series, got), Answered(got),
         \A q \in got : q.series <= run.series,
         crawler \notin Gatherers => GivenOne(run.series, got),
         crawler \in Whole => \A u \in Series : u <= run.series => Complete(got, u)
  PROVE  DailyInv'
<1> USE DEF DailyInv
<1>0. PICK s, todo, kept, r :
        /\ s = run.series
        /\ todo = Unless(RunOf.gathers /\ ~IsLast(s), Writes(s, got))
        /\ kept = IF RunOf.gathers THEN got ELSE {}
        /\ r = [run EXCEPT !.got = kept, !.todo = todo, !.ending = IsLast(s)]
  OBVIOUS
<1>1. Facts' /\ SourceGrows
  BY FactsStay
<1>2. TableFine' /\ NoDuplicates'
  BY <1>1, TableStays
<1>3. Running /\ run \in AnyRun /\ s \in Series /\ s \in 1 .. LastSeries /\ (IsLast(s) <=> s = LastSeries)
  <2>1. Running /\ run \in AnyRun
    BY RunIs
  <2>2. s >= 1 /\ s \in 0 .. LastSeries
    BY <1>0, <2>1 DEF Running, AnyRun
  <2>3. s \in 1 .. LastSeries
    BY <2>2, SeriesAre
  <2> QED BY <2>1, <2>3, SeriesAre DEF IsLast
<1>4. got \in SUBSET Row /\ kept \in SUBSET Row
  BY <1>0 DEF Given
<1>5. TodoFine(todo) /\ (todo # <<>> => IsLast(s) \/ ~RunOf.gathers) /\ (~RunOf.gathers \/ IsLast(s) => todo = Writes(s, got))
  <2>1. crawler \in Whole => RunOf.gathers
    BY RunOfIs DEF Whole, Gatherers, Facts
  <2>2. IsLast(s) /\ crawler \in Whole => GivenAll(s, got)
    <3>1. IsLast(s) => \A u \in Series : u <= s
      BY <1>3, SeriesAre
    <3> QED BY <1>0, <3>1 DEF GivenAll
  <2>3. ~RunOf.gathers \/ IsLast(s) => TodoFine(Writes(s, got))
    BY <1>0, <1>3, <2>1, <2>2, WritesFine
  <2> QED BY <1>0, <2>3, NoTodo DEF Unless, Nothing
<1>6. /\ r \in AnyRun /\ r.step = "asking" /\ r.series = s /\ r.windows = run.windows /\ r.got = kept
      /\ r.todo = todo /\ r.ending = IsLast(s)
  <2>1. IsLast(s) \in BOOLEAN
    BY DEF IsLast
  <2>2. todo \in Seq(WriteSet)
    BY <1>5 DEF TodoFine
  <2> QED BY <1>0, <1>3, <1>4, <2>1, <2>2 DEF AnyRun
<1>7. run' = Onward(r)
  BY <1>0 DEF Answered
<1>8. ASSUME todo # <<>>, NEW i \in 1 .. Len(todo) PROVE todo[i].report # "running"
  <2>1. CASE crawler \in Reporting
    <3>1. todo = Writes(s, got)
      BY <1>5, <2>1, RunOfIs DEF Facts, Gatherers, Reporting
    <3>2. Len(todo) = 2
      BY <2>1, <3>1, WritesReport
    <3>3. i = 1 \/ i = 2
      BY <3>2
    <3> QED BY <2>1, <3>1, <3>3, WritesReport
  <2>2. CASE crawler \notin Reporting
    BY <1>5, <2>2 DEF TodoFine
  <2> QED BY <2>1, <2>2
<1>9. RunFine'
  <2>1. TodoFine(todo)'
    BY <1>1, <1>5, TodoStays
  <2>2. crawler \notin ReadOn => \A u \in Series : r.windows[u] = Window(u)
    BY <1>3, <1>6 DEF Running
  <2>3. ASSUME todo # <<>> PROVE IsLast(s) \/ (s < LastSeries /\ ~RunOf.gathers)
    BY <1>3, <1>5, <2>3, SeriesAre
  <2>4. Fresh(kept)'
    <3>1. Fresh(kept)
      BY <1>0 DEF Given, Fresh
    <3> QED BY <1>1, <1>4, <3>1, FreshStays
  <2>5. Asked(r)
    <3>1. Distinct(kept) /\ \A q \in kept : q \in got
      BY <1>0 DEF Given, Distinct
    <3>2. ASSUME NEW u, RunOf.gathers, Complete(got, u) PROVE Has(r, u)
      BY <1>0, <1>6, <3>2 DEF Complete, Has
    <3>3. \A q \in kept : /\ q.series <= s /\ q.at = 0 /\ q.time \in run.windows[q.series] /\ RunOf.gathers
                          /\ Complete(got, q.series)
      BY <1>0 DEF Given
    <3>4. crawler \in Whole => RunOf.gathers
      BY RunOfIs DEF Whole, Gatherers, Facts
    <3> QED BY <1>0, <1>6, <3>1, <3>2, <3>3, <3>4 DEF Asked
  <2>6. ~IsLast(s) => s < LastSeries
    BY <1>3, SeriesAre
  <2>7. ~RunOf.gathers => r.got = {}
    BY <1>0, <1>6
  <2>8. s # 0
    BY <1>3
  <2> QED BY <1>6, <1>7, <1>8, <2>1, <2>2, <2>3, <2>4, <2>5, <2>6, <2>7, <2>8, OnwardFine
<1>10. ReportsFine'
  <2>1. ASSUME NEW id, UnderWay(id) PROVE UnderWay(id)'
    <3>1. crawler = "copernicus" /\ s = 1
      BY <1>0, <2>1 DEF UnderWay
    <3>2. LastSeries = 1 /\ crawler \in Reporting
      BY <3>1 DEF LastSeries, Reporting
    <3>3. todo = Writes(s, got)
      BY <1>0, <1>3, <1>5, <3>1, <3>2
    <3>4. todo # <<>> /\ todo[Len(todo)].report = "completed"
      BY <3>2, <3>3, WritesReport
    <3>5. /\ run'.step = "writing" /\ run'.series = s /\ run'.todo = todo /\ run'.ending = IsLast(s)
      BY <1>6, <1>7, <3>4, OnwardIs
    <3> QED BY <1>3, <2>1, <3>1, <3>2, <3>4, <3>5 DEF UnderWay
  <2> QED BY <2>1, ReportsStay
<1> QED BY <1>1, <1>2, <1>9, <1>10

-----------------------------------------------------------------------------
(* What a run has, while it asks.                                          *)
LEMMA AskingIs ==
  ASSUME DailyInv, run.step = "asking"
  PROVE  /\ Running /\ run.series \in Series /\ run.series \in Int /\ run.windows \in [Series -> SUBSET Days]
         /\ run.got \in SUBSET Row /\ GotFine
         /\ \A u \in Series : u \in Int
         /\ crawler \notin Gatherers => run.got = {}
<1>1. Running
  BY RunIs DEF DailyInv
<1>2. run.series \in 0 .. LastSeries /\ run.series >= 1 /\ LastSeries \in Nat
  BY <1>1, SeriesAre DEF Running, RunSet
<1>3. run.series \in Series /\ \A u \in Series : u \in Int
  BY <1>2, SeriesAre
<1>4. crawler \notin Gatherers => run.got = {}
  BY <1>1, RunOfIs DEF Running, DailyInv, Facts
<1> QED BY <1>1, <1>2, <1>3, <1>4 DEF Running, RunSet

(* The answers so far are what the series so far have answered.            *)
LEMMA GotGiven ==
  ASSUME DailyInv, run.step = "asking"
  PROVE  /\ Given(run.series, run.got)
         /\ \A q \in run.got : q.series \in Series /\ q.series < run.series /\ Complete(run.got, q.series)
         /\ crawler \in Whole => \A u \in Series : u < run.series => Complete(run.got, u)
<1>1. GotFine /\ Running /\ run.got \in SUBSET Row
  BY AskingIs
<1>2. \A u : GotSeries(u) => Complete(run.got, u)
  BY DEF GotSeries, Complete
<1>3. \A q \in run.got : q.series \in Series
  BY <1>1 DEF Row
<1>4. crawler \notin ReadOn => \A u \in Series : run.windows[u] = Window(u)
  BY <1>1 DEF Running
<1>5. run.windows \in [Series -> SUBSET Days]
  BY AskingIs
<1> QED BY <1>1, <1>2, <1>3, <1>4, <1>5 DEF Given, GotFine

(* A request is answered.                                                  *)
LEMMA AskFine ==
  ASSUME DailyInv, Ask
  PROVE  DailyInv'
<1> USE DEF DailyInv
<1>1. run.step = "asking"
  BY DEF Ask
<1>2. PICK s, old, A, rows : /\ s = run.series /\ old = run.got /\ A = Answer(s, run.windows[s])
                             /\ rows = old \cup A
  OBVIOUS
<1>3. /\ s \in Series /\ s \in Int /\ run.windows[s] \in SUBSET Days /\ old \in SUBSET Row
      /\ \A u \in Series : u \in Int
  BY <1>1, <1>2, AskingIs
<1>4. /\ Given(s, old)
      /\ \A q \in old : q.series \in Series /\ q.series < s /\ Complete(old, q.series)
      /\ crawler \in Whole => \A u \in Series : u < s => Complete(old, u)
      /\ crawler \notin Gatherers => old = {}
  BY <1>1, <1>2, GotGiven, AskingIs
<1>5. /\ A \in SUBSET Row
      /\ \A r \in A : r.series = s /\ r.time \in run.windows[s] /\ r.at = 0
      /\ Complete(A, s)
  BY <1>2, <1>3, AnswerIs DEF Complete
<1>6. Fresh(A) /\ Distinct(A)
  BY <1>2, <1>3, AnswerFine
<1>7. \A u : (Complete(old, u) => Complete(rows, u)) /\ (Complete(A, u) => Complete(rows, u))
  BY <1>2 DEF Complete
<1>8. Distinct(rows)
  <2>1. \A q \in old, r \in A : Cell(q) # Cell(r)
    BY <1>3, <1>4, <1>5 DEF Cell
  <2>2. Distinct(old)
    BY <1>4 DEF Given
  <2> QED BY <1>2, <1>6, <2>1, <2>2 DEF Distinct
<1>9. Fresh(rows)
  <2>1. Fresh(old)
    BY <1>4 DEF Given
  <2> QED BY <1>2, <1>6, <2>1 DEF Fresh
<1>10. Given(s, rows)
  <2>1. \A r \in rows : r.at = 0 /\ r.time \in run.windows[r.series] /\ Complete(rows, r.series)
    BY <1>2, <1>4, <1>5, <1>7 DEF Given
  <2>2. rows \in SUBSET Row
    BY <1>2, <1>3, <1>5
  <2> QED BY <1>4, <1>8, <1>9, <2>1, <2>2 DEF Given
<1>11. \A q \in rows : q.series <= s
  BY <1>2, <1>3, <1>4, <1>5
<1>12. crawler \notin Gatherers => GivenOne(s, rows)
  BY <1>2, <1>4, <1>5, <1>7, <1>10 DEF GivenOne
<1>13. ASSUME crawler \in Whole, NEW u \in Series, u <= s PROVE Complete(rows, u)
  <2>1. u < s \/ u = s
    BY <1>3, <1>13
  <2> QED BY <1>4, <1>5, <1>7, <1>13, <2>1
<1>14. Answered(rows) /\ UNCHANGED <<crawler, now, source, table, reports, cut, spoilt>>
  BY <1>2 DEF Ask
<1> QED BY <1>1, <1>2, <1>10, <1>11, <1>12, <1>13, <1>14, AnsweredFine

(* What a run writes about a failure.                                      *)
LEMMA ComplaintIs ==
  /\ crawler \in Reporting =>
       Complaint # <<>> /\ Len(Complaint) = 1 /\ Complaint[1].report = "failed"
  /\ crawler \notin Reporting => Complaint = <<>>
  /\ TodoFine(Complaint) /\ Complaint \in Seq(WriteSet)
<1>1. ASSUME crawler \in Reporting
      PROVE  Complaint = <<Report("failed", {})>> /\ Report("failed", {}).report = "failed"
  BY <1>1 DEF Complaint, Reporting, NetzComplaint, NetzWriteRun, CopernicusStatus, Report, Write
<1>2. ASSUME crawler \notin Reporting PROVE Complaint = <<>>
  BY <1>2 DEF Complaint, Reporting, Nothing
<1>3. TodoFine(Complaint)
  BY <1>1, <1>2, NoTodo, OneReport
<1> QED BY <1>1, <1>2, <1>3 DEF TodoFine

(* A run complains about a failure, and goes on or ends.                   *)
LEMMA RecoverFine ==
  ASSUME DailyInv, run.step # "idle", run.series >= 1,
         UNCHANGED <<crawler, now, source, table, reports, spoilt>>, cut => cut',
         NEW ends \in BOOLEAN, Recover(ends), RunOf.gathers => ends
  PROVE  DailyInv'
<1> USE DEF DailyInv
<1>0. PICK s, r : /\ s = run.series
                  /\ r = [run EXCEPT !.todo = Complaint, !.failing = TRUE, !.ending = ends \/ IsLast(run.series)]
  OBVIOUS
<1>1. Facts' /\ SourceGrows
  BY FactsStay
<1>2. TableFine' /\ NoDuplicates'
  BY <1>1, TableStays
<1>3. Running /\ run \in AnyRun /\ s \in 1 .. LastSeries /\ (IsLast(s) <=> s = LastSeries) /\ LastSeries \in Nat
  <2>1. Running /\ run \in AnyRun
    BY RunIs
  <2>2. s \in 0 .. LastSeries /\ s >= 1
    BY <1>0, <2>1 DEF AnyRun
  <2> QED BY <2>1, <2>2, SeriesAre DEF IsLast
<1>4. /\ r \in AnyRun /\ r.series = s /\ r.windows = run.windows /\ r.got = run.got
      /\ r.todo = Complaint /\ r.ending = (ends \/ IsLast(s))
  <2>1. IsLast(s) \in BOOLEAN
    BY DEF IsLast
  <2> QED BY <1>0, <1>3, <2>1, ComplaintIs DEF AnyRun
<1>5. run' = Onward(r)
  BY <1>0 DEF Recover
<1>6. r.ending \/ (r.series < LastSeries /\ ~RunOf.gathers)
  <2>1. s = LastSeries \/ s < LastSeries
    BY <1>3
  <2>2. CASE ends \/ s = LastSeries
    <3>1. ends \/ IsLast(s)
      BY <1>3, <2>2
    <3> QED BY <1>4, <3>1
  <2>3. CASE ~ends /\ s < LastSeries
    BY <1>4, <2>3
  <2> QED BY <2>1, <2>2, <2>3
<1>7. ASSUME r.todo # <<>>
      PROVE  /\ TodoFine(r.todo)'
             /\ r.ending \/ (r.series < LastSeries /\ ~RunOf.gathers)
             /\ \A i \in 1 .. Len(r.todo) : r.todo[i].report = "running" => r.series = 0
             /\ r.series # 0
  <2>1. TodoFine(r.todo)'
    BY <1>1, <1>4, ComplaintIs, TodoStays
  <2>2. r.ending \/ (r.series < LastSeries /\ ~RunOf.gathers)
    BY <1>6
  <2>3. Len(r.todo) = 1 /\ r.todo[1].report = "failed"
    BY <1>4, <1>7, ComplaintIs
  <2>4. \A i \in 1 .. Len(r.todo) : r.todo[i].report # "running"
    BY <2>3
  <2> QED BY <1>3, <1>4, <2>1, <2>2, <2>4
<1>8. ASSUME ~r.ending PROVE r.series < LastSeries /\ Fresh(r.got)' /\ Asked(r)
  <2>1. r.series < LastSeries /\ ~RunOf.gathers
    BY <1>8, <1>6
  <2>2. r.got = {} /\ crawler \notin Whole
    BY <1>3, <1>4, <2>1, RunOfIs DEF Running, Facts, Gatherers, Whole
  <2>3. Fresh(r.got)'
    BY <2>2 DEF Fresh
  <2>4. Asked(r)
    BY <2>2 DEF Asked, Distinct
  <2> QED BY <2>1, <2>3, <2>4
<1>9. RunFine'
  <2>1. crawler \notin ReadOn => \A u \in Series : r.windows[u] = Window(u)
    BY <1>3, <1>4 DEF Running
  <2>2. ~RunOf.gathers => r.got = {}
    BY <1>3, <1>4 DEF Running
  <2> QED BY <1>4, <1>5, <1>7, <1>8, <2>1, <2>2, OnwardFine
<1>10. ReportsFine'
  <2>1. ASSUME NEW id, UnderWay(id) PROVE UnderWay(id)'
    <3>1. crawler = "copernicus" /\ s = 1
      BY <1>0, <2>1 DEF UnderWay
    <3>2. LastSeries = 1 /\ crawler \in Reporting
      BY <3>1 DEF LastSeries, Reporting
    <3>3. r.todo # <<>> /\ r.todo[Len(r.todo)].report = "failed"
      BY <1>4, <3>2, ComplaintIs
    <3>4. run'.step = "writing" /\ run'.series = s /\ run'.todo = r.todo /\ run'.ending
      BY <1>3, <1>4, <1>5, <3>1, <3>2, <3>3, OnwardIs
    <3> QED BY <2>1, <3>1, <3>3, <3>4 DEF UnderWay
  <2> QED BY <2>1, ReportsStay
<1> QED BY <1>1, <1>2, <1>9, <1>10

(* A request fails.                                                        *)
LEMMA AskFailsFine ==
  ASSUME DailyInv, AskFails
  PROVE  DailyInv'
<1>1. /\ run.step = "asking" /\ UNCHANGED <<crawler, now, source, table, reports, cut, spoilt>>
      /\ run.series >= 1 /\ run.series \in Int
  BY AskingIs DEF AskFails, Running
<1>2. CASE "skip" \in RunOf.onRequest /\ RunOf.gathers /\ Answered(run.got)
  <2>1. crawler \in {"gie", "weather"}
    BY <1>2, RunOfIs DEF DailyInv, Facts
  <2>2. PICK s, got : s = run.series /\ got = run.got
    OBVIOUS
  <2>3. Given(run.series, got) /\ \A q \in got : q.series \in Series /\ q.series < run.series
    BY <1>1, <2>2, GotGiven
  <2>4. \A q \in got : q.series <= run.series
    BY <1>1, <2>3, SeriesAre
  <2>5. crawler \in Gatherers /\ crawler \notin Whole
    BY <2>1 DEF Gatherers, Whole
  <2> QED BY <1>1, <1>2, <2>2, <2>3, <2>4, <2>5, AnsweredFine
<1>3. CASE ~RunOf.gathers /\ Recover(FALSE)
  BY <1>1, <1>3, RecoverFine
<1>4. CASE Recover(TRUE)
  BY <1>1, <1>4, RecoverFine
<1> QED BY <1>2, <1>3, <1>4 DEF AskFails

(* The process is killed.                                                  *)
LEMMA DieFine ==
  ASSUME DailyInv, Die
  PROVE  DailyInv'
<1> USE DEF DailyInv
<1>1. Facts' /\ SourceGrows
  BY FactsStay DEF Die
<1>2. TableFine' /\ NoDuplicates'
  BY <1>1, TableStays DEF Die
<1>3. RunFine'
  BY SameSets DEF Die, RunFine
<1>4. ReportsFine'
  BY ReportsStay DEF Die
<1> QED BY <1>1, <1>2, <1>3, <1>4

-----------------------------------------------------------------------------
(* What a transaction does to the table.                                   *)
LEMMA NumberedIs ==
  ASSUME NEW w, NEW r \in Row
  PROVE  /\ Cell(Numbered(w, r)) = Cell(r) /\ Numbered(w, r).series = r.series
         /\ Numbered(w, r).time = r.time /\ Numbered(w, r).rev = r.rev /\ Numbered(w, r).at = r.at
  BY DEF Numbered, Cell, Row

(* A row whose cell is written is taken by the key, where there is one.    *)
LEMMA TakenIs ==
  ASSUME NEW w, Sound(w), NEW q \in Kept(w), NEW r \in w.rows
  PROVE  /\ q \in Taken(w, r) => Cell(q) = Cell(r)
         /\ Cell(q) = Cell(r) /\ w.key # {} /\ (crawler = "weather" => q.at = r.at) => q \in Taken(w, r)
<1>1. \/ w.key = {"series", "time"} /\ crawler # "weather"
      \/ w.key = {"series", "time", "at"} /\ crawler = "weather"
      \/ w.key = {}
  BY DEF Sound, Upserts, Key
<1>2. SameKey({"series", "time"}, q, r) <=> Cell(q) = Cell(r)
  BY DEF SameKey, Cell
<1>3. SameKey({"series", "time", "at"}, q, r) <=> Cell(q) = Cell(r) /\ q.at = r.at
  BY DEF SameKey, Cell
<1>4. ~SameKey({}, q, r)
  BY DEF SameKey
<1> QED BY <1>1, <1>2, <1>3, <1>4 DEF Taken

(* A transaction with rows keeps the table fine, and stores them.          *)
LEMMA InsertFine ==
  ASSUME Facts, TableFine, NoDuplicates, UNCHANGED <<crawler, now, source, spoilt>>,
         NEW todo, TodoFine(todo), todo # <<>>, NEW w, w = todo[1], w.report = "none",
         ~Rejected(w), table' = Inserted(w)
  PROVE  /\ TableFine' /\ NoDuplicates'
         /\ \A r \in table : \/ \E q \in table' : Cell(q) = Cell(r) /\ q.rev >= r.rev
                             \/ crawler = "entsog" /\ Cell(r) \in w.clear
                             \/ ~Wanted(Cell(r))
         /\ \A r \in w.rows : \E q \in table' : Cell(q) = Cell(r) /\ q.rev = r.rev
         /\ \A q \in table' : \E p \in table \cup w.rows : Cell(q) = Cell(p) /\ q.rev = p.rev
         /\ w.rows = {} => \A q \in table' : Cell(q) \notin w.clear
<1>1. /\ todo \in Seq(WriteSet) /\ 1 \in 1 .. Len(todo) /\ w \in WriteSet
  <2>1. todo \in Seq(WriteSet)
    BY DEF TodoFine
  <2> QED BY <2>1
<1>2. /\ Fresh(w.rows) /\ HasValues(w.rows) /\ Sound(w) /\ w.rows \in SUBSET Row
      /\ \A q, r \in w.rows : Cell(q) = Cell(r) => q = r
      /\ w.key = {} => Covers(w) \/ Emptied(todo, 1)
      /\ crawler = "entsog" \/ w.clear = {} \/ Restores(w)
  <2>1. w.rows \in SUBSET Row
    BY <1>1 DEF WriteSet
  <2> QED BY <1>1, <2>1 DEF TodoFine
<1> DEFINE N(r) == Numbered(w, r)
           gone == UNION {Taken(w, r) : r \in w.rows}
<1>3. /\ \A r \in w.rows : N(r) \in table'
      /\ \A q \in Kept(w) : q \in gone \/ q \in table'
      /\ \A q \in table' : (q \in Kept(w) /\ q \notin gone) \/ \E r \in w.rows : q = N(r)
  BY DEF Inserted
<1>4. \A r \in w.rows : /\ Cell(N(r)) = Cell(r) /\ N(r).series = r.series
                        /\ N(r).time = r.time /\ N(r).rev = r.rev /\ N(r).at = r.at
  BY <1>2, NumberedIs
<1>5. \A q \in table : q \in Kept(w) <=> Cell(q) \notin w.clear
  BY DEF Kept
<1>6. Kept(w) \subseteq table
  BY DEF Kept
<1>7. \A q : q \in gone <=> \E r \in w.rows : q \in Taken(w, r)
  OBVIOUS
<1> HIDE DEF N, gone
<1>8. Series' = Series /\ Days' = Days
  BY SameSets
<1>9. TableFine'
  <2>1. ASSUME NEW r \in w.rows
        PROVE  /\ N(r).series \in Series /\ N(r).time \in Days /\ N(r).rev \in 0 .. 2
               /\ N(r).time <= now /\ N(r).rev <= source[N(r).series][N(r).time]
               /\ crawler \in Valuing => N(r).rev > 0
    <3>1. r.series \in Series /\ r.time \in Days /\ r.rev \in 0 .. 2
      BY <1>2 DEF Row
    <3>2. r.time <= now /\ r.rev <= source[r.series][r.time]
      BY <1>2 DEF Fresh
    <3>3. crawler \in Valuing => r.rev > 0
      BY <1>2 DEF HasValues
    <3> QED BY <1>4, <3>1, <3>2, <3>3
  <2> QED BY <1>3, <1>6, <1>8, <2>1 DEF TableFine
<1>10. ASSUME NEW q \in Kept(w), q \notin gone, NEW r \in w.rows, Cell(q) = Cell(r), Cell(r) \notin spoilt,
              crawler = "weather" => q.at = r.at
       PROVE  FALSE
  <2>1. CASE w.key # {}
    BY <1>2, <1>7, <1>10, <2>1, TakenIs
  <2>2. CASE w.key = {} /\ Covers(w)
    BY <1>5, <1>6, <1>10, <2>2 DEF Covers
  <2>3. CASE Emptied(todo, 1)
    BY <1>6, <1>10, <2>3 DEF Emptied
  <2> QED BY <1>2, <2>1, <2>2, <2>3
<1>11. NoDuplicates'
  <2> SUFFICES ASSUME NEW q \in table', NEW r \in table', Cell(q) = Cell(r), Cell(r) \notin spoilt,
                      crawler = "weather" => q.at = r.at
               PROVE  q = r
    BY DEF NoDuplicates, Cell
  <2>1. CASE (q \in Kept(w) /\ q \notin gone) /\ (r \in Kept(w) /\ r \notin gone)
    BY <1>6, <2>1 DEF NoDuplicates
  <2>2. CASE (q \in Kept(w) /\ q \notin gone) /\ \E p \in w.rows : r = N(p)
    BY <1>4, <1>10, <2>2
  <2>3. CASE (r \in Kept(w) /\ r \notin gone) /\ \E p \in w.rows : q = N(p)
    BY <1>4, <1>10, <2>3
  <2>4. CASE (\E p \in w.rows : r = N(p)) /\ (\E p \in w.rows : q = N(p))
    BY <1>2, <1>4, <2>4
  <2> QED BY <1>3, <2>1, <2>2, <2>3, <2>4
<1>12. \A r \in w.rows : \E q \in table' : Cell(q) = Cell(r) /\ q.rev = r.rev
  BY <1>3, <1>4
<1>13. \A q \in table' : \E p \in table \cup w.rows : Cell(q) = Cell(p) /\ q.rev = p.rev
  BY <1>3, <1>4, <1>6
<1>14. ASSUME NEW r \in table
       PROVE  \/ \E q \in table' : Cell(q) = Cell(r) /\ q.rev >= r.rev
              \/ crawler = "entsog" /\ Cell(r) \in w.clear
              \/ ~Wanted(Cell(r))
  <2>1. r.rev \in 0 .. 2
    BY DEF TableFine
  <2>2. ASSUME NEW p \in w.rows, Cell(p) = Cell(r) PROVE \E q \in table' : Cell(q) = Cell(r) /\ q.rev >= r.rev
    <3>1. r.rev <= p.rev
      BY <1>2, <2>2 DEF Fresh
    <3>2. p.rev \in 0 .. 2
      BY <1>2 DEF Row
    <3>3. N(p) \in table' /\ Cell(N(p)) = Cell(r) /\ N(p).rev >= r.rev
      BY <1>3, <1>4, <2>1, <2>2, <3>1, <3>2
    <3> QED BY <3>3
  <2>3. CASE r \notin Kept(w)
    <3>1. Cell(r) \in w.clear
      BY <1>5, <2>3
    <3> QED BY <1>2, <2>2, <3>1 DEF Restores
  <2>4. CASE r \in Kept(w) /\ r \in gone
    <3>1. PICK p \in w.rows : r \in Taken(w, p)
      BY <1>7, <2>4
    <3>2. Cell(p) = Cell(r)
      BY <1>2, <2>4, <3>1, TakenIs
    <3> QED BY <2>2, <3>2
  <2>5. CASE r \in Kept(w) /\ r \notin gone
    BY <1>3, <2>1, <2>5
  <2> QED BY <2>3, <2>4, <2>5
<1>15. w.rows = {} => \A q \in table' : Cell(q) \notin w.clear
  BY <1>3, <1>5, <1>6
<1> QED BY <1>9, <1>11, <1>12, <1>13, <1>14, <1>15

(* The transactions that are left are as fine after the first.             *)
LEMMA TailFine ==
  ASSUME Facts, UNCHANGED <<crawler, now, source>>, spoilt \subseteq spoilt',
         NEW todo, TodoFine(todo), todo # <<>>, NEW w, w = todo[1],
         \A q \in table' : \E p \in table \cup w.rows : Cell(q) = Cell(p) /\ q.rev = p.rev,
         w.rows = {} /\ w.report = "none" => \A q \in table' : Cell(q) \in w.clear => Cell(q) \in spoilt',
         w.report = "none" /\ ~w.optional => IsStored(w.rows)'
  PROVE  TodoFine(Tail(todo))'
<1>0. PICK t, n : t = Tail(todo) /\ n = Len(todo)
  OBVIOUS
<1>1. /\ todo \in Seq(WriteSet) /\ t \in Seq(WriteSet) /\ n \in Nat \ {0} /\ Len(t) = n - 1
      /\ \A i \in 1 .. n - 1 : t[i] = todo[i + 1] /\ i + 1 \in 1 .. n
      /\ 1 \in 1 .. n
  <2>1. todo \in Seq(WriteSet)
    BY DEF TodoFine
  <2> QED BY <1>0, <2>1
<1>2. \A i \in 1 .. n : todo[i].rows \in SUBSET Row
  <2>1. \A i \in 1 .. n : todo[i] \in WriteSet
    BY <1>0, <1>1
  <2> QED BY <2>1 DEF WriteSet
<1>3. WriteSet' = WriteSet /\ \A c : Wanted(c)' = Wanted(c)
  BY SameSets, SameWanted
<1>4. ASSUME NEW i \in 1 .. n PROVE Fresh(todo[i].rows)'
  <2> SUFFICES ASSUME NEW r \in todo[i].rows
               PROVE  /\ r.time <= now /\ r.rev <= source[r.series][r.time]
                      /\ \A q \in table' : Cell(q) = Cell(r) => q.rev <= r.rev
    BY DEF Fresh, Cell
  <2>1. Fresh(todo[i].rows)
    BY <1>0 DEF TodoFine
  <2>2. \A p \in w.rows : Cell(p) = Cell(r) => p = r
    BY <1>0, <1>1 DEF TodoFine
  <2>3. r.rev \in 0 .. 2
    BY <1>2 DEF Row
  <2> QED BY <2>1, <2>2, <2>3 DEF Fresh
<1>5. \A v : HasValues(v)' = HasValues(v) /\ Sound(v)' = Sound(v) /\ Covers(v)' = Covers(v)
  BY DEF HasValues, Sound, Upserts, Key, Covers
<1>6. ASSUME NEW i \in 1 .. n - 1, Emptied(todo, i + 1) PROVE Emptied(t, i)'
  <2>1. i + 1 # 1 /\ (i + 1) - 1 = i
    BY <1>1
  <2>2. /\ todo[i].optional /\ todo[i].rows = {} /\ todo[i].report = "none" /\ todo[i].key = {}
        /\ \A r \in todo[i + 1].rows : Cell(r) \in todo[i].clear
    BY <1>6, <2>1 DEF Emptied
  <2>3. CASE i = 1
    <3>1. \A r \in t[1].rows, q \in table' : Cell(q) = Cell(r) => Cell(r) \in spoilt'
      BY <1>1, <2>2, <2>3
    <3> QED BY <2>3, <3>1 DEF Emptied, Cell
  <2>4. CASE i # 1
    <3>1. i - 1 \in 1 .. n - 1 /\ (i - 1) + 1 = i
      BY <1>1, <2>4
    <3>2. t[i - 1] = todo[i] /\ t[i] = todo[i + 1]
      BY <1>1, <3>1
    <3> QED BY <2>2, <2>4, <3>2 DEF Emptied, Cell
  <2> QED BY <2>3, <2>4
<1>7. ASSUME NEW i \in 1 .. n - 1, t[i].report = "completed" PROVE i = 1 /\ IsStored(t[1].rows)'
  <2>1. i + 1 \in 1 .. n /\ i + 1 # 1 /\ todo[i + 1].report = "completed"
    BY <1>1, <1>7
  <2>2. i + 1 = 2 /\ todo[1].report = "none" /\ ~todo[1].optional /\ todo[2].rows \subseteq todo[1].rows
    BY <1>0, <2>1 DEF TodoFine
  <2>3. IsStored(w.rows)'
    BY <2>2
  <2>4. i = 1 /\ t[1].rows \subseteq w.rows
    BY <1>1, <2>2
  <2>5. IsStored(t[1].rows)'
    BY <2>3, <2>4 DEF IsStored
  <2> QED BY <2>4, <2>5
<1>8. ASSUME NEW i \in 1 .. n - 1, t[i].report = "none"
      PROVE  /\ Sound(t[i])' /\ (t[i].key = {} => Covers(t[i])' \/ Emptied(t, i)')
             /\ crawler = "entsog" \/ t[i].clear = {}
  <2>1. t[i] = todo[i + 1] /\ i + 1 \in 1 .. Len(todo) /\ i + 1 # 1
    BY <1>0, <1>1
  <2>2. /\ Sound(todo[i + 1]) /\ (todo[i + 1].key = {} => Covers(todo[i + 1]) \/ Emptied(todo, i + 1))
        /\ crawler = "entsog" \/ todo[i + 1].clear = {}
    BY <1>8, <2>1 DEF TodoFine
  <2> QED BY <1>5, <1>6, <2>1, <2>2
<1>9. \A i \in 1 .. n - 1 : /\ Fresh(t[i].rows)' /\ HasValues(t[i].rows)'
                            /\ t[i].report # "none" => crawler \in Reporting /\ t[i].update /\ ~t[i].optional
  BY <1>0, <1>1, <1>4, <1>5 DEF TodoFine
<1>10. \A i, j \in 1 .. n - 1 : \A q \in t[i].rows, r \in t[j].rows : Cell(q) = Cell(r) => q = r
  BY <1>0, <1>1 DEF TodoFine
<1>11. TodoFine(t)'
  <2>1. /\ \A i \in 1 .. Len(t) : Fresh(t[i].rows)' /\ HasValues(t[i].rows)'
        /\ \A i \in 1 .. Len(t) : t[i].report # "none" => crawler' \in Reporting /\ t[i].update /\ ~t[i].optional
    BY <1>1, <1>9
  <2>2. \A i, j \in 1 .. Len(t) : \A q \in t[i].rows, r \in t[j].rows : Cell(q) = Cell(r) => q = r
    BY <1>1, <1>10
  <2>3. \A i \in 1 .. Len(t) : t[i].report = "none" =>
          /\ Sound(t[i])' /\ (t[i].key = {} => Covers(t[i])' \/ Emptied(t, i)')
          /\ crawler' = "entsog" \/ t[i].clear = {}
    BY <1>1, <1>8
  <2>4. \A i \in 1 .. Len(t) : t[i].report = "completed" => i = 1 /\ IsStored(t[1].rows)'
    BY <1>1, <1>7
  <2>5. t \in Seq(WriteSet')
    BY <1>1, <1>3
  <2> QED BY <2>1, <2>2, <2>3, <2>4, <2>5 DEF TodoFine, Cell
<1> QED BY <1>0, <1>11

-----------------------------------------------------------------------------
(* A run goes on after a transaction.                                      *)
LEMMA WritingIs ==
  ASSUME Facts, RunFine, run.step = "writing"
  PROVE  /\ Running /\ Writing /\ run \in AnyRun /\ TodoFine(run.todo) /\ run.todo # <<>>
         /\ run.todo \in Seq(WriteSet) /\ Len(run.todo) \in Nat \ {0} /\ 1 \in 1 .. Len(run.todo)
         /\ Head(run.todo) = run.todo[1] /\ run.todo[1] \in WriteSet
<1>1. Running /\ run \in AnyRun
  BY RunIs
<1>2. Writing
  BY <1>1 DEF Running
<1>3. TodoFine(run.todo) /\ run.todo # <<>>
  BY <1>2 DEF Writing
<1>4. run.todo \in Seq(WriteSet)
  BY <1>3 DEF TodoFine
<1>5. Len(run.todo) \in Nat \ {0} /\ 1 \in 1 .. Len(run.todo) /\ Head(run.todo) = run.todo[1] /\ run.todo[1] \in WriteSet
  BY <1>3, <1>4
<1> QED BY <1>1, <1>2, <1>3, <1>4, <1>5

(* The run after a transaction, and the request it reports on.             *)
LEMMA GoesOn ==
  ASSUME Facts, RunFine, run.step = "writing", UNCHANGED <<crawler, now>>,
         run' = Onward([run EXCEPT !.todo = Tail(@)]), NEW todo, todo = run.todo, TodoFine(Tail(todo))'
  PROVE  /\ RunFine'
         /\ \A id : UnderWay(id) => UnderWay(id)' \/ (Len(todo) = 1 /\ todo[1].report \in {"completed", "failed"})
         /\ run.series = 0 => run'.step = "asking" /\ run'.series = 1
<1>0. PICK t, r : t = Tail(todo) /\ r = [run EXCEPT !.todo = t]
  OBVIOUS
<1>1. /\ Running /\ Writing /\ run \in AnyRun /\ todo # <<>> /\ todo \in Seq(WriteSet)
  BY WritingIs
<1>2. /\ t \in Seq(WriteSet) /\ Len(t) = Len(todo) - 1 /\ Len(todo) \in Nat \ {0}
      /\ \A i \in 1 .. Len(t) : t[i] = todo[i + 1] /\ i + 1 \in 1 .. Len(todo)
  BY <1>0, <1>1
<1>3. /\ r \in AnyRun /\ r.series = run.series /\ r.windows = run.windows /\ r.got = run.got
      /\ r.todo = t /\ r.ending = run.ending
  BY <1>0, <1>1, <1>2 DEF AnyRun
<1>4. run' = Onward(r)
  BY <1>0
<1>5. ASSUME r.series = 0 PROVE t = <<>> /\ ~r.ending
  <2>1. IsOpening
    BY <1>1, <1>3, <1>5 DEF Running
  <2> QED BY <1>0, <1>3, <2>1 DEF IsOpening
<1>6. ASSUME r.todo # <<>>
      PROVE  /\ TodoFine(r.todo)'
             /\ r.ending \/ (r.series < LastSeries /\ ~RunOf.gathers)
             /\ \A i \in 1 .. Len(r.todo) : r.todo[i].report = "running" => r.series = 0
             /\ r.series = 0 => crawler = "copernicus" /\ ~r.ending /\ r.todo = <<Report("running", {})>>
  <2>1. TodoFine(t)'
    BY <1>0
  <2>2. TodoFine(r.todo)'
    BY <1>3, <2>1
  <2>3. r.ending \/ (r.series < LastSeries /\ ~RunOf.gathers)
    BY <1>1, <1>3 DEF Writing
  <2>4. \A i \in 1 .. Len(r.todo) : r.todo[i].report = "running" => r.series = 0
    BY <1>1, <1>2, <1>3 DEF Writing
  <2> QED BY <1>3, <1>5, <1>6, <2>2, <2>3, <2>4
<1>7. ASSUME r.todo = <<>>, ~r.ending PROVE r.series < LastSeries /\ Fresh(r.got)' /\ Asked(r)
  <2>1. r.series < LastSeries /\ ~RunOf.gathers
    BY <1>1, <1>3, <1>7 DEF Writing
  <2>2. r.got = {} /\ crawler \notin Whole
    BY <1>1, <1>3, <2>1, RunOfIs DEF Running, Facts, Gatherers, Whole
  <2>3. Fresh(r.got)'
    BY <2>2 DEF Fresh
  <2>4. Asked(r)
    BY <2>2 DEF Asked, Distinct
  <2> QED BY <2>1, <2>3, <2>4
<1>8. RunFine'
  <2>1. crawler \notin ReadOn => \A u \in Series : r.windows[u] = Window(u)
    BY <1>1, <1>3 DEF Running
  <2>2. ~RunOf.gathers => r.got = {}
    BY <1>1, <1>3 DEF Running
  <2> QED BY <1>3, <1>4, <1>6, <1>7, <2>1, <2>2, OnwardFine
<1>9. ASSUME NEW id, UnderWay(id)
      PROVE  UnderWay(id)' \/ (Len(todo) = 1 /\ todo[1].report \in {"completed", "failed"})
  <2>1. /\ crawler = "copernicus" /\ run.series = 1 /\ run.ending
        /\ todo[Len(todo)].report \in {"completed", "failed"}
    BY <1>9 DEF UnderWay
  <2>2. CASE t = <<>>
    <3>1. Len(todo) = 1
      BY <1>2, <2>2
    <3> QED BY <2>1, <3>1
  <2>3. CASE t # <<>>
    <3>1. /\ run'.step = "writing" /\ run'.series = 1 /\ run'.todo = t /\ run'.ending
      BY <1>3, <1>4, <2>1, <2>3, OnwardIs
    <3>2. Len(t) \in 1 .. Len(t) /\ Len(t) + 1 = Len(todo)
      BY <1>2, <2>3
    <3>3. t[Len(t)] = todo[Len(todo)]
      BY <1>2, <3>2
    <3> QED BY <1>9, <2>1, <3>1, <3>3 DEF UnderWay
  <2> QED BY <2>2, <2>3
<1>10. ASSUME run.series = 0 PROVE run'.step = "asking" /\ run'.series = 1
  <2>1. r.todo = <<>> /\ ~r.ending /\ r.series = 0
    BY <1>3, <1>5, <1>10
  <2>2. Onward(r).step = "asking" /\ Onward(r).series = r.series + 1
    BY <1>3, <2>1, OnwardIs
  <2>3. r.series + 1 = 1
    BY <2>1
  <2> QED BY <1>4, <2>2, <2>3
<1> QED BY <1>8, <1>9, <1>10

(* A transaction only replaces a row by one that is not older.             *)
LEMMA CommitTable ==
  ASSUME DailyInv, Commit, NEW w, w = Head(run.todo), w.report = "none"
  PROVE  /\ TableFine' /\ NoDuplicates'
         /\ \A r \in table : \/ \E q \in table' : Cell(q) = Cell(r) /\ q.rev >= r.rev
                             \/ crawler = "entsog" /\ Cell(r) \in w.clear
                             \/ ~Wanted(Cell(r))
         /\ \A r \in w.rows : \E q \in table' : Cell(q) = Cell(r) /\ q.rev = r.rev
         /\ \A q \in table' : \E p \in table \cup w.rows : Cell(q) = Cell(p) /\ q.rev = p.rev
         /\ w.rows = {} => \A q \in table' : Cell(q) \notin w.clear
<1>1. PICK todo : todo = run.todo
  OBVIOUS
<1>2. TodoFine(todo) /\ todo # <<>> /\ w = todo[1]
  BY <1>1, WritingIs DEF DailyInv, Commit
<1>3. ~Rejected(w) /\ table' = Inserted(w) /\ UNCHANGED <<crawler, now, source, spoilt>>
  BY DEF Commit
<1> QED BY <1>2, <1>3, InsertFine DEF DailyInv

(* A transaction is committed.                                             *)
LEMMA CommitFine ==
  ASSUME DailyInv, Commit
  PROVE  DailyInv'
<1> USE DEF DailyInv
<1>0. PICK w, s, todo : /\ w = Head(run.todo) /\ s = (IF run.series = 0 THEN 1 ELSE run.series)
                        /\ todo = run.todo
  OBVIOUS
<1>1. /\ run.step = "writing" /\ UNCHANGED <<crawler, now, source, cut, spoilt>>
      /\ run' = Onward([run EXCEPT !.todo = Tail(@)])
      /\ w.report = "none" => UNCHANGED reports
      /\ w.report # "none" =>
           /\ reports' = [reports EXCEPT ![RequestOf(s)] = [state |-> w.report, rows |-> w.rows]]
           /\ table' = table
  BY <1>0 DEF Commit
<1>2. /\ Running /\ Writing /\ TodoFine(todo) /\ todo # <<>> /\ w = todo[1] /\ w \in WriteSet
      /\ 1 \in 1 .. Len(todo)
  BY <1>0, <1>1, WritingIs
<1>3. /\ w.rows \in SUBSET Row
      /\ w.report # "none" => crawler \in Reporting /\ ~w.optional
      /\ w.report = "completed" => IsStored(w.rows)
      /\ w.report = "running" => run.series = 0
  <2>1. w.rows \in SUBSET Row
    BY <1>2 DEF WriteSet
  <2>2. w.report # "none" => crawler \in Reporting /\ ~w.optional
    BY <1>2 DEF TodoFine
  <2>3. w.report = "completed" => IsStored(w.rows)
    BY <1>2 DEF TodoFine
  <2>4. w.report = "running" => run.series = 0
    BY <1>0, <1>2 DEF Writing
  <2> QED BY <2>1, <2>2, <2>3, <2>4
<1>4. DOMAIN reports' = DOMAIN reports
  BY <1>1
<1>5. Facts' /\ SourceGrows
  BY <1>1, <1>4, FactsStay
<1>6. TableFine' /\ NoDuplicates'
  <2>1. CASE w.report = "none"
    BY <1>0, <2>1, CommitTable
  <2>2. CASE w.report # "none"
    BY <1>1, <1>5, <2>2, TableStays
  <2> QED BY <2>1, <2>2
<1>7. \A rows : crawler \in Reporting /\ rows \in SUBSET Row /\ IsStored(rows) => IsStored(rows)'
  <2>1. CASE w.report = "none"
    <3> SUFFICES ASSUME NEW rows \in SUBSET Row, crawler \in Reporting, IsStored(rows), NEW r \in rows,
                        Wanted(Cell(r))'
                 PROVE  \E q \in table' : Cell(q) = Cell(r) /\ q.rev >= r.rev
      BY DEF IsStored, RowsOf, Cell
    <3>1. Wanted(Cell(r))
      <4>1. PICK c : c = Cell(r)
        OBVIOUS
      <4>2. Wanted(c)'
        BY <4>1 DEF Cell
      <4> QED BY <1>1, <4>1, <4>2, SameWanted
    <3>2. PICK q \in table : Cell(q) = Cell(r) /\ q.rev >= r.rev
      BY <3>1 DEF IsStored, RowsOf
    <3>3. crawler # "entsog"
      BY DEF Reporting
    <3>4. PICK p \in table' : Cell(p) = Cell(q) /\ p.rev >= q.rev
      BY <1>0, <2>1, <3>1, <3>2, <3>3, CommitTable
    <3>5. p.rev \in 0 .. 2 /\ q.rev \in 0 .. 2 /\ r.rev \in 0 .. 2
      BY <1>6 DEF TableFine, Row
    <3> QED BY <3>2, <3>4, <3>5
  <2>2. CASE w.report # "none"
    BY <1>1, <2>2, SameWanted DEF IsStored, RowsOf
  <2> QED BY <2>1, <2>2
<1>8. TodoFine(Tail(todo))'
  <2>1. \A q \in table' : \E p \in table \cup w.rows : Cell(q) = Cell(p) /\ q.rev = p.rev
    <3>1. CASE w.report = "none"
      BY <1>0, <3>1, CommitTable
    <3>2. CASE w.report # "none"
      BY <1>1, <3>2
    <3> QED BY <3>1, <3>2
  <2>2. w.rows = {} /\ w.report = "none" => \A q \in table' : Cell(q) \in w.clear => Cell(q) \in spoilt'
    BY <1>0, CommitTable
  <2>3. ASSUME w.report = "none", ~w.optional PROVE IsStored(w.rows)'
    <3>1. \A r \in w.rows : \E q \in table' : Cell(q) = Cell(r) /\ q.rev = r.rev
      BY <1>0, <2>3, CommitTable
    <3>2. \A r \in w.rows : r.rev \in 0 .. 2
      BY <1>3 DEF Row
    <3> QED BY <3>1, <3>2 DEF IsStored, RowsOf, Cell
  <2>4. spoilt \subseteq spoilt'
    BY <1>1
  <2> QED BY <1>1, <1>2, <2>1, <2>2, <2>3, <2>4, TailFine
<1>9. /\ RunFine'
      /\ \A id : UnderWay(id) => UnderWay(id)' \/ (Len(todo) = 1 /\ w.report \in {"completed", "failed"})
      /\ run.series = 0 => run'.step = "asking" /\ run'.series = 1
  BY <1>0, <1>1, <1>2, <1>8, GoesOn
<1>10. ReportsFine'
  <2>1. Requests' = Requests /\ Row' = Row
    BY <1>1, SameSets
  <2>2. ASSUME NEW id \in Requests, reports'[id] = reports[id],
               reports[id].state = "running" /\ UnderWay(id) => UnderWay(id)'
        PROVE  /\ reports'[id].rows \in SUBSET Row
               /\ reports'[id].state # "none" => crawler' \in Reporting
               /\ reports'[id].state = "completed" => IsStored(reports[id].rows)'
               /\ reports'[id].state = "running" => cut' \/ UnderWay(id)'
    <3>1. /\ reports[id].rows \in SUBSET Row
          /\ reports[id].state # "none" => crawler \in Reporting
          /\ reports[id].state = "completed" => IsStored(reports[id].rows)
          /\ reports[id].state = "running" => cut \/ UnderWay(id)
      BY DEF ReportsFine
    <3>2. PICK rows : rows = reports[id].rows
      OBVIOUS
    <3>3. reports[id].state = "completed" => IsStored(rows)'
      BY <1>7, <3>1, <3>2
    <3>4. reports[id].state = "completed" => IsStored(reports[id].rows)'
      BY <2>2, <3>2, <3>3 DEF IsStored
    <3> QED BY <1>1, <2>2, <3>1, <3>4
  <2>3. CASE w.report = "none"
    <3>1. \A id \in Requests : reports'[id] = reports[id] /\ (UnderWay(id) => UnderWay(id)')
      BY <1>1, <1>9, <2>3
    <3> QED BY <2>1, <2>2, <3>1 DEF ReportsFine
  <2>4. CASE w.report # "none"
    <3>1. ASSUME NEW id \in Requests, id # RequestOf(s)
          PROVE  reports'[id] = reports[id] /\ ~UnderWay(id)
      <4>1. reports'[id] = reports[id]
        BY <1>1, <2>4, <3>1 DEF Facts
      <4>2. ~UnderWay(id)
        BY <1>0, <3>1 DEF UnderWay, RequestOf
      <4> QED BY <4>1, <4>2
    <3>2. ASSUME NEW id \in Requests, id = RequestOf(s)
          PROVE  /\ reports'[id].rows \in SUBSET Row
                 /\ reports'[id].state # "none" => crawler' \in Reporting
                 /\ reports'[id].state = "completed" => IsStored(reports[id].rows)'
                 /\ reports'[id].state = "running" => cut' \/ UnderWay(id)'
      <4>1. reports'[id] = [state |-> w.report, rows |-> w.rows]
        BY <1>1, <2>4, <3>2 DEF Facts
      <4>2. reports'[id].state = w.report /\ reports'[id].rows = w.rows
        BY <4>1
      <4>3. w.report = "completed" => IsStored(reports[id].rows)'
        <5>1. w.report = "completed" => IsStored(w.rows)'
          BY <1>3, <1>7
        <5> QED BY <4>2, <5>1 DEF IsStored
      <4>4. ASSUME w.report = "running" PROVE UnderWay(id)'
        <5>1. run.series = 0 /\ IsOpening
          BY <1>2, <1>3, <4>4 DEF Running
        <5>2. crawler = "copernicus" /\ id = <<1, now>>
          BY <1>0, <3>2, <5>1 DEF IsOpening, RequestOf
        <5> QED BY <1>1, <1>9, <5>1, <5>2 DEF UnderWay
      <4> QED BY <1>1, <1>3, <2>4, <4>2, <4>3, <4>4
    <3> QED BY <2>1, <2>2, <3>1, <3>2 DEF ReportsFine
  <2> QED BY <2>3, <2>4
<1> QED BY <1>5, <1>6, <1>9, <1>10

(* A transaction fails.                                                    *)
LEMMA CommitFailsFine ==
  ASSUME DailyInv, CommitFails
  PROVE  DailyInv'
<1> USE DEF DailyInv
<1>0. PICK w, todo : w = Head(run.todo) /\ todo = run.todo
  OBVIOUS
<1>1. /\ run.step = "writing" /\ UNCHANGED <<crawler, now, source, table, reports>>
      /\ w.optional => /\ run' = Onward([run EXCEPT !.todo = Tail(@)])
                       /\ spoilt' = spoilt \cup w.clear /\ cut' = cut
      /\ ~w.optional => /\ IF run.failing \/ run.series = 0 THEN run' = Idle ELSE Recover(RunOf.onWrite = "abort")
                        /\ cut' = (cut \/ run.failing) /\ spoilt' = spoilt
  BY <1>0 DEF CommitFails
<1>2. /\ Running /\ TodoFine(todo) /\ todo # <<>> /\ w = todo[1] /\ w \in WriteSet
      /\ 1 \in 1 .. Len(todo) /\ run.series \in Nat /\ run.failing \in BOOLEAN
  <2>1. run.series \in Nat /\ run.failing \in BOOLEAN
    BY <1>1, WritingIs, SeriesAre DEF AnyRun
  <2> QED BY <1>0, <1>1, <2>1, WritingIs
<1>3. Facts' /\ SourceGrows
  BY <1>1, FactsStay
<1>4. CASE w.optional
  <2>1. w.report = "none"
    BY <1>2, <1>4 DEF TodoFine
  <2>2. TodoFine(Tail(todo))'
    <3>1. \A q \in table' : \E p \in table \cup w.rows : Cell(q) = Cell(p) /\ q.rev = p.rev
      BY <1>1
    <3>2. \A q \in table' : Cell(q) \in w.clear => Cell(q) \in spoilt'
      BY <1>1, <1>4
    <3>3. spoilt \subseteq spoilt'
      BY <1>1, <1>4
    <3> QED BY <1>1, <1>2, <1>4, <3>1, <3>2, <3>3, TailFine
  <2>3. /\ RunFine'
        /\ \A id : UnderWay(id) => UnderWay(id)' \/ (Len(todo) = 1 /\ w.report \in {"completed", "failed"})
    BY <1>0, <1>1, <1>2, <1>4, <2>2, GoesOn
  <2>4. TableFine' /\ NoDuplicates'
    BY <1>1, <1>3, <1>4, TableStays
  <2>5. ReportsFine'
    BY <1>1, <1>4, <2>1, <2>3, ReportsStay
  <2> QED BY <1>3, <2>3, <2>4, <2>5
<1>5. CASE ~w.optional /\ (run.failing \/ run.series = 0)
  <2>1. run' = Idle /\ spoilt' = spoilt /\ cut' = (cut \/ run.failing)
    BY <1>1, <1>5
  <2>2. RunFine'
    BY <1>1, <2>1, SameSets DEF RunFine
  <2>3. TableFine' /\ NoDuplicates'
    BY <1>1, <1>3, <2>1, TableStays
  <2>4. ASSUME NEW id, UnderWay(id) PROVE cut'
    <3>1. run.series # 0
      BY <2>4 DEF UnderWay
    <3>2. run.failing
      BY <1>5, <3>1
    <3> QED BY <2>1, <3>2
  <2>5. cut => cut'
    BY <2>1
  <2>6. ReportsFine'
    BY <1>1, <2>1, <2>4, <2>5, ReportsStay
  <2> QED BY <1>3, <2>2, <2>3, <2>6
<1>6. CASE ~w.optional /\ ~(run.failing \/ run.series = 0)
  <2>1. PICK ends : ends = (RunOf.onWrite = "abort")
    OBVIOUS
  <2>2. Recover(ends) /\ ends \in BOOLEAN
    BY <1>1, <1>6, <2>1
  <2>3. RunOf.gathers => ends
    BY <2>1, RunOfAborts DEF Facts
  <2>4. run.series >= 1
    BY <1>2, <1>6
  <2>5. UNCHANGED spoilt /\ (cut => cut') /\ run.step # "idle"
    BY <1>1, <1>6
  <2> QED BY <1>1, <2>2, <2>3, <2>4, <2>5, RecoverFine
<1> QED BY <1>4, <1>5, <1>6

-----------------------------------------------------------------------------
(* The service.                                                            *)
LEMMA RunStays ==
  ASSUME Facts, Facts', RunFine, UNCHANGED <<crawler, now, table, spoilt, run>>, SourceGrows
  PROVE  RunFine'
<1>0. PICK todo, got : todo = run.todo /\ got = run.got
  OBVIOUS
<1>1. Idle' = Idle /\ Series' = Series /\ RunSet' = RunSet /\ LastSeries' = LastSeries
      /\ (RunOf.gathers)' = RunOf.gathers
  BY SameSets
<1>2. ASSUME Running PROVE Running'
  <2>1. \A s : crawler \notin ReadOn => Window(s)' = Window(s)
    BY SameWindow
  <2>2. ASSUME GotFine PROVE GotFine'
    <3>1. got \in SUBSET Row /\ Fresh(got)
      BY <1>0, <1>2, <2>2 DEF Running, RunSet, GotFine
    <3>2. Fresh(got)'
      BY <3>1, FreshStays
    <3>3. Fresh(run.got)'
      BY <1>0, <3>2 DEF Fresh
    <3>4. \A s : GotSeries(s)' = GotSeries(s)
      BY DEF GotSeries, Cell
    <3> QED BY <1>1, <2>2, <3>3, <3>4 DEF GotFine, Distinct, Cell
  <2>3. ASSUME Writing PROVE Writing'
    <3>1. TodoFine(todo)
      BY <1>0, <2>3 DEF Writing
    <3>2. TodoFine(todo)'
      BY <3>1, TodoStays
    <3>3. TodoFine(run.todo)'
      <4>1. run.todo' = todo
        BY <1>0
      <4> QED BY <3>2, <4>1
    <3> QED BY <1>1, <2>3, <3>3 DEF Writing
  <2>4. IsOpening => IsOpening'
    BY DEF IsOpening, Report, Write
  <2> QED BY <1>1, <1>2, <2>1, <2>2, <2>3, <2>4 DEF Running
<1> QED BY <1>1, <1>2 DEF RunFine

(* The service publishes or revises a day.                                 *)
LEMMA PublishFine ==
  ASSUME DailyInv, NEW s \in Series, NEW t \in Days, Publish(s, t)
  PROVE  DailyInv'
<1> USE DEF DailyInv
<1>1. UNCHANGED <<crawler, now, table, reports, run, cut, spoilt>> /\ source' = [source EXCEPT ![s][t] = @ + 1]
      /\ source[s][t] < 2
  BY DEF Publish
<1>2. source[s][t] \in 0 .. 2 /\ source[s][t] + 1 \in 0 .. 2
  BY <1>1 DEF Facts
<1>3. source' \in [Series -> [Days -> 0 .. 2]] /\ SourceGrows
  <2>1. source' \in [Series -> [Days -> 0 .. 2]]
    BY <1>1, <1>2 DEF Facts
  <2>2. ASSUME NEW u \in Series, NEW d \in Days PROVE source[u][d] <= source'[u][d]
    <3>1. source[u][d] \in 0 .. 2
      BY DEF Facts
    <3>2. source'[u][d] = IF u = s /\ d = t THEN source[s][t] + 1 ELSE source[u][d]
      BY <1>1 DEF Facts
    <3> QED BY <1>2, <3>1, <3>2
  <2> QED BY <2>1, <2>2 DEF SourceGrows
<1>4. Facts'
  BY <1>1, <1>3, SameSets DEF Facts
<1>5. TableFine' /\ NoDuplicates'
  BY <1>1, <1>3, <1>4, TableStays
<1>6. RunFine'
  BY <1>1, <1>3, <1>4, RunStays
<1>7. ReportsFine'
  BY <1>1, ReportsStay DEF UnderWay
<1> QED BY <1>4, <1>5, <1>6, <1>7

(* The next day begins, between runs.                                      *)
LEMMA NextDayFine ==
  ASSUME DailyInv, NEW late \in SUBSET Series, NextDay(late)
  PROVE  DailyInv'
<1> USE DEF DailyInv
<1>1. /\ run.step = "idle" /\ UNCHANGED <<crawler, table, reports, run, cut, spoilt>>
      /\ now' = now + 1 /\ now < Horizon
      /\ source' = [u \in Series |-> [source[u] EXCEPT ![now + 1] = IF u \in late THEN 0 ELSE 1]]
  BY DEF NextDay
<1>2. now \in Nat /\ now + 1 \in Days
  BY <1>1, DaysAre DEF Facts
<1>3. /\ source' \in [Series -> [Days -> 0 .. 2]]
      /\ \A u \in Series, d \in Days : d <= now => source'[u][d] = source[u][d]
  BY <1>1, <1>2 DEF Facts
<1>4. Facts'
  BY <1>1, <1>2, <1>3, SameSets DEF Facts
<1>5. TableFine'
  <2>1. \A d \in Days : d <= now => d <= now + 1
    BY <1>2, DaysAre
  <2> QED BY <1>1, <1>3, <2>1, SameSets DEF TableFine
<1>6. NoDuplicates'
  BY <1>1 DEF NoDuplicates, Cell
<1>7. RunFine'
  BY <1>1, RunIs, SameSets DEF RunFine
<1>8. ReportsFine'
  <2>1. \A id : ~UnderWay(id)
    BY <1>1 DEF UnderWay
  <2>2. ASSUME crawler \in Reporting, NEW rows PROVE IsStored(rows)' = IsStored(rows)
    <3>1. \A c : Wanted(c)' = Wanted(c)
      BY <1>1, <2>2 DEF Wanted, NetzTimed, Reporting
    <3> QED BY <1>1, <3>1 DEF IsStored, RowsOf, Cell
  <2>3. Requests' = Requests /\ Row' = Row
    BY <1>1, SameSets
  <2> QED BY <1>1, <2>1, <2>2, <2>3 DEF ReportsFine
<1> QED BY <1>4, <1>5, <1>6, <1>7, <1>8

(* Nothing is stored at the start.                                         *)
LEMMA InitFine == Init => DailyInv
<1> SUFFICES ASSUME Init PROVE DailyInv
  OBVIOUS
<1>1. Facts
  <2>1. crawler \in AllCrawlers
    BY NamesAssumption DEF Init
  <2>2. now \in Days
    BY DaysAre DEF Init
  <2>3. source \in [Series -> [Days -> 0 .. 2]]
    BY DEF Init
  <2>4. DOMAIN reports = Requests
    BY DEF Init
  <2> QED BY <2>1, <2>2, <2>3, <2>4 DEF Facts
<1>2. TableFine /\ NoDuplicates
  BY DEF Init, TableFine, NoDuplicates
<1>3. RunFine
  BY DEF Init, RunFine
<1>4. ReportsFine
  <2>1. \A id \in Requests : reports[id].state = "none" /\ reports[id].rows = {}
    BY DEF Init
  <2> QED BY <2>1 DEF ReportsFine
<1> QED BY <1>1, <1>2, <1>3, <1>4 DEF DailyInv

(* Each step preserves the invariant.                                      *)
LEMMA StepFine == DailyInv /\ [Next]_vars => DailyInv'
<1> SUFFICES ASSUME DailyInv, [Next]_vars PROVE DailyInv'
  OBVIOUS
<1>1. CASE UNCHANGED vars
  <2> USE DEF DailyInv
  <2>1. Facts' /\ SourceGrows
    BY <1>1, FactsStay DEF vars
  <2>2. TableFine' /\ NoDuplicates'
    BY <1>1, <2>1, TableStays DEF vars
  <2>3. RunFine'
    BY <1>1, <2>1, RunStays DEF vars
  <2>4. ReportsFine'
    BY <1>1, ReportsStay DEF vars, UnderWay
  <2> QED BY <2>1, <2>2, <2>3, <2>4
<1>2. CASE Begin
  BY <1>2, BeginFine
<1>3. CASE Run
  BY <1>3, AskFine, AskFailsFine, CommitFine, CommitFailsFine, DieFine DEF Run
<1>4. CASE \E late \in SUBSET Series : NextDay(late)
  BY <1>4, NextDayFine
<1>5. CASE \E s \in Series, t \in Days : Publish(s, t)
  BY <1>5, PublishFine
<1> QED BY <1>1, <1>2, <1>3, <1>4, <1>5 DEF Next

(* The invariant of the daily crawlers.                                    *)
THEOREM DailyInvariant == Spec => []DailyInv
  BY InitFine, StepFine, PTL DEF Spec

(* NoDuplicates, for every crawler, number of series, look-back, number    *)
(* of failures and of late or revised days: the tables without a key       *)
(* (netztransparenz, tradinghub, eia, regelleistung, entsog) hold a cell   *)
(* once because a transaction deletes every cell it inserts, and only a    *)
(* deletion whose exception entsog swallows can spoil that.                *)
THEOREM StoredOnce == Spec => []NoDuplicates
<1>1. DailyInv => NoDuplicates
  BY DEF DailyInv
<1> QED BY <1>1, DailyInvariant, PTL

(* ReportsTrue: what the status tables of netztransparenz and copernicus   *)
(* report as completed is stored, as it was fetched or newer, and what     *)
(* copernicus reports as running is running, unless the run was killed     *)
(* or could not write its report.                                          *)
THEOREM ReportsHold == Spec => []ReportsTrue
<1>1. DailyInv => ReportsTrue
  <2> SUFFICES ASSUME DailyInv, NEW id \in Requests
               PROVE  /\ reports[id].state = "completed" => IsStored(reports[id].rows)
                      /\ reports[id].state = "running" => (cut \/ run.step # "idle")
    BY DEF ReportsTrue, IsStored
  <2>1. UnderWay(id) => run.step # "idle"
    BY DEF UnderWay
  <2> QED BY <2>1 DEF DailyInv, ReportsFine
<1> QED BY <1>1, DailyInvariant, PTL

(* KeepsWhatItHas: no step of any run replaces a stored row by an older    *)
(* one or removes it, except between entsog's deletion of a chunk and      *)
(* its insertion, and the rows that are no longer wanted.                  *)
THEOREM RowsKept == Spec => KeepsWhatItHas
<1> DEFINE Keeps == \A r \in table :
                      \/ \E q \in table' : Cell(q) = Cell(r) /\ q.rev >= r.rev
                      \/ crawler = "entsog" /\ run.step = "writing" /\ Cell(r) \in Head(run.todo).clear
                      \/ ~Wanted(Cell(r))
<1>1. DailyInv /\ [Next]_vars => [Keeps]_vars
  <2> SUFFICES ASSUME DailyInv, Next PROVE Keeps
    OBVIOUS
  <2>1. ASSUME table' = table PROVE Keeps
    <3>1. \A r \in table : r.rev \in 0 .. 2
      BY DEF DailyInv, TableFine
    <3>2. \A r \in table : r \in table' /\ r.rev >= r.rev
      BY <2>1, <3>1
    <3> QED BY <3>2
  <2>2. ASSUME Commit PROVE Keeps
    <3>1. PICK w : w = Head(run.todo)
      OBVIOUS
    <3>2. CASE w.report = "none"
      BY <2>2, <3>1, <3>2, CommitTable DEF Commit
    <3>3. CASE w.report # "none"
      <4>1. table' = table
        BY <2>2, <3>1, <3>3 DEF Commit
      <4> QED BY <2>1, <4>1
    <3> QED BY <3>2, <3>3
  <2>3. Commit \/ table' = table
    BY DEF Next, Run, Begin, Ask, AskFails, CommitFails, Die, NextDay, Publish
  <2> QED BY <2>1, <2>2, <2>3
<1>2. KeepsWhatItHas <=> [][Keeps]_vars
  BY PTL DEF KeepsWhatItHas
<1> QED BY <1>1, <1>2, DailyInvariant, PTL DEF Spec

-----------------------------------------------------------------------------
(* One label whose local hour stands for one hour.                         *)
LEMMA LabelledHour ==
  ASSUME NEW day, NEW n, NEW h
  PROVE  /\ Localized(day, n - 1, "raise") = {h} => DeliveryStart(day, <<n, "">>) = h
         /\ Localized(day, n - 1, "first") = {h} => DeliveryStart(day, <<n, "A">>) = h
         /\ Localized(day, n - 1, "second") = {h} => DeliveryStart(day, <<n, "B">>) = h
<1>1. ASSUME Localized(day, n - 1, "raise") = {h} PROVE DeliveryStart(day, <<n, "">>) = h
  BY <1>1, Zenon DEF DeliveryStart
<1>2. ASSUME Localized(day, n - 1, "first") = {h} PROVE DeliveryStart(day, <<n, "A">>) = h
  BY <1>2, Zenon DEF DeliveryStart
<1>3. ASSUME Localized(day, n - 1, "second") = {h} PROVE DeliveryStart(day, <<n, "B">>) = h
  BY <1>3, Zenon DEF DeliveryStart
<1> QED BY <1>1, <1>2, <1>3

(* The hour of each label of each day.                                     *)
LEMMA HourOf ==
  /\ \A n \in 1 .. 5 : DeliveryStart("normal", <<n, "">>) = n - 1
  /\ \A n \in (1 .. 5) \ {3} : DeliveryStart("forward", <<n, "">>) = IF n < 3 THEN n - 1 ELSE n - 2
  /\ \A n \in (1 .. 5) \ {3} : DeliveryStart("back", <<n, "">>) = IF n < 3 THEN n - 1 ELSE n
  /\ DeliveryStart("back", <<3, "A">>) = 2 /\ DeliveryStart("back", <<3, "B">>) = 3
<1>1. ASSUME NEW n \in 1 .. 5 PROVE DeliveryStart("normal", <<n, "">>) = n - 1
  <2>1. Localized("normal", n - 1, "raise") = {n - 1}
    BY DEF Localized
  <2> QED BY <2>1, LabelledHour
<1>2. ASSUME NEW n \in (1 .. 5) \ {3}
      PROVE DeliveryStart("forward", <<n, "">>) = IF n < 3 THEN n - 1 ELSE n - 2
  <2>1. PICK h : h = IF n < 3 THEN n - 1 ELSE n - 2
    OBVIOUS
  <2>2. Localized("forward", n - 1, "raise") = {h}
    BY <2>1 DEF Localized
  <2> QED BY <2>1, <2>2, LabelledHour
<1>3. ASSUME NEW n \in (1 .. 5) \ {3} PROVE DeliveryStart("back", <<n, "">>) = IF n < 3 THEN n - 1 ELSE n
  <2>1. PICK h : h = IF n < 3 THEN n - 1 ELSE n
    OBVIOUS
  <2>2. Localized("back", n - 1, "raise") = {h}
    BY <2>1 DEF Localized
  <2> QED BY <2>1, <2>2, LabelledHour
<1>4. DeliveryStart("back", <<3, "A">>) = 2 /\ DeliveryStart("back", <<3, "B">>) = 3
  <2>1. PICK n : n = 3
    OBVIOUS
  <2>2. n - 1 = 2
    BY <2>1
  <2>3. Localized("back", n - 1, "first") = {2}
    BY <2>2 DEF Localized
  <2>4. Localized("back", n - 1, "second") = {3}
    BY <2>2 DEF Localized
  <2>5. DeliveryStart("back", <<n, "A">>) = 2 /\ DeliveryStart("back", <<n, "B">>) = 3
    BY <2>3, <2>4, LabelledHour
  <2> QED BY <2>1, <2>5
<1> QED BY <1>1, <1>2, <1>3, <1>4

(* The labels of a day, as pairs.                                          *)
LEMMA LabelPairs ==
  /\ \A l : l \in IdaLabels("normal") <=> \E n \in 1 .. 5 : l = <<n, "">>
  /\ \A l : l \in IdaLabels("forward") <=> \E n \in (1 .. 5) \ {3} : l = <<n, "">>
  /\ \A l : l \in IdaLabels("back") <=>
       \/ \E n \in (1 .. 5) \ {3} : l = <<n, "">>
       \/ l = <<3, "A">> \/ l = <<3, "B">>
<1>1. IdaLabels("normal") = (1 .. 5) \X {""} /\ IdaLabels("forward") = ((1 .. 5) \ {3}) \X {""}
      /\ IdaLabels("back") = (((1 .. 5) \ {3}) \X {""}) \cup ({3} \X {"A", "B"})
  BY DEF IdaLabels
<1>2. ASSUME NEW S, NEW T, NEW l, l \in S \X T PROVE \E n \in S, b \in T : l = <<n, b>>
  BY <1>2
<1>3. ASSUME NEW S, NEW l PROVE l \in S \X {""} <=> \E n \in S : l = <<n, "">>
  <2>1. ASSUME l \in S \X {""} PROVE \E n \in S : l = <<n, "">>
    <3>1. PICK T : T = {""}
      OBVIOUS
    <3>2. l \in S \X T
      BY <2>1, <3>1
    <3>3. PICK n \in S, b \in T : l = <<n, b>>
      BY <1>2, <3>2
    <3>4. b = ""
      BY <3>1
    <3> QED BY <3>3, <3>4
  <2>2. ASSUME NEW n \in S PROVE <<n, "">> \in S \X {""}
    OBVIOUS
  <2> QED BY <2>1, <2>2
<1>4. ASSUME NEW l PROVE l \in {3} \X {"A", "B"} <=> \/ l = <<3, "A">>
                                                     \/ l = <<3, "B">>
  <2>1. ASSUME l \in {3} \X {"A", "B"} PROVE l = <<3, "A">> \/ l = <<3, "B">>
    <3>1. PICK n \in {3}, b \in {"A", "B"} : l = <<n, b>>
      BY <1>2, <2>1
    <3> QED BY <3>1
  <2> QED BY <2>1
<1>5. ASSUME NEW l PROVE l \in IdaLabels("normal") <=> \E n \in 1 .. 5 : l = <<n, "">>
  <2>1. PICK S : S = 1 .. 5
    OBVIOUS
  <2>2. l \in S \X {""} <=> \E n \in S : l = <<n, "">>
    BY <1>3
  <2> QED BY <1>1, <2>1, <2>2
<1>6. ASSUME NEW l PROVE l \in IdaLabels("forward") <=> \E n \in (1 .. 5) \ {3} : l = <<n, "">>
  <2>1. l \in ((1 .. 5) \ {3}) \X {""} <=> \E n \in (1 .. 5) \ {3} : l = <<n, "">>
    BY <1>3
  <2> QED BY <1>1, <2>1
<1>7. ASSUME NEW l
      PROVE  l \in IdaLabels("back") <=> \/ \E n \in (1 .. 5) \ {3} : l = <<n, "">>
                                         \/ l = <<3, "A">> \/ l = <<3, "B">>
  <2>1. l \in ((1 .. 5) \ {3}) \X {""} <=> \E n \in (1 .. 5) \ {3} : l = <<n, "">>
    BY <1>3
  <2> QED BY <1>1, <1>4, <2>1, Zenon
<1> QED BY <1>5, <1>6, <1>7

(* LabelsNameHours: on each kind of local day the labels of an auction's   *)
(* columns name the hours of the day, each hour by one label.              *)
THEOREM LabelsTellHours == Spec => []LabelsNameHours
<1> DEFINE All(day) ==
      /\ {DeliveryStart(day, l) : l \in IdaLabels(day)} = 0 .. Length(day) - 1
      /\ \A k, l \in IdaLabels(day) : DeliveryStart(day, k) = DeliveryStart(day, l) => k = l
<1>1. ASSUME NEW day, NEW H,
             \A l \in IdaLabels(day) : DeliveryStart(day, l) \in H,
             \A h \in H : \E l \in IdaLabels(day) : DeliveryStart(day, l) = h,
             H = 0 .. Length(day) - 1,
             \A k, l \in IdaLabels(day) : DeliveryStart(day, k) = DeliveryStart(day, l) => k = l
      PROVE  All(day)
  BY <1>1
<1> HIDE DEF All
<1>2. All("normal")
  <2>1. ASSUME NEW l \in IdaLabels("normal")
        PROVE  \E n \in 1 .. 5 : l = <<n, "">> /\ DeliveryStart("normal", l) = n - 1
    <3>1. PICK n \in 1 .. 5 : l = <<n, "">>
      BY LabelPairs
    <3> QED BY <3>1, HourOf
  <2>2. \A n \in 1 .. 5 : <<n, "">> \in IdaLabels("normal")
    BY LabelPairs
  <2>3. 0 .. 4 = 0 .. Length("normal") - 1
    BY DEF Length
  <2>4. ASSUME NEW l \in IdaLabels("normal") PROVE DeliveryStart("normal", l) \in 0 .. 4
    <3>1. PICK n \in 1 .. 5 : DeliveryStart("normal", l) = n - 1
      BY <2>1
    <3>2. (n - 1) \in 0 .. 4
      OBVIOUS
    <3> QED BY <3>1, <3>2
  <2>5. ASSUME NEW h \in 0 .. 4 PROVE \E l \in IdaLabels("normal") : DeliveryStart("normal", l) = h
    <3> DEFINE n == h + 1
    <3>1. n \in 1 .. 5 /\ (n - 1) = h
      OBVIOUS
    <3> HIDE DEF n
    <3>2. DeliveryStart("normal", <<n, "">>) = h
      BY <3>1, HourOf
    <3> QED BY <2>2, <3>1, <3>2
  <2>6. ASSUME NEW k \in IdaLabels("normal"), NEW l \in IdaLabels("normal"),
               DeliveryStart("normal", k) = DeliveryStart("normal", l)
        PROVE  k = l
    <3>1. PICK m \in 1 .. 5 : k = <<m, "">> /\ DeliveryStart("normal", k) = m - 1
      BY <2>1
    <3>2. PICK n \in 1 .. 5 : l = <<n, "">> /\ DeliveryStart("normal", l) = n - 1
      BY <2>1
    <3>3. (m - 1) = (n - 1) => m = n
      OBVIOUS
    <3> QED BY <2>6, <3>1, <3>2, <3>3
  <2> QED BY <1>1, <2>3, <2>4, <2>5, <2>6
<1>3. All("forward")
  <2>1. ASSUME NEW l \in IdaLabels("forward")
        PROVE  \E n \in (1 .. 5) \ {3} : l = <<n, "">> /\ DeliveryStart("forward", l) = IF n < 3 THEN n - 1 ELSE n - 2
    <3>1. PICK n \in (1 .. 5) \ {3} : l = <<n, "">>
      BY LabelPairs
    <3> QED BY <3>1, HourOf
  <2>2. \A n \in (1 .. 5) \ {3} : <<n, "">> \in IdaLabels("forward")
    BY LabelPairs
  <2>3. 0 .. 3 = 0 .. Length("forward") - 1
    BY DEF Length
  <2>4. ASSUME NEW l \in IdaLabels("forward") PROVE DeliveryStart("forward", l) \in 0 .. 3
    <3>1. PICK n \in (1 .. 5) \ {3} : DeliveryStart("forward", l) = IF n < 3 THEN n - 1 ELSE n - 2
      BY <2>1
    <3>2. (IF n < 3 THEN n - 1 ELSE n - 2) \in 0 .. 3
      OBVIOUS
    <3> QED BY <3>1, <3>2
  <2>5. ASSUME NEW h \in 0 .. 3 PROVE \E l \in IdaLabels("forward") : DeliveryStart("forward", l) = h
    <3> DEFINE n == IF h < 2 THEN h + 1 ELSE h + 2
    <3>1. n \in (1 .. 5) \ {3} /\ (IF n < 3 THEN n - 1 ELSE n - 2) = h
      OBVIOUS
    <3> HIDE DEF n
    <3>2. DeliveryStart("forward", <<n, "">>) = h
      BY <3>1, HourOf
    <3> QED BY <2>2, <3>1, <3>2
  <2>6. ASSUME NEW k \in IdaLabels("forward"), NEW l \in IdaLabels("forward"),
               DeliveryStart("forward", k) = DeliveryStart("forward", l)
        PROVE  k = l
    <3>1. PICK m \in (1 .. 5) \ {3} : k = <<m, "">> /\ DeliveryStart("forward", k) = IF m < 3 THEN m - 1 ELSE m - 2
      BY <2>1
    <3>2. PICK n \in (1 .. 5) \ {3} : l = <<n, "">> /\ DeliveryStart("forward", l) = IF n < 3 THEN n - 1 ELSE n - 2
      BY <2>1
    <3>3. (IF m < 3 THEN m - 1 ELSE m - 2) = (IF n < 3 THEN n - 1 ELSE n - 2) => m = n
      OBVIOUS
    <3> QED BY <2>6, <3>1, <3>2, <3>3
  <2> QED BY <1>1, <2>3, <2>4, <2>5, <2>6
<1>4. All("back")
  <2> DEFINE S == IdaLabels("back")
             D(l) == DeliveryStart("back", l)
  <2>1. ASSUME NEW l \in S
        PROVE  \/ \E n \in (1 .. 5) \ {3} : l = <<n, "">> /\ D(l) = IF n < 3 THEN n - 1 ELSE n
               \/ l = <<3, "A">> /\ D(l) = 2
               \/ l = <<3, "B">> /\ D(l) = 3
    <3>1. CASE \E n \in (1 .. 5) \ {3} : l = <<n, "">>
      <4>1. PICK n \in (1 .. 5) \ {3} : l = <<n, "">>
        BY <3>1
      <4> QED BY <4>1, HourOf
    <3>2. CASE l = <<3, "A">> \/ l = <<3, "B">>
      BY <3>2, HourOf
    <3> QED BY <3>1, <3>2, LabelPairs
  <2>2. /\ \A n \in (1 .. 5) \ {3} : <<n, "">> \in S
        /\ <<3, "A">> \in S /\ <<3, "B">> \in S
    BY LabelPairs
  <2>3. 0 .. 5 = 0 .. Length("back") - 1
    BY DEF Length
  <2>4. ASSUME NEW l \in S PROVE D(l) \in 0 .. 5
    <3>1. \A n \in (1 .. 5) \ {3} : (IF n < 3 THEN n - 1 ELSE n) \in 0 .. 5
      OBVIOUS
    <3>2. CASE \E n \in (1 .. 5) \ {3} : D(l) = IF n < 3 THEN n - 1 ELSE n
      BY <3>1, <3>2
    <3>3. CASE D(l) = 2 \/ D(l) = 3
      BY <3>3
    <3> QED BY <2>1, <3>2, <3>3
  <2>5. ASSUME NEW h \in 0 .. 5 PROVE \E l \in S : D(l) = h
    <3>1. CASE h = 2 \/ h = 3
      BY <2>2, <3>1, HourOf
    <3>2. CASE h # 2 /\ h # 3
      <4> DEFINE n == IF h < 2 THEN h + 1 ELSE h
      <4>1. n \in (1 .. 5) \ {3} /\ (IF n < 3 THEN n - 1 ELSE n) = h
        BY <3>2
      <4> HIDE DEF n
      <4>2. D(<<n, "">>) = h
        BY <4>1, HourOf
      <4> QED BY <2>2, <4>1, <4>2
    <3> QED BY <3>1, <3>2
  <2>6. ASSUME NEW k \in S, NEW l \in S, D(k) = D(l) PROVE k = l
    <3> HIDE DEF D
    <3>1. \A n \in (1 .. 5) \ {3} : (IF n < 3 THEN n - 1 ELSE n) \in {0, 1, 4, 5}
      OBVIOUS
    <3>2. CASE D(l) = 2 \/ D(l) = 3
      <4>1. ~ \E n \in (1 .. 5) \ {3} : D(k) = IF n < 3 THEN n - 1 ELSE n
        BY <3>1, <3>2, <2>6
      <4>2. ~ \E n \in (1 .. 5) \ {3} : D(l) = IF n < 3 THEN n - 1 ELSE n
        BY <3>1, <3>2
      <4>3. \/ l = <<3, "A">> /\ D(l) = 2
            \/ l = <<3, "B">> /\ D(l) = 3
        BY <2>1, <4>2
      <4>4. \/ k = <<3, "A">> /\ D(k) = 2
            \/ k = <<3, "B">> /\ D(k) = 3
        BY <2>1, <4>1
      <4> QED BY <2>6, <4>3, <4>4
    <3>3. CASE D(l) # 2 /\ D(l) # 3
      <4>1. PICK m \in (1 .. 5) \ {3} : k = <<m, "">> /\ D(k) = IF m < 3 THEN m - 1 ELSE m
        BY <2>1, <2>6, <3>3
      <4>2. PICK n \in (1 .. 5) \ {3} : l = <<n, "">> /\ D(l) = IF n < 3 THEN n - 1 ELSE n
        BY <2>1, <3>3
      <4>3. (IF m < 3 THEN m - 1 ELSE m) = (IF n < 3 THEN n - 1 ELSE n) => m = n
        OBVIOUS
      <4> QED BY <2>6, <4>1, <4>2, <4>3
    <3> QED BY <3>2, <3>3
  <2> QED BY <1>1, <2>3, <2>4, <2>5, <2>6
<1>5. LabelsNameHours
  <2>1. \A day \in LocalDays : All(day)
    BY <1>2, <1>3, <1>4 DEF LocalDays
  <2> QED BY <2>1 DEF LabelsNameHours, All
<1> QED BY <1>5, PTL

-----------------------------------------------------------------------------
(* What is within reach.  A failure takes a day from what the runs of a    *)
(* sliding window are bound to fetch, so a cell that is missing is due in  *)
(* the next run, despite the failures that are left, or in the hand of     *)
(* this one: still to be asked for, answered, or to be written.            *)
Sliding == {"epex", "epex_ida", "entsoe_api", "netz", "gie", "tradinghub", "open_meteo", "weather",
            "energy_forecast", "copernicus"}

(* The days before the next run that its window holds at the least.        *)
Slack == CASE crawler \in {"epex", "epex_ida"}               -> LookBack + 1
           [] crawler \in {"copernicus", "energy_forecast"} -> 0
           [] OTHER                                          -> LookBack

Due(c)    == c[2] >= NextRun + FailuresLeft - Slack
InTime(c) == c[2] >= now + FailuresLeft - Slack

RowFor(rows, c) == \E r \in rows : Cell(r) = c /\ r.rev = source[c[1]][c[2]]
Holds(todo, c)  == \E i \in 1 .. Len(todo) : todo[i].report = "none" /\ RowFor(todo[i].rows, c)

Unasked(s) == run.step # "idle" /\ (run.series < s \/ (run.step = "asking" /\ run.series = s))

InHand(c) ==
  \/ Unasked(c[1]) /\ ~run.ending /\ c[2] \in run.windows[c[1]]
  \/ run.step = "asking" /\ RowFor(run.got, c)
  \/ run.step = "writing" /\ Holds(run.todo, c)

SlideFine == \A c \in Series \X Days : Missing(c) => Due(c) \/ (InTime(c) /\ InHand(c))

(* The others read on from the newest row: a row passes the days that are  *)
(* no longer read when it is stored.  While a cell is missing, no stored   *)
(* row passes it, and none is written before its own.                      *)
Following == {"smard", "entsog"}

Passes(u, t) == IF crawler = "smard" THEN u >= t \/ (LastOfWeek(t) /\ u = t - 1) ELSE u > t + 1

Passed(rows, c) == \E r \in rows : r.series = c[1] /\ Passes(r.time, c[2])
Coming(todo, c) == \E i \in 1 .. Len(todo) : \E r \in todo[i].rows : Cell(r) = c

(* The transactions of one series, the oldest day first; a deletion is     *)
(* followed by the rows of its cell.                                       *)
InOrder(todo, s) ==
  /\ \A i \in 1 .. Len(todo) :
       /\ \A r \in todo[i].rows : r.series = s
       /\ todo[i].optional => todo[i].rows = {}
       /\ \A c \in todo[i].clear : /\ c[1] = s /\ i < Len(todo) /\ todo[i].rows = {} /\ crawler = "entsog"
                                   /\ \E r \in todo[i + 1].rows : Cell(r) = c
  /\ \A i, j \in 1 .. Len(todo) : i < j => \A q \in todo[i].rows, r \in todo[j].rows : q.time < r.time

FollowFine ==
  /\ \A s \in Series : Unasked(s) => run.windows[s] = Window(s)
  /\ InOrder(run.todo, run.series)
  /\ crawler = "entsog" => \A i \in 1 .. Len(run.todo) : \A r \in run.todo[i].rows : ~Passed(table, Cell(r))
  /\ \A c \in Published \ beyond :
       /\ ~Current(c) => ~Passed(table, c)
       /\ ~Current(c) \/ Coming(run.todo, c) =>
            \A i \in 1 .. Len(run.todo) : Passed(run.todo[i].rows, c) =>
               \E j \in 1 .. i : RowFor(run.todo[j].rows, c)

(* When runs run, what is published and how many failures there were.      *)
Timely ==
  /\ run.step # "idle" => ran
  /\ \A s \in Series, t \in Days : t > now => source[s][t] = 0
  /\ ~ran => \A r \in table : r.time < now
  /\ failures \in 0 .. MaxFailures

Listed == \A c \in Published \ beyond : c[1] \in RegelFiles

ReachInv ==
  /\ Timely
  /\ crawler = "regelleistung" => Listed
  /\ crawler \in Sliding => SlideFine
  /\ crawler \in Following => FollowFine

-----------------------------------------------------------------------------
(* The numbers that tell how far a window reaches.                         *)
LEMMA Numbers ==
  ASSUME Facts, Timely
  PROVE  /\ now \in Int /\ LookBack \in Nat /\ Slack \in Nat /\ FailuresLeft \in Nat
         /\ NextRun = (IF ran THEN now + 1 ELSE now) /\ NextRun \in Int /\ NextRun >= now
         /\ \A t \in Days : t \in Int /\ t >= 1
<1>1. now \in Int /\ \A t \in Days : t \in Int /\ t >= 1
  BY DaysAre DEF Facts
<1>2. LookBack \in Nat /\ MaxFailures \in Nat
  BY TablesAssumption
<1>3. Slack \in Nat
  BY <1>2 DEF Slack
<1>4. FailuresLeft \in Nat
  BY <1>2 DEF FailuresLeft, Timely
<1>5. NextRun = (IF ran THEN now + 1 ELSE now)
  BY DEF NextRun
<1> QED BY <1>1, <1>2, <1>3, <1>4, <1>5

(* A published cell is of a day that has come.                             *)
LEMMA PublishedIs ==
  ASSUME Facts, Timely, NEW c \in Published
  PROVE  /\ c \in Series \X Days /\ c[1] \in Series /\ c[2] \in Days /\ c = <<c[1], c[2]>>
         /\ c[2] <= now /\ source[c[1]][c[2]] \in {1, 2}
<1>1. c \in Series \X Days /\ source[c[1]][c[2]] > 0
  BY DEF Published
<1>2. c[1] \in Series /\ c[2] \in Days /\ c = <<c[1], c[2]>>
  BY <1>1
<1>3. source[c[1]][c[2]] \in 0 .. 2
  BY <1>2 DEF Facts
<1>4. c[2] \in Int /\ now \in Int
  BY <1>2, Numbers
<1> QED BY <1>1, <1>2, <1>3, <1>4 DEF Timely

(* Runs run on the day they began, and days are published when they have   *)
(* come.                                                                   *)
LEMMA TimelyStays ==
  ASSUME DailyInv, DailyInv', Timely, Next
  PROVE  Timely'
<1> USE DEF DailyInv
<1>1. /\ crawler' = crawler /\ Series' = Series /\ Days' = Days /\ now \in Int /\ FailuresLeft \in Nat
      /\ \A t \in Days : t \in Int
  <2>1. crawler' = crawler
    BY DEF Next, Run, Begin, Ask, AskFails, Commit, CommitFails, Die, NextDay, Publish
  <2> QED BY <2>1, SameSets, Numbers
<1>2. run'.step # "idle" => ran'
  <2>1. CASE Begin
    BY <2>1 DEF Begin
  <2>2. CASE Run
    BY <2>2 DEF Run, Ask, AskFails, Commit, CommitFails, Die, Timely
  <2>3. CASE \E late \in SUBSET Series : NextDay(late)
    BY <2>3 DEF NextDay
  <2>4. CASE \E s \in Series, t \in Days : Publish(s, t)
    BY <2>4 DEF Publish, Timely
  <2> QED BY <2>1, <2>2, <2>3, <2>4 DEF Next
<1>3. ASSUME NEW s \in Series, NEW t \in Days, t > now' PROVE source'[s][t] = 0
  <2>1. CASE Begin \/ Run
    BY <1>3, <2>1 DEF Begin, Run, Ask, AskFails, Commit, CommitFails, Die, Timely
  <2>2. CASE \E late \in SUBSET Series : NextDay(late)
    <3>1. PICK late : /\ now' = now + 1
                      /\ source' = [u \in Series |-> [source[u] EXCEPT ![now + 1] = IF u \in late THEN 0 ELSE 1]]
      BY <2>2 DEF NextDay
    <3>2. t > now /\ t # now + 1
      BY <1>1, <1>3, <3>1
    <3>3. source'[s][t] = source[s][t]
      BY <3>1, <3>2 DEF Facts
    <3> QED BY <3>2, <3>3 DEF Timely
  <2>3. CASE \E u \in Series, d \in Days : Publish(u, d)
    <3>1. PICK u \in Series, d \in Days : d <= now /\ now' = now /\ source' = [source EXCEPT ![u][d] = @ + 1]
      BY <2>3 DEF Publish
    <3>2. t # d /\ t > now
      BY <1>1, <1>3, <3>1
    <3>3. source'[s][t] = source[s][t]
      BY <3>1, <3>2 DEF Facts
    <3> QED BY <3>2, <3>3 DEF Timely
  <2> QED BY <2>1, <2>2, <2>3 DEF Next
<1>4. ASSUME ~ran', NEW r \in table' PROVE r.time < now'
  <2>1. CASE Begin
    BY <1>4, <2>1 DEF Begin
  <2>2. CASE Run
    BY <1>4, <2>2 DEF Run, Ask, AskFails, Commit, CommitFails, Die, Timely
  <2>3. CASE \E late \in SUBSET Series : NextDay(late)
    <3>1. now' = now + 1 /\ table' = table
      BY <2>3 DEF NextDay
    <3>2. r.time <= now /\ r.time \in Int
      BY <1>1, <3>1 DEF TableFine
    <3> QED BY <1>1, <3>1, <3>2
  <2>4. CASE \E s \in Series, t \in Days : Publish(s, t)
    BY <1>4, <2>4 DEF Publish, Timely
  <2> QED BY <2>1, <2>2, <2>3, <2>4 DEF Next
<1>5. failures' \in 0 .. MaxFailures
  <2>1. failures' = failures \/ Fails
    BY DEF Next, Run, Begin, Ask, AskFails, Commit, CommitFails, Die, NextDay, Publish
  <2>2. failures \in 0 .. MaxFailures /\ MaxFailures \in Nat
    BY TablesAssumption DEF Timely
  <2> QED BY <2>1, <2>2 DEF Fails
<1> QED BY <1>1, <1>2, <1>3, <1>4, <1>5 DEF Timely

(* A transaction is never rejected: it replaces, empties what it inserts   *)
(* or inserts without a key.                                               *)
LEMMA NeverRejected ==
  ASSUME Facts, RunFine, run.step = "writing"
  PROVE  ~Rejected(Head(run.todo))
<1>1. PICK w : w = Head(run.todo)
  OBVIOUS
<1>2. TodoFine(run.todo) /\ w = run.todo[1] /\ 1 \in 1 .. Len(run.todo)
  BY <1>1, WritingIs
<1>3. CASE w.report # "none"
  BY <1>1, <1>2, <1>3 DEF TodoFine, Rejected
<1>4. CASE w.report = "none"
  <2>1. Sound(w)
    BY <1>2, <1>4 DEF TodoFine
  <2>2. CASE w.update
    BY <1>1, <2>2 DEF Rejected
  <2>3. CASE w.key = {}
    BY <1>1, <2>3 DEF Rejected, Taken, SameKey
  <2>4. CASE Covers(w)
    <3>1. ASSUME NEW r \in w.rows, NEW q \in Taken(w, r) PROVE FALSE
      <4>1. q \in Kept(w)
        BY DEF Taken
      <4>2. Cell(q) = Cell(r)
        BY <2>1, <4>1, TakenIs
      <4> QED BY <2>4, <4>1, <4>2 DEF Kept, Covers
    <3> QED BY <1>1, <3>1 DEF Rejected
  <2> QED BY <2>1, <2>2, <2>3, <2>4 DEF Sound, Upserts
<1> QED BY <1>3, <1>4

(* The steps of a run that do not go well count.                           *)
LEMMA FailureCounts ==
  ASSUME DailyInv, AskFails \/ CommitFails \/ Die
  PROVE  /\ failures' = failures + 1 /\ run.step # "idle"
         /\ UNCHANGED <<crawler, now, source, table, ran, beyond>>
<1>1. CASE AskFails
  BY <1>1 DEF AskFails, Fails
<1>2. CASE CommitFails
  BY <1>2, NeverRejected DEF CommitFails, Fails, DailyInv
<1>3. CASE Die
  BY <1>3 DEF Die, Fails
<1> QED BY <1>1, <1>2, <1>3

(* What is missing is missing still when none of it changes.               *)
LEMMA SameMissing ==
  ASSUME UNCHANGED <<crawler, now, source, table, beyond>>, NEW c
  PROVE  Missing(c)' <=> Missing(c)
<1>1. Published' = Published
  BY SameSets DEF Published
<1>2. Current(c)' = Current(c)
  BY DEF Current, RowsOf, Cell
<1>3. Wanted(c)' = Wanted(c)
  BY SameWanted
<1> QED BY <1>1, <1>2, <1>3 DEF Missing

(* The last of some days.                                                  *)
LEMMA MaxOfDays ==
  ASSUME NEW S \in SUBSET Days, S # {}
  PROVE  MaxOf(S) \in S /\ \A d \in S : d <= MaxOf(S)
<1>1. \E x \in S : \A y \in S : y <= x
  <2>1. \A x \in S : x \in {1, 2, 3, 4}
    BY DaysAre
  <2>2. CASE 4 \in S
    BY <2>1, <2>2
  <2>3. CASE 4 \notin S /\ 3 \in S
    BY <2>1, <2>3
  <2>4. CASE 4 \notin S /\ 3 \notin S /\ 2 \in S
    BY <2>1, <2>4
  <2>5. CASE 4 \notin S /\ 3 \notin S /\ 2 \notin S
    BY <2>1, <2>5
  <2> QED BY <2>2, <2>3, <2>4, <2>5
<1> QED BY <1>1, Zenon DEF MaxOf

-----------------------------------------------------------------------------
(* Sliding windows: what is promised is what is due.                       *)
LEMMA PromisedIsDue ==
  ASSUME Facts, Timely, crawler \in Sliding, NEW s \in Series, NEW t \in Days
  PROVE  Promised(s, t) <=> Due(<<s, t>>)
<1>1. NextRun \in Int /\ FailuresLeft \in Int /\ LookBack \in Int /\ t \in Int
  BY Numbers
<1>2. <<s, t>>[2] = t
  OBVIOUS
<1>3. CASE crawler \in {"epex", "epex_ida"}
  <2>1. Slack = LookBack + 1
    BY <1>3 DEF Slack
  <2>2. CASE crawler = "epex"
    <3>1. Promised(s, t) <=> EpexPromised(t)
      BY <2>2, Zenon DEF Promised, Snapshots
    <3> QED BY <1>1, <1>2, <2>1, <3>1 DEF Due, EpexPromised, EpexInterval
  <2>3. CASE crawler = "epex_ida"
    <3>1. Promised(s, t) <=> EpexPromised(t)
      BY <2>3, Zenon DEF Promised, Snapshots
    <3> QED BY <1>1, <1>2, <2>1, <3>1 DEF Due, EpexPromised, EpexInterval
  <2> QED BY <1>3, <2>2, <2>3
<1>4. CASE crawler \in {"copernicus", "energy_forecast"}
  <2>1. Slack = 0
    BY <1>4 DEF Slack
  <2>2. Promised(s, t) <=> TodayDespiteFailures(t)
    BY <1>4, Zenon DEF Promised, Snapshots
  <2> QED BY <1>1, <1>2, <2>1, <2>2 DEF Due, TodayDespiteFailures
<1>5. CASE crawler \in {"entsoe_api", "netz", "gie", "tradinghub", "open_meteo", "weather"}
  BY <1>1, <1>2, <1>5 DEF Promised, InWindowDespiteFailures, Due, Slack, Snapshots
<1> QED BY <1>3, <1>4, <1>5 DEF Sliding

(* The newest row of a table of EPEX, if there is one.                     *)
LEMMA EpexLatestIs ==
  ASSUME Facts, TableFine, NEW s \in Series
  PROVE  EpexLatest(s) = 0 \/ \E r \in table : r.time = EpexLatest(s)
<1> DEFINE T == Stored(EpexTable(s))
<1>1. CASE T = {}
  BY <1>1 DEF EpexLatest
<1>2. CASE T # {}
  <2>1. \A t \in T : t \in Days /\ \E r \in table : r.time = t
    BY DEF Stored, TableFine
  <2>2. T \in SUBSET Days
    BY <2>1
  <2>3. MaxOf(T) \in T
    BY <1>2, <2>2, MaxOfDays
  <2>4. EpexLatest(s) = MaxOf(T)
    BY <1>2 DEF EpexLatest
  <2> QED BY <2>1, <2>3, <2>4
<1> QED BY <1>1, <1>2

(* A window holds what is due.                                             *)
LEMMA WindowHoldsDue ==
  ASSUME Facts, TableFine, Timely, crawler \in Sliding, NEW c \in Published, Due(c)
  PROVE  c[2] \in Window(c[1])
<1>1. PICK s, t : s = c[1] /\ t = c[2] /\ s \in Series /\ t \in Days /\ t <= now
  BY PublishedIs
<1>2. /\ now \in Int /\ LookBack \in Nat /\ t \in Int /\ t >= 1
      /\ t >= NextRun - Slack /\ t >= now - Slack /\ Slack \in Nat /\ NextRun \in Int
  <2>1. /\ now \in Int /\ LookBack \in Nat /\ t \in Int /\ t >= 1 /\ Slack \in Nat
        /\ NextRun \in Int /\ FailuresLeft \in Nat /\ NextRun >= now
    BY <1>1, Numbers
  <2>2. t >= NextRun + FailuresLeft - Slack
    BY <1>1 DEF Due
  <2> QED BY <2>1, <2>2
<1>3. CASE crawler \in {"epex", "epex_ida"}
  <2>1. Slack = LookBack + 1
    BY <1>3 DEF Slack
  <2>2. EpexLatest(s) = 0 \/ (EpexLatest(s) \in Days /\ EpexLatest(s) <= NextRun - 1)
    <3>1. CASE EpexLatest(s) # 0
      <4>1. PICK r \in table : r.time = EpexLatest(s)
        BY <1>1, <3>1, EpexLatestIs
      <4>2. r.time \in Days /\ r.time <= now /\ (~ran => r.time < now) /\ r.time \in Int
        BY Numbers DEF TableFine, Timely
      <4>3. NextRun = (IF ran THEN now + 1 ELSE now)
        BY Numbers
      <4> QED BY <1>2, <4>1, <4>2, <4>3
    <3> QED BY <3>1
  <2>3. EpexStart(s) \in Int /\ EpexStart(s) <= t
    <3>1. CASE EpexLatest(s) = 0
      BY <1>2, <3>1 DEF EpexStart, EpexConfiguredStart
    <3>2. CASE EpexLatest(s) # 0
      <4>1. EpexLatest(s) \in Int /\ EpexLatest(s) - LookBack <= t
        BY <1>2, <2>1, <2>2, <3>2, Numbers
      <4>2. EpexStart(s) = AtLeast(1, EpexLatest(s) - LookBack)
        BY <3>2 DEF EpexStart, EpexConfiguredStart, EpexInterval
      <4> QED BY <1>2, <4>1, <4>2 DEF AtLeast
    <3> QED BY <3>1, <3>2
  <2>4. t \in EpexWindow(s)
    BY <1>1, <1>2, <2>3 DEF EpexWindow, EpexFiles, EpexPeriodEnd
  <2> QED BY <1>1, <1>3, <2>4 DEF Window
<1>4. CASE crawler = "copernicus"
  <2>1. t = now
    BY <1>1, <1>2, <1>4 DEF Slack
  <2> QED BY <1>1, <1>4, <2>1 DEF Window, CopernicusMonth
<1>5. CASE crawler = "energy_forecast"
  <2>1. t >= now - LookBack
    BY <1>2, <1>5 DEF Slack
  <2> QED BY <1>1, <1>5, <2>1 DEF Window, ForecastHours, Snapshots
<1>6. CASE crawler \in {"entsoe_api", "netz", "gie", "tradinghub", "open_meteo", "weather"}
  <2>1. t >= now - LookBack
    BY <1>2, <1>6 DEF Slack
  <2>2. t \in EntsoeQueryWindow /\ t \in DateWindow /\ t \in ForecastHours
    BY <1>1, <1>2, <2>1 DEF EntsoeQueryWindow, DateWindow, ForecastHours
  <2> QED BY <1>1, <1>6, <2>2 DEF Window, Snapshots
<1> QED BY <1>3, <1>4, <1>5, <1>6 DEF Sliding

-----------------------------------------------------------------------------
(* A run writes what has been answered.                                    *)
LEMMA HoldsOne ==
  ASSUME NEW w, w.report = "none", NEW c, RowFor(w.rows, c)
  PROVE  Holds(<<w>>, c) /\ \A v : Holds(<<w, v>>, c)
<1>1. Holds(<<w>>, c)
  <2>1. PICK todo : todo = <<w>>
    OBVIOUS
  <2>2. 1 \in 1 .. Len(todo) /\ todo[1] = w
    BY <2>1
  <2> QED BY <2>1, <2>2 DEF Holds
<1>2. ASSUME NEW v PROVE Holds(<<w, v>>, c)
  <2>1. PICK todo : todo = <<w, v>>
    OBVIOUS
  <2>2. 1 \in 1 .. Len(todo) /\ todo[1] = w
    BY <2>1
  <2> QED BY <2>1, <2>2 DEF Holds
<1> QED BY <1>1, <1>2

(* Of two lists it is enough that one has a row for the cell.              *)
LEMMA HoldsBoth ==
  ASSUME NEW S, NEW a \in Seq(S), NEW b \in Seq(S), NEW c, Holds(a, c) \/ Holds(b, c)
  PROVE  Holds(a \o b, c)
<1>1. PICK long : long = a \o b
  OBVIOUS
<1>2. /\ long \in Seq(S) /\ Len(long) = Len(a) + Len(b) /\ Len(a) \in Nat /\ Len(b) \in Nat
      /\ \A i \in 1 .. Len(a) : long[i] = a[i]
      /\ \A i \in 1 .. Len(b) : long[Len(a) + i] = b[i]
  BY <1>1, ConcatProperties
<1>3. CASE Holds(a, c)
  <2>1. PICK i \in 1 .. Len(a) : a[i].report = "none" /\ RowFor(a[i].rows, c)
    BY <1>3 DEF Holds
  <2>2. i \in 1 .. Len(long) /\ long[i] = a[i]
    BY <1>2
  <2> QED BY <1>1, <2>1, <2>2 DEF Holds
<1>4. CASE Holds(b, c)
  <2>1. PICK i \in 1 .. Len(b) : b[i].report = "none" /\ RowFor(b[i].rows, c)
    BY <1>4 DEF Holds
  <2>2. PICK m, n, j : m = Len(a) /\ n = Len(b) /\ j = m + i
    OBVIOUS
  <2>3. m \in Nat /\ n \in Nat /\ i \in 1 .. n /\ Len(long) = m + n
    BY <1>2, <2>2
  <2>4. j \in 1 .. Len(long)
    BY <2>2, <2>3
  <2>5. long[j] = b[i]
    BY <1>2, <2>2
  <2> QED BY <1>1, <2>1, <2>4, <2>5 DEF Holds
<1> QED BY <1>3, <1>4

(* Rows with values, and those of a day, are still there.                  *)
LEMMA RowForSome ==
  ASSUME NEW rows, NEW c \in Published, RowFor(rows, c)
  PROVE  /\ RowFor(Valued(rows), c) /\ rows # {} /\ Valued(rows) # {}
         /\ RowFor({r \in rows : r.time = c[2]}, c)
<1>1. PICK r \in rows : Cell(r) = c /\ r.rev = source[c[1]][c[2]]
  BY DEF RowFor
<1>2. r.rev > 0 /\ r.time = c[2]
  BY <1>1 DEF Published, Cell
<1> QED BY <1>1, <1>2 DEF RowFor, Valued

(* The files of EPEX.                                                      *)
LEMMA EpexHolds ==
  ASSUME Facts, NEW rows \in SUBSET Row, NEW c \in Published, RowFor(rows, c), crawler \in {"epex", "epex_ida"}
  PROVE  Holds(EpexWrites(rows), c)
<1>1. PICK d, X : d = c[2] /\ X = EpexParsed({r \in rows : r.time = c[2]})
  OBVIOUS
<1>2. RowFor(X, c) /\ X # {}
  <2>1. PICK Y : Y = {r \in rows : r.time = c[2]}
    OBVIOUS
  <2>2. RowFor(Y, c)
    BY <2>1, RowForSome
  <2>3. RowFor(Valued(Y), c)
    BY <2>2, RowForSome
  <2> QED BY <1>1, <2>1, <2>2, <2>3 DEF EpexParsed, EpexAuction, RowFor
<1>3. EpexFile(rows, d) = <<Upsert(EpexKey, X)>>
  BY <1>1, <1>2 DEF EpexFile, EpexUpsert, Unless
<1>4. Holds(EpexFile(rows, d), c)
  <2>1. Upsert(EpexKey, X).report = "none" /\ Upsert(EpexKey, X).rows = X
    BY DEF Upsert, Write
  <2> QED BY <1>2, <1>3, <2>1, HoldsOne
<1>5. \A e : EpexFile(rows, e) \in Seq(WriteSet)
  <2> SUFFICES ASSUME NEW e PROVE EpexFile(rows, e) \in Seq(WriteSet)
    OBVIOUS
  <2>1. PICK Y : Y = EpexParsed({r \in rows : r.time = e})
    OBVIOUS
  <2>2. Y \in SUBSET Row
    BY <2>1 DEF EpexParsed, EpexAuction, Valued
  <2>3. Upsert(EpexKey, Y) \in WriteSet
    BY <2>2 DEF Upsert, Write, WriteSet, EpexKey
  <2> QED BY <2>1, <2>3 DEF EpexFile, EpexUpsert, Unless, Nothing
<1>6. d \in {1, 2, 3}
  <2>1. d \in Days
    BY <1>1 DEF Published
  <2> QED BY <2>1 DEF Days, Horizon
<1>7. PICK a, b, e : a = EpexFile(rows, 1) /\ b = EpexFile(rows, 2) /\ e = EpexFile(rows, 3)
  OBVIOUS
<1>8. a \in Seq(WriteSet) /\ b \in Seq(WriteSet) /\ e \in Seq(WriteSet)
  BY <1>5, <1>7
<1>9. Holds(a, c) \/ Holds(b, c) \/ Holds(e, c)
  BY <1>4, <1>6, <1>7
<1>10. Nothing \o a = a
  BY <1>8 DEF Nothing
<1>11. a \o b \in Seq(WriteSet)
  BY <1>8
<1>12. Holds((a \o b) \o e, c)
  BY <1>8, <1>9, <1>11, HoldsBoth
<1>13. EpexWrites(rows) = ((Nothing \o EpexFile(rows, 1)) \o EpexFile(rows, 2)) \o EpexFile(rows, 3)
  BY EpexUnfolds
<1>14. EpexWrites(rows) = (a \o b) \o e
  BY <1>7, <1>10, <1>13
<1> QED BY <1>12, <1>14

(* Every crawler with a sliding window, of the cells it asks for.          *)
LEMMA WritesHold ==
  ASSUME Facts, crawler \in Sliding, NEW s, NEW rows \in SUBSET Row, NEW c \in Published, RowFor(rows, c),
         crawler = "energy_forecast" => c[2] >= now
  PROVE  Holds(Writes(s, rows), c)
<1>1. RowFor(Valued(rows), c) /\ rows # {} /\ Valued(rows) # {}
  BY RowForSome
<1>2. ASSUME NEW clear, NEW key, NEW update, NEW X, RowFor(X, c)
      PROVE  Holds(<<Write(clear, key, update, X)>>, c) /\ \A v : Holds(<<Write(clear, key, update, X), v>>, c)
  <2>1. Write(clear, key, update, X).report = "none" /\ Write(clear, key, update, X).rows = X
    BY DEF Write
  <2> QED BY <1>2, <2>1, HoldsOne
<1>3. CASE crawler \in {"epex", "epex_ida"}
  BY <1>3, EpexHolds DEF Writes
<1>4. CASE crawler = "entsoe_api"
  BY <1>1, <1>2, <1>4 DEF Writes, EntsoeWrites, EntsoeFrame, EntsoeUpsert, Unless, Upsert
<1>5. CASE crawler = "netz"
  BY <1>1, <1>2, <1>5 DEF Writes, NetzWrites, NetzReplace, NetzNormalized, Replace
<1>6. CASE crawler = "gie"
  BY <1>1, <1>2, <1>6 DEF Writes, GieWrites, GieReplace, Unless, Replace
<1>7. CASE crawler = "tradinghub"
  BY <1>1, <1>2, <1>7 DEF Writes, TradingHubWrites, TradingHubReplace, TradingHubValues, Replace
<1>8. CASE crawler = "open_meteo"
  BY <1>1, <1>2, <1>8 DEF Writes, OpenMeteoWrites, Unless, Replace
<1>9. CASE crawler = "weather"
  <2>1. PICK r \in rows : Cell(r) = c /\ r.rev = source[c[1]][c[2]]
    BY DEF RowFor
  <2>2. PICK x : x = [r EXCEPT !.at = now]
    OBVIOUS
  <2>3. Cell(x) = c /\ x.rev = source[c[1]][c[2]] /\ x \in WeatherRows(rows)
    BY <2>1, <2>2 DEF Row, Cell, WeatherRows
  <2>4. RowFor(WeatherRows(rows), c) /\ WeatherRows(rows) # {}
    BY <2>3 DEF RowFor
  <2> QED BY <1>2, <1>9, <2>4 DEF Writes, WeatherWrites, WeatherUpsert, Unless, Upsert
<1>10. CASE crawler = "energy_forecast"
  <2>1. PICK X : X = {r \in rows : r.time >= now}
    OBVIOUS
  <2>2. RowFor(X, c)
    BY <1>10, <2>1 DEF RowFor, Cell
  <2>3. RowFor(EnergyForecastRow(rows), c) /\ EnergyForecastRow(rows) # {}
    BY <2>1, <2>2, RowForSome DEF EnergyForecastRow
  <2> QED BY <1>2, <1>10, <2>3 DEF Writes, EnergyForecastWrites, EnergyForecastUpsert, Unless, Upsert
<1>11. CASE crawler = "copernicus"
  <2>1. PICK a, b : /\ a = Replace({s} \X CopernicusMonth, CopernicusKey, CopernicusStatistics(rows))
                    /\ b = Report("completed", CopernicusStatistics(rows))
    OBVIOUS
  <2>2. CopernicusWrites(s, rows) = <<a>> \o <<b>>
    BY <2>1 DEF CopernicusWrites, CopernicusStatus
  <2>3. Holds(<<a, b>>, c)
    BY <1>1, <1>2, <2>1 DEF Replace, CopernicusStatistics
  <2> QED BY <1>11, <2>2, <2>3, PairIs DEF Writes
<1> QED BY <1>3, <1>4, <1>5, <1>6, <1>7, <1>8, <1>9, <1>10, <1>11 DEF Sliding

-----------------------------------------------------------------------------
(* Steps with a sliding window.                                            *)
LEMMA SlideFails ==
  ASSUME DailyInv, Timely, crawler \in Sliding, SlideFine, AskFails \/ CommitFails \/ Die
  PROVE  SlideFine'
<1>1. /\ failures' = failures + 1 /\ run.step # "idle"
      /\ UNCHANGED <<crawler, now, source, table, ran, beyond>>
  BY FailureCounts
<1>2. Series' = Series /\ Days' = Days
  BY <1>1, SameSets
<1> SUFFICES ASSUME NEW c \in Series \X Days, Missing(c)' PROVE Due(c)'
  BY <1>2 DEF SlideFine
<1>3. Missing(c)
  BY <1>1, SameMissing
<1>4. Due(c) \/ InTime(c)
  BY <1>3 DEF SlideFine
<1>5. /\ now \in Int /\ NextRun = now + 1 /\ NextRun' = now + 1 /\ Slack \in Int /\ Slack' = Slack
      /\ c[2] \in Int /\ failures \in Int /\ MaxFailures \in Int
  <2>1. ran
    BY <1>1 DEF Timely
  <2>2. Slack' = Slack
    BY <1>1 DEF Slack
  <2>3. failures \in Int /\ MaxFailures \in Int
    BY TablesAssumption DEF Timely
  <2>4. c[2] \in Days
    OBVIOUS
  <2> QED BY <1>1, <2>1, <2>2, <2>3, <2>4, Numbers DEF DailyInv, NextRun
<1>6. FailuresLeft = MaxFailures - failures /\ FailuresLeft' = MaxFailures - (failures + 1)
  BY <1>1 DEF FailuresLeft
<1> QED BY <1>4, <1>5, <1>6 DEF Due, InTime

(* What a day has to do with the next run and with this one.               *)
LEMMA DueInTime ==
  ASSUME Facts, Timely, NEW c \in Series \X Days, Due(c)
  PROVE  InTime(c)
<1>1. c[2] \in Days
  OBVIOUS
<1>2. now \in Int /\ NextRun \in Int /\ NextRun >= now /\ Slack \in Nat /\ FailuresLeft \in Nat /\ c[2] \in Int
  BY <1>1, Numbers
<1> QED BY <1>2 DEF Due, InTime

(* A run that begins has before it what is due.                            *)
LEMMA SlideBegins ==
  ASSUME DailyInv, Timely, crawler \in Sliding, SlideFine, Begin
  PROVE  SlideFine'
<1> USE DEF DailyInv
<1>1. /\ run.step = "idle" /\ UNCHANGED <<crawler, now, source, table, failures, beyond>> /\ ran'
      /\ Series' = Series /\ Days' = Days
  BY SameSets DEF Begin
<1> SUFFICES ASSUME NEW c \in Series \X Days, Missing(c)' PROVE InTime(c)' /\ InHand(c)'
  BY <1>1 DEF SlideFine
<1>2. Missing(c)
  BY <1>1, SameMissing
<1>3. Due(c)
  BY <1>1, <1>2 DEF SlideFine, InHand, Unasked
<1>4. InTime(c) /\ c[2] \in Window(c[1]) /\ c[1] \in Series
  <2>1. c \in Published
    BY <1>2 DEF Missing
  <2> QED BY <1>3, <2>1, DueInTime, WindowHoldsDue
<1>5. InTime(c)'
  BY <1>1, <1>4 DEF InTime, FailuresLeft, Slack
<1>6. PICK r : r = [Idle EXCEPT !.windows = [s \in Series |-> Window(s)], !.todo = Opening]
  OBVIOUS
<1>7. /\ r.series = 0 /\ r.windows = [s \in Series |-> Window(s)] /\ r.todo = Opening /\ r.ending = FALSE
      /\ r \in AnyRun /\ run' = Onward(r)
  <2>1. [s \in Series |-> Window(s)] \in [Series -> SUBSET Days]
    BY WindowType
  <2>2. 0 \in 0 .. LastSeries
    BY SeriesAre
  <2> QED BY <1>6, <2>1, <2>2, OpeningIs DEF AnyRun, Idle, Begin
<1>8. /\ run'.windows[c[1]] = Window(c[1]) /\ run'.ending = FALSE
      /\ \/ run'.step = "writing" /\ run'.series = 0
         \/ run'.step = "asking" /\ run'.series = 1
  <2>1. r.windows[c[1]] = Window(c[1])
    BY <1>4, <1>7
  <2>2. CASE r.todo # <<>>
    BY <1>7, <2>1, <2>2, OnwardIs
  <2>3. CASE r.todo = <<>>
    <3>1. /\ run'.step = "asking" /\ run'.series = r.series + 1 /\ run'.windows = r.windows
          /\ run'.ending = FALSE
      BY <1>7, <2>3, OnwardIs
    <3>2. r.series + 1 = 1
      BY <1>7
    <3> QED BY <2>1, <3>1, <3>2
  <2> QED BY <2>2, <2>3
<1>9. c[1] \in Nat \ {0}
  BY <1>4, SeriesAre
<1>10. Unasked(c[1])'
  BY <1>8, <1>9 DEF Unasked
<1> QED BY <1>4, <1>5, <1>8, <1>10 DEF InHand

(* Where a run is after an answer.                                         *)
LEMMA AnsweredIs ==
  ASSUME run \in AnyRun, NEW got, Answered(got), NEW todo,
         todo = Unless(RunOf.gathers /\ ~IsLast(run.series), Writes(run.series, got))
  PROVE  /\ todo # <<>> => /\ run'.step = "writing" /\ run'.series = run.series /\ run'.windows = run.windows
                           /\ run'.todo = todo /\ run'.ending = IsLast(run.series)
         /\ todo = <<>> /\ IsLast(run.series) => run' = Idle
         /\ todo = <<>> /\ ~IsLast(run.series) =>
              /\ run'.step = "asking" /\ run'.series = run.series + 1 /\ run'.windows = run.windows
              /\ run'.todo = <<>> /\ run'.ending = FALSE /\ run'.got = IF RunOf.gathers THEN got ELSE {}
<1>1. PICK kept, ends : kept = (IF RunOf.gathers THEN got ELSE {}) /\ ends = IsLast(run.series)
  OBVIOUS
<1>2. PICK r : r = [run EXCEPT !.got = kept, !.todo = todo, !.ending = ends]
  OBVIOUS
<1>3. run' = Onward(r)
  BY <1>1, <1>2 DEF Answered
<1>4. /\ r.series = run.series /\ r.windows = run.windows /\ r.got = kept /\ r.todo = todo /\ r.ending = ends
      /\ r = [step |-> run.step, series |-> run.series, windows |-> run.windows, got |-> kept,
              todo |-> todo, failing |-> run.failing, ending |-> ends]
  BY <1>2 DEF AnyRun
<1>5. ends \in BOOLEAN
  BY <1>1 DEF IsLast
<1>6. CASE todo # <<>>
  <2>1. run' = [r EXCEPT !.step = "writing"]
    BY <1>3, <1>4, <1>6 DEF Onward
  <2> QED BY <1>1, <1>4, <1>6, <2>1
<1>7. CASE todo = <<>> /\ ends
  BY <1>1, <1>3, <1>4, <1>7 DEF Onward
<1>8. CASE todo = <<>> /\ ~ends
  <2>1. run' = [r EXCEPT !.step = "asking", !.series = @ + 1, !.failing = FALSE]
    BY <1>3, <1>4, <1>8 DEF Onward
  <2> QED BY <1>1, <1>4, <1>5, <1>8, <2>1
<1> QED BY <1>1, <1>6, <1>7, <1>8

(* An answer is carried on or to be written.                               *)
LEMMA SlideAsks ==
  ASSUME DailyInv, Timely, crawler \in Sliding, SlideFine, Ask
  PROVE  SlideFine'
<1> USE DEF DailyInv
<1>1. /\ run.step = "asking" /\ UNCHANGED <<crawler, now, source, table, ran, failures, beyond>>
      /\ Series' = Series /\ Days' = Days
  BY SameSets DEF Ask
<1> SUFFICES ASSUME NEW c \in Series \X Days, Missing(c)' PROVE Due(c)' \/ (InTime(c)' /\ InHand(c)')
  BY <1>1 DEF SlideFine
<1>2. Missing(c)
  BY <1>1, SameMissing
<1>3. (Due(c) => Due(c)') /\ (InTime(c) => InTime(c)')
  BY <1>1 DEF Due, InTime, FailuresLeft, NextRun, Slack
<1> SUFFICES ASSUME InTime(c), InHand(c) PROVE InHand(c)'
  BY <1>2, <1>3 DEF SlideFine
<1>4. PICK s, A, rows : /\ s = run.series /\ A = Answer(s, run.windows[s]) /\ rows = run.got \cup A
  OBVIOUS
<1>5. PICK todo : todo = Unless(RunOf.gathers /\ ~IsLast(s), Writes(s, rows))
  OBVIOUS
<1>6. /\ s \in Series /\ run.windows[s] \in SUBSET Days /\ run.got \in SUBSET Row /\ run \in AnyRun
      /\ c \in Published /\ c[1] \in Series /\ c[2] \in Days /\ c[2] <= now /\ c = <<c[1], c[2]>>
  <2>1. c \in Published
    BY <1>2 DEF Missing
  <2>2. run \in AnyRun
    BY <1>1, RunIs
  <2> QED BY <1>1, <1>4, <2>1, <2>2, AskingIs, PublishedIs
<1>7. /\ A \in SUBSET Row
      /\ \A r \in A : r.series = s /\ r.rev = source[s][r.time]
      /\ \A t \in run.windows[s] : t <= now => \E r \in A : Cell(r) = <<s, t>>
  BY <1>4, <1>6, AnswerIs
<1>8. Answered(rows)
  BY <1>4 DEF Ask
<1>9. /\ todo # <<>> => /\ run'.step = "writing" /\ run'.series = s /\ run'.windows = run.windows
                        /\ run'.todo = todo /\ run'.ending = IsLast(s)
      /\ todo = <<>> /\ ~IsLast(s) =>
              /\ run'.step = "asking" /\ run'.series = s + 1 /\ run'.windows = run.windows
              /\ run'.ending = FALSE /\ run'.got = IF RunOf.gathers THEN rows ELSE {}
  BY <1>4, <1>5, <1>6, <1>8, AnsweredIs
<1>10. /\ c[1] \in Nat /\ s \in Nat /\ LastSeries \in Nat /\ c[1] <= LastSeries
       /\ (IsLast(s) <=> s = LastSeries)
  BY <1>6, SeriesAre DEF IsLast
<1>11. CASE s < c[1] /\ ~run.ending /\ c[2] \in run.windows[c[1]]
  <2>1. ~IsLast(s)
    BY <1>10, <1>11
  <2>2. /\ run'.windows = run.windows /\ ~run'.ending
        /\ \/ run'.step = "writing" /\ run'.series = s
           \/ run'.step = "asking" /\ run'.series = s + 1
    BY <1>9, <2>1
  <2>3. Unasked(c[1])'
    BY <1>10, <1>11, <2>2 DEF Unasked
  <2> QED BY <1>11, <2>2, <2>3 DEF InHand
<1>12. CASE RowFor(rows, c)
  <2>1. CASE RunOf.gathers /\ ~IsLast(s)
    <3>1. todo = <<>>
      BY <1>5, <2>1 DEF Unless, Nothing
    <3>2. run'.step = "asking" /\ run'.got = rows
      BY <1>9, <2>1, <3>1
    <3>3. RowFor(run.got, c)'
      BY <1>1, <1>12, <3>2 DEF RowFor, Cell
    <3> QED BY <3>2, <3>3 DEF InHand
  <2>2. CASE ~(RunOf.gathers /\ ~IsLast(s))
    <3>1. todo = Writes(s, rows)
      BY <1>5, <2>2 DEF Unless
    <3>2. crawler = "energy_forecast" => c[2] >= now
      <4>1. ASSUME crawler = "energy_forecast" PROVE Slack = 0
        BY <4>1 DEF Slack
      <4>2. now \in Int /\ FailuresLeft \in Nat /\ c[2] \in Int
        BY <1>6, Numbers
      <4> QED BY <4>1, <4>2 DEF InTime
    <3>3. rows \in SUBSET Row
      BY <1>4, <1>6, <1>7
    <3>4. Holds(todo, c)
      BY <1>6, <1>12, <3>1, <3>2, <3>3, WritesHold
    <3>5. todo # <<>>
      BY <3>4 DEF Holds
    <3>6. run'.step = "writing" /\ run'.todo = todo
      BY <1>9, <3>5
    <3>7. Holds(run.todo, c)'
      BY <1>1, <3>4, <3>6 DEF Holds, RowFor, Cell
    <3> QED BY <3>6, <3>7 DEF InHand
  <2> QED BY <2>1, <2>2
<1>13. CASE s = c[1] /\ c[2] \in run.windows[c[1]]
  <2>1. PICK r \in A : Cell(r) = <<s, c[2]>>
    BY <1>6, <1>7, <1>13
  <2>2. Cell(r) = c /\ r.rev = source[c[1]][c[2]] /\ r \in rows
    BY <1>4, <1>6, <1>7, <1>13, <2>1 DEF Cell
  <2>3. RowFor(rows, c)
    BY <2>2 DEF RowFor
  <2> QED BY <1>12, <2>3
<1>14. CASE RowFor(run.got, c)
  <2>1. RowFor(rows, c)
    BY <1>4, <1>14 DEF RowFor
  <2> QED BY <1>12, <2>1
<1> QED BY <1>1, <1>4, <1>11, <1>13, <1>14 DEF InHand, Unasked

(* A transaction only makes a cell miss that it deletes.                   *)
LEMMA MissingBefore ==
  ASSUME DailyInv, Commit, NEW c, Missing(c)', crawler # "entsog" \/ c \notin Head(run.todo).clear
  PROVE  Missing(c)
<1>1. UNCHANGED <<crawler, now, source, beyond>>
  BY DEF Commit
<1>2. PICK w : w = Head(run.todo)
  OBVIOUS
<1>3. CASE w.report # "none"
  <2>1. table' = table
    BY <1>2, <1>3 DEF Commit
  <2> QED BY <1>1, <2>1, SameMissing
<1>4. CASE w.report = "none"
  <2>1. Published' = Published
    BY <1>1, SameSets DEF Published
  <2>2. Wanted(c)
    BY <1>1, SameWanted DEF Missing
  <2>3. ASSUME Current(c) PROVE FALSE
    <3>1. PICK r \in table : Cell(r) = c /\ r.rev = source[c[1]][c[2]]
      BY <2>3 DEF Current, RowsOf
    <3>2. PICK q \in table' : Cell(q) = Cell(r) /\ q.rev >= r.rev
      BY <1>2, <1>4, <2>2, <3>1, CommitTable
    <3>3. TableFine' /\ TableFine
      BY <1>2, <1>4, CommitTable DEF DailyInv
    <3>4. q.series = c[1] /\ q.time = c[2]
      BY <3>1, <3>2 DEF Cell
    <3>5. q.rev <= source[c[1]][c[2]] /\ q.rev \in 0 .. 2 /\ r.rev \in 0 .. 2
      BY <1>1, <3>3, <3>4 DEF TableFine
    <3>6. q.rev = source[c[1]][c[2]]
      BY <3>1, <3>2, <3>5
    <3>7. Current(c)'
      BY <1>1, <3>1, <3>2, <3>6 DEF Current, RowsOf, Cell
    <3> QED BY <3>7 DEF Missing
  <2> QED BY <1>1, <2>1, <2>2, <2>3 DEF Missing
<1> QED BY <1>3, <1>4

(* Where a run is after a transaction, or an optional one that failed.     *)
LEMMA TailIs ==
  ASSUME DailyInv, run.step = "writing", run' = Onward([run EXCEPT !.todo = Tail(@)]), NEW t, t = Tail(run.todo)
  PROVE  /\ run'.step = "writing" => run'.todo = t /\ run'.series = run.series
         /\ run'.step \in {"idle", "asking", "writing"}
         /\ run'.step # "writing" => run'.todo = <<>>
         /\ t # <<>> => run'.step = "writing"
         /\ run'.step = "idle" => run' = Idle
         /\ run'.step = "asking" => run'.series = run.series + 1
         /\ run'.step # "idle" => run'.windows = run.windows
         /\ ~run.ending => run'.step # "idle" /\ ~run'.ending
         /\ t \in Seq(WriteSet) /\ Len(t) = Len(run.todo) - 1
         /\ \A i \in 1 .. Len(t) : t[i] = run.todo[i + 1] /\ i + 1 \in 1 .. Len(run.todo)
<1> USE DEF DailyInv
<1>1. run \in AnyRun /\ run.todo # <<>> /\ run.todo \in Seq(WriteSet)
  BY WritingIs
<1>2. /\ t \in Seq(WriteSet) /\ Len(t) = Len(run.todo) - 1
      /\ \A i \in 1 .. Len(t) : t[i] = run.todo[i + 1] /\ i + 1 \in 1 .. Len(run.todo)
  BY <1>1
<1>3. PICK r : r = [run EXCEPT !.todo = t]
  OBVIOUS
<1>4. /\ r \in AnyRun /\ r.series = run.series /\ r.windows = run.windows /\ r.todo = t /\ r.ending = run.ending
      /\ run' = Onward(r) /\ r.ending \in BOOLEAN
  BY <1>1, <1>2, <1>3 DEF AnyRun
<1>5. Idle.step = "idle" /\ Idle.todo = <<>>
  BY DEF Idle
<1>6. CASE t # <<>>
  BY <1>2, <1>4, <1>6, OnwardIs
<1>7. CASE t = <<>> /\ r.ending
  <2>1. run' = Idle
    BY <1>4, <1>7, OnwardIs
  <2> QED BY <1>2, <1>4, <1>5, <1>7, <2>1
<1>8. CASE t = <<>> /\ ~r.ending
  <2>1. /\ run'.step = "asking" /\ run'.series = r.series + 1 /\ run'.windows = r.windows /\ run'.todo = <<>>
        /\ run'.ending = FALSE
    BY <1>4, <1>8, OnwardIs
  <2> QED BY <1>2, <1>4, <1>8, <2>1
<1> QED BY <1>6, <1>7, <1>8

(* A transaction stores a cell, or leaves it in hand.                      *)
LEMMA SlideCommits ==
  ASSUME DailyInv, Timely, crawler \in Sliding, SlideFine, Commit
  PROVE  SlideFine'
<1> USE DEF DailyInv
<1>1. /\ run.step = "writing" /\ UNCHANGED <<crawler, now, source, ran, failures, beyond>>
      /\ run' = Onward([run EXCEPT !.todo = Tail(@)])
      /\ Series' = Series /\ Days' = Days
  BY SameSets DEF Commit
<1> SUFFICES ASSUME NEW c \in Series \X Days, Missing(c)' PROVE Due(c)' \/ (InTime(c)' /\ InHand(c)')
  BY <1>1 DEF SlideFine
<1>2. Missing(c)
  BY MissingBefore DEF Sliding
<1>3. (Due(c) => Due(c)') /\ (InTime(c) => InTime(c)')
  BY <1>1 DEF Due, InTime, FailuresLeft, NextRun, Slack
<1> SUFFICES ASSUME InHand(c) PROVE InHand(c)'
  BY <1>2, <1>3 DEF SlideFine
<1>4. PICK t, w : t = Tail(run.todo) /\ w = Head(run.todo)
  OBVIOUS
<1>5. /\ run'.step = "writing" => run'.todo = t /\ run'.series = run.series
      /\ t # <<>> => run'.step = "writing"
      /\ run'.step = "asking" => run'.series = run.series + 1
      /\ run'.step # "idle" => run'.windows = run.windows
      /\ ~run.ending => run'.step # "idle" /\ ~run'.ending
      /\ t \in Seq(WriteSet) /\ Len(t) = Len(run.todo) - 1
      /\ \A i \in 1 .. Len(t) : t[i] = run.todo[i + 1]
  BY <1>1, <1>4, TailIs
<1>6. CASE run.series < c[1] /\ ~run.ending /\ c[2] \in run.windows[c[1]]
  <2>1. run.series \in Nat /\ c[1] \in Nat
    BY <1>1, WritingIs, SeriesAre DEF AnyRun
  <2>2. run'.step \in {"idle", "asking", "writing"}
    BY <1>1, <1>4, TailIs
  <2>3. Unasked(c[1])'
    BY <1>5, <1>6, <2>1, <2>2 DEF Unasked
  <2> QED BY <1>5, <1>6, <2>3 DEF InHand, Unasked
<1>7. CASE Holds(run.todo, c)
  <2>1. PICK i \in 1 .. Len(run.todo) : run.todo[i].report = "none" /\ RowFor(run.todo[i].rows, c)
    BY <1>7 DEF Holds
  <2>2. Len(run.todo) \in Nat \ {0} /\ w = run.todo[1]
    BY <1>1, <1>4, WritingIs
  <2>3. i # 1
    <3> SUFFICES ASSUME i = 1 PROVE FALSE
      OBVIOUS
    <3>1. PICK r \in w.rows : Cell(r) = c /\ r.rev = source[c[1]][c[2]]
      BY <2>1, <2>2 DEF RowFor
    <3>2. PICK q \in table' : Cell(q) = Cell(r) /\ q.rev = r.rev
      BY <1>4, <2>1, <2>2, CommitTable
    <3>3. Current(c)'
      BY <1>1, <3>1, <3>2 DEF Current, RowsOf, Cell
    <3> QED BY <3>3 DEF Missing
  <2>4. PICK j : j = i - 1
    OBVIOUS
  <2>5. j \in 1 .. Len(t) /\ j + 1 = i
    BY <1>5, <2>2, <2>3, <2>4
  <2>6. t # <<>> /\ t[j] = run.todo[i]
    BY <1>5, <2>5
  <2>7. run'.step = "writing" /\ run'.todo = t
    BY <1>5, <2>6
  <2>8. Holds(t, c)
    BY <2>1, <2>5, <2>6 DEF Holds
  <2>9. Holds(run.todo, c)'
    BY <1>1, <2>7, <2>8 DEF Holds, RowFor, Cell
  <2> QED BY <2>7, <2>9 DEF InHand
<1> QED BY <1>1, <1>6, <1>7 DEF InHand, Unasked

(* The service publishes a day: the last, or any until now.                *)
LEMMA NextDayIs ==
  ASSUME Facts, Timely, NEW late \in SUBSET Series, NextDay(late)
  PROVE  /\ run.step = "idle" /\ ran /\ ~ran' /\ now' = now + 1 /\ now + 1 \in Days
         /\ UNCHANGED <<crawler, table, failures, run>> /\ beyond \subseteq beyond'
         /\ Series' = Series /\ Days' = Days
         /\ \A s \in Series, t \in Days : t # now + 1 => source'[s][t] = source[s][t]
         /\ \A s \in Series : source[s][now + 1] = 0
         /\ \A c \in Published' \ beyond' : c[2] = now + 1 => Promised(c[1], c[2])
<1>1. /\ run.step = "idle" /\ ran /\ ran' = FALSE /\ now' = now + 1 /\ now < Horizon
      /\ UNCHANGED <<crawler, table, failures, run>>
      /\ source' = [s \in Series |-> [source[s] EXCEPT ![now + 1] = IF s \in late THEN 0 ELSE 1]]
      /\ beyond' = beyond \cup {c \in (Series \ late) \X {now + 1} : ~Promised(c[1], c[2])}
  BY DEF NextDay
<1>2. now \in Nat /\ now + 1 \in Days
  BY <1>1, DaysAre DEF Facts
<1>3. Series' = Series /\ Days' = Days
  BY <1>1, SameSets
<1>4. /\ \A s \in Series, t \in Days : t # now + 1 => source'[s][t] = source[s][t]
      /\ \A s \in Series : source'[s][now + 1] = IF s \in late THEN 0 ELSE 1
  BY <1>1, <1>2 DEF Facts
<1>5. \A s \in Series : source[s][now + 1] = 0
  BY <1>2 DEF Timely
<1>6. ASSUME NEW c \in Published' \ beyond', c[2] = now + 1 PROVE Promised(c[1], c[2])
  <2>1. c \in Series \X Days /\ source'[c[1]][c[2]] > 0
    BY <1>3, <1>6 DEF Published
  <2>2. c[1] \in Series /\ c = <<c[1], c[2]>>
    BY <2>1
  <2>3. c[1] \notin late
    BY <1>4, <1>6, <2>1, <2>2
  <2>4. c \in (Series \ late) \X {now + 1}
    BY <1>6, <2>2, <2>3
  <2> QED BY <1>1, <1>6, <2>4
<1> QED BY <1>1, <1>2, <1>3, <1>4, <1>5, <1>6

(* A day is published late, or anew.                                       *)
LEMMA PublishIs ==
  ASSUME Facts, NEW s \in Series, NEW t \in Days, Publish(s, t)
  PROVE  /\ UNCHANGED <<crawler, now, table, failures, ran, run>>
         /\ Series' = Series /\ Days' = Days
         /\ \A c \in Series \X Days : c # <<s, t>> =>
              source'[c[1]][c[2]] = source[c[1]][c[2]] /\ (c \in beyond' <=> c \in beyond)
         /\ <<s, t>> \notin beyond' => Promised(s, t)
<1>1. /\ UNCHANGED <<crawler, now, table, failures, ran, run>>
      /\ source' = [source EXCEPT ![s][t] = @ + 1]
      /\ beyond' = (beyond \ {<<s, t>>}) \cup (IF Promised(s, t) THEN {} ELSE {<<s, t>>})
  BY DEF Publish
<1>2. ASSUME NEW c \in Series \X Days, c # <<s, t>>
      PROVE  source'[c[1]][c[2]] = source[c[1]][c[2]] /\ (c \in beyond' <=> c \in beyond)
  <2>1. c[1] \in Series /\ c[2] \in Days /\ c = <<c[1], c[2]>>
    OBVIOUS
  <2>2. c[1] # s \/ c[2] # t
    BY <1>2, <2>1
  <2> QED BY <1>1, <1>2, <2>1, <2>2 DEF Facts
<1> QED BY <1>1, <1>2, SameSets

(* A new day is due if it is promised, and the others are due still.       *)
LEMMA SlideNextDay ==
  ASSUME DailyInv, Timely, crawler \in Sliding, SlideFine, NEW late \in SUBSET Series, NextDay(late)
  PROVE  SlideFine'
<1> USE DEF DailyInv
<1>1. /\ run.step = "idle" /\ ran /\ ~ran' /\ now' = now + 1 /\ now + 1 \in Days
      /\ UNCHANGED <<crawler, table, failures, run>> /\ beyond \subseteq beyond'
      /\ Series' = Series /\ Days' = Days
      /\ \A s \in Series, t \in Days : t # now + 1 => source'[s][t] = source[s][t]
      /\ \A c \in Published' \ beyond' : c[2] = now + 1 => Promised(c[1], c[2])
  BY NextDayIs
<1> SUFFICES ASSUME NEW c \in Series \X Days, Missing(c)' PROVE Due(c)'
  BY <1>1 DEF SlideFine
<1>2. c[1] \in Series /\ c[2] \in Days /\ c = <<c[1], c[2]>> /\ c \in Published' \ beyond'
  BY DEF Missing
<1>3. Due(c)
  <2>1. CASE c[2] = now + 1
    BY <1>1, <1>2, <2>1, PromisedIsDue
  <2>2. CASE c[2] # now + 1
    <3>1. source'[c[1]][c[2]] = source[c[1]][c[2]]
      BY <1>1, <1>2, <2>2
    <3>2. c \in Published \ beyond
      BY <1>1, <1>2, <3>1 DEF Published
    <3>3. ~Current(c)
      BY <1>1, <3>1 DEF Missing, Current, RowsOf, Cell
    <3>4. Wanted(c)
      BY <1>1 DEF Missing, Wanted, NetzTimed, Sliding
    <3>5. Missing(c)
      BY <3>2, <3>3, <3>4 DEF Missing
    <3> QED BY <1>1, <3>5 DEF SlideFine, InHand, Unasked
  <2> QED BY <2>1, <2>2
<1> QED BY <1>1, <1>3 DEF Due, NextRun, FailuresLeft, Slack

(* What is published late or anew is due if it is promised.                *)
LEMMA SlidePublishes ==
  ASSUME DailyInv, Timely, crawler \in Sliding, SlideFine, NEW s \in Series, NEW t \in Days, Publish(s, t)
  PROVE  SlideFine'
<1> USE DEF DailyInv
<1>1. /\ UNCHANGED <<crawler, now, table, failures, ran, run>>
      /\ Series' = Series /\ Days' = Days
      /\ \A c \in Series \X Days : c # <<s, t>> =>
           source'[c[1]][c[2]] = source[c[1]][c[2]] /\ (c \in beyond' <=> c \in beyond)
      /\ <<s, t>> \notin beyond' => Promised(s, t)
  BY PublishIs
<1> SUFFICES ASSUME NEW c \in Series \X Days, Missing(c)' PROVE Due(c)' \/ (InTime(c)' /\ InHand(c)')
  BY <1>1 DEF SlideFine
<1>2. (Due(c) => Due(c)') /\ (InTime(c) => InTime(c)')
  BY <1>1 DEF Due, InTime, FailuresLeft, NextRun, Slack
<1>3. CASE c = <<s, t>>
  <2>1. Promised(s, t)
    BY <1>1, <1>3 DEF Missing
  <2> QED BY <1>2, <1>3, <2>1, PromisedIsDue
<1>4. CASE c # <<s, t>>
  <2>1. source'[c[1]][c[2]] = source[c[1]][c[2]] /\ (c \in beyond' <=> c \in beyond)
    BY <1>1, <1>4
  <2>2. Missing(c)
    <3>1. c \in Published \ beyond
      BY <2>1 DEF Missing, Published
    <3>2. ~Current(c)
      BY <1>1, <2>1 DEF Missing, Current, RowsOf, Cell
    <3>3. Wanted(c)
      BY <1>1, SameWanted DEF Missing
    <3> QED BY <3>1, <3>2, <3>3 DEF Missing
  <2>3. InHand(c) => InHand(c)'
    <3>1. Holds(run.todo, c) <=> Holds(run.todo, c)'
      BY <1>1, <2>1 DEF Holds, RowFor, Cell
    <3>2. RowFor(run.got, c) <=> RowFor(run.got, c)'
      BY <1>1, <2>1 DEF RowFor, Cell
    <3> QED BY <1>1, <3>1, <3>2 DEF InHand, Unasked
  <2> QED BY <1>2, <2>2, <2>3 DEF SlideFine
<1> QED BY <1>3, <1>4

(* Every step keeps what is missing due or in hand.                        *)
LEMMA SlideStays ==
  ASSUME DailyInv, Timely, crawler \in Sliding, SlideFine, Next
  PROVE  SlideFine'
<1>1. CASE Begin
  BY <1>1, SlideBegins
<1>2. CASE Run
  BY <1>2, SlideAsks, SlideCommits, SlideFails DEF Run
<1>3. CASE \E late \in SUBSET Series : NextDay(late)
  BY <1>3, SlideNextDay
<1>4. CASE \E s \in Series, t \in Days : Publish(s, t)
  BY <1>4, SlidePublishes
<1> QED BY <1>1, <1>2, <1>3, <1>4 DEF Next

-----------------------------------------------------------------------------
(* Reading on from the newest row: what is stored of a series.             *)
LEMMA StoredIs ==
  ASSUME TableFine, NEW s
  PROVE  /\ Stored({s}) \in SUBSET Days
         /\ \A r \in table : r.series = s => r.time \in Stored({s})
         /\ \A t \in Stored({s}) : \E r \in table : r.series = s /\ r.time = t
         /\ Stored({s}) # {} => /\ MaxOf(Stored({s})) \in Stored({s})
                                /\ \A t \in Stored({s}) : t <= MaxOf(Stored({s}))
<1>1. Stored({s}) \in SUBSET Days
  BY DEF Stored, TableFine
<1>2. /\ \A r \in table : r.series = s => r.time \in Stored({s})
      /\ \A t \in Stored({s}) : \E r \in table : r.series = s /\ r.time = t
  BY DEF Stored
<1> QED BY <1>1, <1>2, MaxOfDays

(* The newest row of a commodity.                                          *)
LEMMA SmardLatestIs ==
  ASSUME TableFine, crawler = "smard", NEW s
  PROVE  /\ SmardLatest(s) \in 0 .. 4
         /\ \A r \in table : r.series = s => r.time <= SmardLatest(s)
         /\ SmardLatest(s) = 0 \/ \E r \in table : r.series = s /\ r.time = SmardLatest(s)
<1>1. Days = 1 .. 4
  BY DEF Days, Horizon
<1>2. CASE Stored({s}) = {}
  BY <1>2, StoredIs DEF SmardLatest
<1>3. CASE Stored({s}) # {}
  <2>1. PICK S, m : S = Stored({s}) /\ m = MaxOf(S)
    OBVIOUS
  <2>2. SmardLatest(s) = m
    BY <1>3, <2>1 DEF SmardLatest
  <2>3. m \in S /\ \A t \in S : t <= m
    BY <1>3, <2>1, StoredIs
  <2>4. m \in Days /\ \A r \in table : r.series = s => r.time <= m
    BY <2>1, <2>3, StoredIs
  <2>5. \E r \in table : r.series = s /\ r.time = m
    BY <2>1, <2>3 DEF Stored
  <2>6. m \in 0 .. 4
    BY <1>1, <2>4
  <2> QED BY <2>2, <2>4, <2>5, <2>6
<1> QED BY <1>2, <1>3

(* The weeks of the four days.                                             *)
LEMMA WeeksAre ==
  ASSUME crawler = "smard"
  PROVE  /\ Days = {1, 2, 3, 4}
         /\ SmardFile(0) = {1, 2, 3} /\ SmardFile(1) = {1, 2, 3}
         /\ SmardFile(2) = {4} /\ SmardFile(3) = {4} /\ SmardFile(4) = {4}
         /\ \A t \in Days : LastOfWeek(t) <=> t = 3
<1>1. Days = {1, 2, 3, 4}
  BY DEF Days, Horizon
<1>2. Week(1) = 0 /\ Week(2) = 0 /\ Week(3) = 0 /\ Week(4) = 1
  BY DEF Week
<1>3. ~OnSunday(1) /\ OnSunday(2) /\ OnSunday(3) /\ ~OnSunday(4)
  BY DEF OnSunday
<1>4. ~LastOfWeek(1) /\ ~LastOfWeek(2) /\ LastOfWeek(3) /\ ~LastOfWeek(4)
  BY DEF LastOfWeek
<1>5. WeekFile(0) = {1, 2, 3} /\ WeekFile(1) = {4}
  BY <1>1, <1>2 DEF WeekFile
<1>6. SmardFile(0) = {1, 2, 3}
  BY <1>5 DEF SmardFile
<1>7. SmardFile(1) = {1, 2, 3}
  BY <1>2, <1>3, <1>5 DEF SmardFile
<1>8. SmardFile(2) = {4} /\ SmardFile(3) = {4}
  BY <1>2, <1>3, <1>5 DEF SmardFile
<1>9. SmardFile(4) = {4}
  BY <1>2, <1>3, <1>5 DEF SmardFile
<1> QED BY <1>1, <1>4, <1>6, <1>7, <1>8, <1>9

(* A window of smard starts no later than a cell that no row passes, and   *)
(* what passes the cell there comes with it.                               *)
LEMMA SmardReads ==
  ASSUME TableFine, crawler = "smard", NEW c \in Series \X Days, ~Passed(table, c)
  PROVE  /\ \E t \in Window(c[1]) : t <= c[2]
         /\ \A u \in Window(c[1]) : Passes(u, c[2]) => c[2] \in Window(c[1])
<1>1. PICK s, t, L : s = c[1] /\ t = c[2] /\ L = SmardLatest(s) /\ t \in Days
  OBVIOUS
<1>2. /\ Days = {1, 2, 3, 4}
      /\ SmardFile(0) = {1, 2, 3} /\ SmardFile(1) = {1, 2, 3}
      /\ SmardFile(2) = {4} /\ SmardFile(3) = {4} /\ SmardFile(4) = {4}
      /\ \A d \in Days : LastOfWeek(d) <=> d = 3
  BY WeeksAre
<1>3. L \in {0, 1, 2, 3, 4} /\ t \in {1, 2, 3, 4}
  BY <1>1, <1>2, SmardLatestIs
<1>4. L = 0 \/ ~Passes(L, t)
  BY <1>1, SmardLatestIs DEF Passed
<1>5. \A u : Passes(u, t) <=> u >= t \/ (t = 3 /\ u = t - 1)
  BY <1>1, <1>2 DEF Passes
<1>6. \A d : d \in Window(s) <=> d \in SmardFile(L) /\ d > L
  <2>1. Window(s) = SmardWindow(s)
    BY DEF Window, Snapshots
  <2>2. SmardFile(L) \in SUBSET Days
    BY <1>2, <1>3
  <2> QED BY <1>1, <2>1, <2>2 DEF SmardWindow
<1>7. (\E d \in Window(s) : d <= t) /\ (\A u \in Window(s) : Passes(u, t) => t \in Window(s))
  <2>1. CASE L = 0
    BY <1>2, <1>3, <1>5, <1>6, <2>1
  <2>2. CASE L = 1
    BY <1>2, <1>3, <1>4, <1>5, <1>6, <2>2
  <2>3. CASE L = 2 \/ L = 3
    <3>1. t = 4
      BY <1>3, <1>4, <1>5, <2>3
    <3>2. 4 \in Window(s)
      BY <1>2, <1>6, <2>3
    <3> QED BY <3>1, <3>2
  <2>4. CASE L = 4
    BY <1>3, <1>4, <1>5, <2>4
  <2> QED BY <1>3, <2>1, <2>2, <2>3, <2>4
<1> QED BY <1>1, <1>7

(* A window of entsog holds a published cell that no row passes, and no    *)
(* row passes a day of it.                                                 *)
LEMMA EntsogReads ==
  ASSUME Facts, TableFine, Timely, crawler = "entsog", NEW s \in Series
  PROVE  /\ \A c \in Published : c[1] = s /\ ~Passed(table, c) => c[2] \in Window(s)
         /\ \A t \in Window(s) : ~Passed(table, <<s, t>>)
<1>1. PICK L, S : S = Stored({s}) /\ L = EntsogExistingStart(s)
  OBVIOUS
<1>2. \A t : t \in Window(s) <=> t \in Days /\ L <= t /\ t < now + 1
  <2>1. Window(s) = EntsogWindow(s)
    BY DEF Window, Snapshots
  <2> QED BY <1>1, <2>1 DEF EntsogWindow
<1>3. \A u, t : Passes(u, t) <=> u > t + 1
  BY DEF Passes
<1>4. CASE S = {}
  <2>1. L = 1 /\ \A r \in table : r.series # s
    BY <1>1, <1>4, StoredIs DEF EntsogExistingStart, EntsogInitialStart
  <2>2. ASSUME NEW c \in Published, c[1] = s PROVE c[2] \in Window(s)
    <3>1. c[2] \in Days /\ c[2] <= now /\ c[2] \in Int /\ now \in Int /\ c[2] >= 1
      BY PublishedIs, Numbers
    <3> QED BY <1>2, <2>1, <3>1
  <2>3. \A t : ~Passed(table, <<s, t>>)
    BY <2>1 DEF Passed
  <2> QED BY <2>2, <2>3
<1>5. CASE S # {}
  <2>1. PICK m : m = MaxOf(S)
    OBVIOUS
  <2>2. m \in S /\ (\A t \in S : t <= m) /\ S \in SUBSET Days /\ m \in Int
    BY <1>1, <1>5, <2>1, StoredIs, Numbers
  <2>3. L = IF 1 < m - 1 THEN m - 1 ELSE 1
    BY <1>1, <1>5, <2>1, <2>2 DEF EntsogExistingStart, EntsogInitialStart, AtLeast
  <2>4. ASSUME NEW c \in Published, c[1] = s, ~Passed(table, c) PROVE c[2] \in Window(s)
    <3>1. c[2] \in Days /\ c[2] <= now /\ c[2] \in Int /\ now \in Int /\ c[2] >= 1
      BY PublishedIs, Numbers
    <3>2. PICK r \in table : r.series = s /\ r.time = m
      BY <1>1, <2>2, StoredIs
    <3>3. ~Passes(m, c[2])
      BY <2>4, <3>2 DEF Passed
    <3>4. m <= c[2] + 1
      BY <1>3, <2>2, <3>1, <3>3
    <3>5. L <= c[2]
      BY <2>2, <2>3, <3>1, <3>4
    <3> QED BY <1>2, <3>1, <3>5
  <2>5. ASSUME NEW t \in Window(s) PROVE ~Passed(table, <<s, t>>)
    <3>1. t \in Int /\ L <= t
      BY <1>2, <2>5, Numbers
    <3>2. ASSUME NEW r \in table, r.series = s PROVE ~(r.time > t + 1)
      <4>1. r.time \in S /\ r.time <= m /\ r.time \in Int
        BY <1>1, <2>2, <3>2, StoredIs, Numbers
      <4>2. m <= t + 1
        BY <2>2, <2>3, <3>1
      <4> QED BY <2>2, <3>1, <4>1, <4>2
    <3> QED BY <1>3, <3>2 DEF Passed
  <2> QED BY <2>4, <2>5
<1> QED BY <1>4, <1>5

(* What reads on depends on what is stored of the series.                  *)
LEMMA SameReads ==
  ASSUME crawler \in Following, UNCHANGED <<crawler, now>>, NEW s, Stored({s})' = Stored({s})
  PROVE  Window(s)' = Window(s)
<1>1. Series' = Series /\ Days' = Days /\ Horizon' = Horizon
  BY SameSets
<1>2. CASE crawler = "smard"
  <2>1. Window(s) = SmardWindow(s) /\ Window(s)' = SmardWindow(s)'
    BY <1>2 DEF Window, Snapshots
  <2>2. SmardLatest(s)' = SmardLatest(s)
    BY DEF SmardLatest
  <2>3. \A L : SmardFile(L)' = SmardFile(L)
    BY <1>1 DEF SmardFile, WeekFile, Week, OnSunday
  <2> QED BY <2>1, <2>2, <2>3 DEF SmardWindow
<1>3. CASE crawler = "entsog"
  <2>1. Window(s) = EntsogWindow(s) /\ Window(s)' = EntsogWindow(s)'
    BY <1>3 DEF Window, Snapshots
  <2>2. EntsogExistingStart(s)' = EntsogExistingStart(s)
    BY DEF EntsogExistingStart, EntsogInitialStart, AtLeast
  <2> QED BY <1>1, <2>1, <2>2 DEF EntsogWindow
<1> QED BY <1>2, <1>3 DEF Following

(* What makes a step keep it, when the service stays as it is.             *)
LEMMA FollowNext ==
  ASSUME crawler \in Following, UNCHANGED <<crawler, now, source, beyond>>,
         NEW t, t = run'.todo, NEW T, T = table',
         \A s \in Series : Unasked(s)' => run'.windows[s] = Window(s)',
         InOrder(t, run'.series),
         crawler = "entsog" => \A i \in 1 .. Len(t) : \A r \in t[i].rows : ~Passed(T, Cell(r)),
         \A c \in Published \ beyond :
           /\ ~Current(c)' => ~Passed(T, c)
           /\ ~Current(c)' \/ Coming(t, c) =>
                \A i \in 1 .. Len(t) : Passed(t[i].rows, c) => \E j \in 1 .. i : RowFor(t[j].rows, c)
  PROVE  FollowFine'
<1>1. Series' = Series /\ Days' = Days
  BY SameSets
<1>2. Published' = Published
  BY <1>1 DEF Published
<1>3. \A c : (Passed(table, c)' <=> Passed(T, c)) /\ (Coming(run.todo, c)' <=> Coming(t, c))
  BY DEF Cell, Passed, Passes, LastOfWeek, Coming
<1>4. \A i, c : /\ Passed(run.todo[i].rows, c)' <=> Passed(t[i].rows, c)
                /\ RowFor(run.todo[i].rows, c)' <=> RowFor(t[i].rows, c)
  BY DEF Passed, Passes, LastOfWeek, RowFor, Cell
<1>5. InOrder(run.todo, run.series)'
  BY DEF InOrder, Cell
<1>6. (crawler = "entsog" => \A i \in 1 .. Len(run.todo) : \A r \in run.todo[i].rows : ~Passed(table, Cell(r)))'
  BY <1>3 DEF Cell
<1>7. \A s \in Series' : Unasked(s)' => run'.windows[s] = Window(s)'
  BY <1>1
<1>8. ASSUME NEW c \in (Published \ beyond)'
      PROVE  /\ ~Current(c)' => ~Passed(table, c)'
             /\ ~Current(c)' \/ Coming(run.todo, c)' =>
                  \A i \in 1 .. Len(run'.todo) : Passed(run.todo[i].rows, c)' =>
                     \E j \in 1 .. i : RowFor(run.todo[j].rows, c)'
  <2>1. c \in Published \ beyond
    BY <1>2
  <2> QED BY <1>3, <1>4, <2>1
<1> QED BY <1>5, <1>6, <1>7, <1>8 DEF FollowFine

(* Nothing is to be written after these steps.                             *)
LEMMA FollowEmpty ==
  ASSUME crawler \in Following, FollowFine, UNCHANGED <<crawler, now, source, table, beyond>>,
         run'.todo = <<>>, \A s \in Series : Unasked(s)' => run'.windows[s] = Window(s)
  PROVE  FollowFine'
<1>1. PICK t, T : t = run'.todo /\ T = table' /\ 1 .. Len(t) = {}
  OBVIOUS
<1>2. \A c : Current(c)' <=> Current(c)
  BY DEF Current, RowsOf, Cell
<1>3. \A s : Window(s)' = Window(s)
  BY SameReads DEF Stored
<1>4. InOrder(t, run'.series)
  BY <1>1 DEF InOrder
<1>5. \A c \in Published \ beyond : ~Current(c) => ~Passed(T, c)
  BY <1>1 DEF FollowFine
<1> QED BY <1>1, <1>2, <1>3, <1>4, <1>5, FollowNext

(* A run that begins reads on from what is stored.                         *)
LEMMA FollowBegins ==
  ASSUME DailyInv, crawler \in Following, FollowFine, Begin
  PROVE  FollowFine'
<1>1. Opening = <<>>
  BY OpeningIs DEF Following
<1>2. PICK W : W = [s \in Series |-> Window(s)]
  OBVIOUS
<1>3. run' = [[Idle EXCEPT !.windows = W, !.todo = <<>>] EXCEPT !.step = "asking", !.series = 1, !.failing = FALSE]
  BY <1>1, <1>2 DEF Begin, Onward, Idle
<1>4. run'.windows = W /\ run'.todo = <<>>
  BY <1>3 DEF Idle
<1>5. \A s \in Series : run'.windows[s] = Window(s)
  BY <1>2, <1>4
<1>6. UNCHANGED <<crawler, now, source, table, beyond>>
  BY DEF Begin
<1> QED BY <1>4, <1>5, <1>6, FollowEmpty DEF DailyInv

(* Whoever reads on keeps nothing of what has failed.                      *)
LEMMA FollowRecovers ==
  ASSUME DailyInv, crawler \in Following, FollowFine, run.step # "idle",
         UNCHANGED <<crawler, now, source, table, beyond>>, run' = Idle \/ \E ends \in BOOLEAN : Recover(ends)
  PROVE  FollowFine'
<1> USE DEF DailyInv
<1>1. CASE run' = Idle
  <2>1. run'.todo = <<>> /\ run'.step = "idle"
    BY <1>1 DEF Idle
  <2> QED BY <2>1, FollowEmpty DEF Unasked
<1>2. ASSUME NEW ends \in BOOLEAN, Recover(ends) PROVE FollowFine'
  <2>1. Complaint = <<>> /\ run \in AnyRun
    BY ComplaintIs, RunIs DEF Following, Reporting
  <2>2. PICK last : last = (ends \/ IsLast(run.series)) /\ last \in BOOLEAN
    BY DEF IsLast
  <2>3. PICK r : r = [run EXCEPT !.todo = <<>>, !.failing = TRUE, !.ending = last]
    OBVIOUS
  <2>4. /\ r \in AnyRun /\ r.series = run.series /\ r.windows = run.windows /\ r.todo = <<>>
        /\ r.ending = last /\ run' = Onward(r) /\ r.series \in Nat
    <3>1. run.series \in Nat
      BY <2>1, SeriesAre DEF AnyRun
    <3>2. run' = Onward(r)
      BY <1>2, <2>1, <2>2, <2>3 DEF Recover
    <3>3. <<>> \in Seq(WriteSet)
      OBVIOUS
    <3> QED BY <2>1, <2>2, <2>3, <3>1, <3>2, <3>3 DEF AnyRun
  <2>5. CASE last
    <3>1. run' = Idle
      BY <2>4, <2>5, OnwardIs
    <3> QED BY <1>1, <3>1
  <2>6. CASE ~last
    <3>1. run'.step = "asking" /\ run'.series = run.series + 1 /\ run'.windows = run.windows /\ run'.todo = <<>>
      BY <2>4, <2>6, OnwardIs
    <3>2. ASSUME NEW s \in Series, Unasked(s)' PROVE Unasked(s)
      <4>1. s \in Nat
        BY SeriesAre
      <4> QED BY <2>4, <3>1, <3>2, <4>1 DEF Unasked
    <3>3. \A s \in Series : Unasked(s)' => run'.windows[s] = Window(s)
      BY <3>1, <3>2 DEF FollowFine
    <3> QED BY <3>1, <3>3, FollowEmpty
  <2> QED BY <2>2, <2>5, <2>6
<1> QED BY <1>1, <1>2

(* A request of theirs that fails leaves nothing.                          *)
LEMMA FollowAskFails ==
  ASSUME DailyInv, crawler \in Following, FollowFine, AskFails
  PROVE  FollowFine'
<1>1. ~RunOf.gathers
  BY RunOfIs DEF DailyInv, Facts, Following, Gatherers
<1>2. Recover(FALSE) \/ Recover(TRUE)
  BY <1>1 DEF AskFails
<1>3. run.step # "idle" /\ UNCHANGED <<crawler, now, source, table, beyond>>
  BY DEF AskFails
<1> QED BY <1>2, <1>3, FollowRecovers

(* Neither does a process that is killed.                                  *)
LEMMA FollowDies ==
  ASSUME DailyInv, crawler \in Following, FollowFine, Die
  PROVE  FollowFine'
  BY FollowRecovers DEF Die

(* The chunks of entsog, up to a day: every row that was answered is in    *)
(* one of them, in the order of time.                                      *)
ChunksTo(s, rows, todo, d) ==
  /\ todo \in Seq(WriteSet) /\ InOrder(todo, s)
  /\ \A i \in 1 .. Len(todo) : \A r \in todo[i].rows : r \in rows /\ r.time <= d
  /\ \A r \in rows : r.time <= d => \E i \in 1 .. Len(todo) : r \in todo[i].rows

(* The chunk of the next day comes last.                                   *)
LEMMA ChunksGrow ==
  ASSUME crawler = "entsog", NEW s \in Series, NEW rows \in SUBSET Row, \A r \in rows : r.series = s,
         NEW d \in Days, NEW e, e = d - 1, NEW todo, ChunksTo(s, rows, todo, e)
  PROVE  ChunksTo(s, rows, todo \o EntsogDay(s, rows, d), d)
<1>1. PICK X : X = {r \in rows : r.time = d}
  OBVIOUS
<1>2. /\ d \in Int /\ e \in Int /\ \A r \in rows : r.time \in Int
      /\ \A t : t \in Int => (t <= d <=> t <= e \/ t = d)
  <2>1. \A t \in Days : t \in Int
    BY DaysAre
  <2> QED BY <2>1 DEF Row
<1>3. /\ todo \in Seq(WriteSet) /\ InOrder(todo, s)
      /\ \A i \in 1 .. Len(todo) : \A r \in todo[i].rows : r \in rows /\ r.time <= e
      /\ \A r \in rows : r.time <= e => \E i \in 1 .. Len(todo) : r \in todo[i].rows
  BY DEF ChunksTo
<1>4. CASE X = {}
  <2>1. EntsogDay(s, rows, d) = <<>>
    BY <1>1, <1>4 DEF EntsogDay, EntsogChunk, Unless, Nothing
  <2>2. todo \o EntsogDay(s, rows, d) = todo
    BY <1>3, <2>1
  <2>3. ChunksTo(s, rows, todo, d)
    BY <1>1, <1>2, <1>3, <1>4 DEF ChunksTo
  <2> QED BY <2>2, <2>3
<1>5. CASE X # {}
  <2>1. PICK D, I : D = EntsogDeleteChunk(s, d) /\ I = EntsogInsert(rows, d)
    OBVIOUS
  <2>2. D \in WriteSet /\ I \in WriteSet
    BY <2>1, ChunkIs
  <2>3. /\ D.rows = {} /\ D.clear = {<<s, d>>}
        /\ I.rows = X /\ I.clear = {} /\ I.optional = FALSE
    BY <1>1, <2>1 DEF EntsogDeleteChunk, EntsogInsert, Try, Replace, Write
  <2>4. EntsogDay(s, rows, d) = <<D, I>>
    BY <1>1, <1>5, <2>1 DEF EntsogDay, EntsogChunk, EntsogInsert, Unless
  <2>5. PICK n, m, long : n = Len(todo) /\ m = n + 1 /\ long = todo \o <<D, I>>
    OBVIOUS
  <2>6. /\ long \in Seq(WriteSet) /\ n \in Nat /\ Len(long) = n + 2
        /\ \A i \in 1 .. n : long[i] = todo[i]
        /\ long[m] = D /\ long[m + 1] = I
    BY <1>3, <2>2, <2>5
  <2>7. \A i \in 1 .. Len(long) : i \in 1 .. n \/ i = m \/ i = m + 1
    BY <2>5, <2>6
  <2>8. ASSUME NEW i \in 1 .. Len(long)
        PROVE  /\ \A r \in long[i].rows : r.series = s /\ r \in rows /\ r.time <= d
               /\ long[i].optional => long[i].rows = {}
               /\ \A c \in long[i].clear : /\ c[1] = s /\ i < Len(long) /\ long[i].rows = {} /\ crawler = "entsog"
                                           /\ \E r \in long[i + 1].rows : Cell(r) = c
    <3>1. CASE i \in 1 .. n
      <4>1. /\ \A r \in todo[i].rows : r.series = s /\ r \in rows /\ r.time <= d
            /\ todo[i].optional => todo[i].rows = {}
        BY <1>2, <1>3, <2>5, <3>1 DEF InOrder
      <4>2. ASSUME NEW c \in todo[i].clear
            PROVE  /\ c[1] = s /\ i < n /\ todo[i].rows = {} /\ \E r \in todo[i + 1].rows : Cell(r) = c
        BY <1>3, <2>5, <3>1, <4>2 DEF InOrder
      <4>3. i < n => long[i + 1] = todo[i + 1]
        BY <2>6, <3>1
      <4>4. long[i] = todo[i] /\ i < Len(long)
        BY <2>6, <3>1
      <4> QED BY <4>1, <4>2, <4>3, <4>4
    <3>2. CASE i = m
      <4>1. PICK r \in X : TRUE
        BY <1>5
      <4>2. Cell(r) = <<s, d>> /\ r \in long[i + 1].rows
        BY <1>1, <2>3, <2>6, <3>2, <4>1 DEF Cell
      <4>3. long[i] = D /\ i < Len(long)
        BY <2>5, <2>6, <3>2
      <4> QED BY <2>3, <4>2, <4>3
    <3>3. CASE i = m + 1
      BY <1>1, <1>2, <2>3, <2>6, <3>3
    <3> QED BY <2>7, <3>1, <3>2, <3>3
  <2>9. ASSUME NEW i \in 1 .. Len(long), NEW j \in 1 .. Len(long), i < j,
               NEW q \in long[i].rows, NEW r \in long[j].rows
        PROVE  q.time < r.time
    <3>1. CASE j \in 1 .. n
      <4>1. i \in 1 .. n
        BY <2>6, <2>9, <3>1
      <4> QED BY <1>3, <2>5, <2>6, <2>9, <3>1, <4>1 DEF InOrder
    <3>2. CASE j = m + 1
      <4>1. i \in 1 .. n \/ i = m
        BY <2>5, <2>6, <2>9, <3>2
      <4>2. r.time = d
        BY <1>1, <2>3, <2>6, <3>2
      <4>3. i \in 1 .. n
        BY <2>3, <2>6, <4>1
      <4>4. q \in rows /\ q.time <= e
        BY <1>3, <2>5, <2>6, <4>3
      <4> QED BY <1>2, <4>2, <4>4
    <3> QED BY <2>3, <2>6, <2>7, <3>1, <3>2
  <2>10. ASSUME NEW r \in rows, r.time <= d PROVE \E i \in 1 .. Len(long) : r \in long[i].rows
    <3>1. CASE r.time = d
      <4>1. r \in I.rows /\ m + 1 \in 1 .. Len(long)
        BY <1>1, <2>3, <2>5, <2>6, <3>1
      <4> QED BY <2>6, <4>1
    <3>2. CASE r.time <= e
      <4>1. PICK i \in 1 .. n : r \in todo[i].rows
        BY <1>3, <2>5, <3>2
      <4>2. i \in 1 .. Len(long)
        BY <2>6
      <4> QED BY <2>6, <4>1, <4>2
    <3> QED BY <1>2, <2>10, <3>1, <3>2
  <2>11. ChunksTo(s, rows, long, d)
    BY <2>6, <2>8, <2>9, <2>10 DEF ChunksTo, InOrder
  <2> QED BY <2>4, <2>5, <2>11
<1> QED BY <1>4, <1>5

(* What entsog writes about an answer.                                     *)
LEMMA ChunksAre ==
  ASSUME crawler = "entsog", NEW s \in Series, NEW rows \in SUBSET Row, \A r \in rows : r.series = s,
         NEW todo, todo = EntsogWrites(s, rows)
  PROVE  /\ InOrder(todo, s)
         /\ \A i \in 1 .. Len(todo) : \A r \in todo[i].rows : r \in rows
         /\ \A r \in rows : \E i \in 1 .. Len(todo) : r \in todo[i].rows
<1>1. Days = {1, 2, 3}
  BY DEF Horizon, Days
<1>2. ChunksTo(s, rows, Nothing, 0)
  <2>1. \A r \in rows : r.time \in {1, 2, 3}
    BY <1>1 DEF Row
  <2>2. Nothing \in Seq(WriteSet) /\ 1 .. Len(Nothing) = {}
    BY DEF Nothing
  <2>3. \A r \in rows : ~(r.time <= 0)
    BY <2>1
  <2>4. InOrder(Nothing, s)
    BY <2>2 DEF InOrder
  <2> QED BY <2>2, <2>3, <2>4 DEF ChunksTo
<1>3. PICK a, b, f : a = EntsogDay(s, rows, 1) /\ b = EntsogDay(s, rows, 2) /\ f = EntsogDay(s, rows, 3)
  OBVIOUS
<1>4. ChunksTo(s, rows, Nothing \o a, 1)
  <2>1. 1 \in Days /\ 0 = 1 - 1
    BY <1>1
  <2> QED BY <1>2, <1>3, <2>1, ChunksGrow
<1>5. ChunksTo(s, rows, (Nothing \o a) \o b, 2)
  <2>1. 2 \in Days /\ 1 = 2 - 1
    BY <1>1
  <2> QED BY <1>3, <1>4, <2>1, ChunksGrow
<1>6. ChunksTo(s, rows, ((Nothing \o a) \o b) \o f, 3)
  <2>1. 3 \in Days /\ 2 = 3 - 1
    BY <1>1
  <2> QED BY <1>3, <1>5, <2>1, ChunksGrow
<1>7. EntsogWrites(s, rows) = ((Nothing \o EntsogDay(s, rows, 1)) \o EntsogDay(s, rows, 2)) \o EntsogDay(s, rows, 3)
  BY EntsogUnfolds
<1>8. todo = ((Nothing \o a) \o b) \o f
  BY <1>3, <1>7
<1>9. ChunksTo(s, rows, todo, 3)
  BY <1>6, <1>8, Zenon
<1>10. \A r \in rows : r.time <= 3
  BY <1>1 DEF Row
<1> QED BY <1>9, <1>10 DEF ChunksTo

(* What is written about an answer is in order, and where it passes a cell *)
(* that is missing, or comes with it, it has that cell before.             *)
LEMMA FollowAnswers ==
  ASSUME DailyInv, Timely, crawler \in Following, FollowFine, NEW s \in Series,
         NEW rows, rows = Answer(s, Window(s)), NEW todo, todo = Writes(s, rows)
  PROVE  /\ InOrder(todo, s)
         /\ crawler = "entsog" => \A i \in 1 .. Len(todo) : \A r \in todo[i].rows : ~Passed(table, Cell(r))
         /\ \A c \in Published \ beyond : ~Current(c) \/ Coming(todo, c) =>
              \A i \in 1 .. Len(todo) : Passed(todo[i].rows, c) => \E j \in 1 .. i : RowFor(todo[j].rows, c)
<1> USE DEF DailyInv
<1>1. /\ rows \in SUBSET Row
      /\ \A r \in rows : r.series = s /\ r.time \in Window(s) /\ r.rev = source[s][r.time]
      /\ \A t \in Window(s) : t <= now => \E r \in rows : Cell(r) = <<s, t>>
  BY WindowType, AnswerIs
<1>2. ASSUME NEW r \in rows, NEW c, Cell(r) = c PROVE RowFor(rows, c) /\ c[1] = s /\ c[2] = r.time
  BY <1>1, <1>2 DEF RowFor, Cell
<1>3. ASSUME NEW c \in Published \ beyond, NEW r \in rows, r.series = c[1], Passes(r.time, c[2]),
             ~Current(c) \/ \E q \in rows : Cell(q) = c
      PROVE  RowFor(rows, c)
  <2>1. CASE \E q \in rows : Cell(q) = c
    BY <1>2, <2>1
  <2>2. CASE ~Current(c)
    <3>1. c \in Series \X Days /\ c[1] = s /\ c[2] <= now /\ c = <<c[1], c[2]>>
      BY <1>1, <1>3, PublishedIs
    <3>2. ~Passed(table, c)
      BY <1>3, <2>2 DEF FollowFine
    <3>3. c[2] \in Window(s)
      <4>1. CASE crawler = "smard"
        BY <1>1, <1>3, <3>1, <3>2, <4>1, SmardReads
      <4>2. CASE crawler = "entsog"
        BY <3>1, <3>2, <4>2, EntsogReads
      <4> QED BY <4>1, <4>2 DEF Following
    <3>4. PICK q \in rows : Cell(q) = <<s, c[2]>>
      BY <1>1, <3>1, <3>3
    <3> QED BY <1>2, <3>1, <3>4
  <2> QED BY <1>3, <2>1, <2>2
<1>4. CASE crawler = "smard"
  <2>1. PICK V, w : V = Valued(rows) /\ w = Upsert(SmardKey, V)
    OBVIOUS
  <2>2. Writes(s, rows) = SmardWrites(rows)
    BY <1>4 DEF Writes
  <2>3. todo = <<>> \/ todo = <<w>>
    BY <2>1, <2>2 DEF SmardWrites, SmardSeries, SmardUpsert, Unless, Nothing
  <2>4. w.rows = V /\ w.clear = {} /\ w.optional = FALSE /\ V \subseteq rows
    BY <2>1 DEF Upsert, Write, Valued
  <2>5. \A i \in 1 .. Len(todo) : i = 1 /\ todo[i] = w
    <3>1. CASE todo = <<>>
      BY <3>1
    <3>2. CASE todo = <<w>>
      <4>1. Len(todo) = 1 /\ todo[1] = w
        BY <3>2
      <4> QED BY <4>1
    <3> QED BY <2>3, <3>1, <3>2
  <2>6. InOrder(todo, s)
    BY <1>1, <2>4, <2>5 DEF InOrder
  <2>7. ASSUME NEW c \in Published \ beyond, ~Current(c) \/ Coming(todo, c), NEW i \in 1 .. Len(todo),
               Passed(todo[i].rows, c)
        PROVE  \E j \in 1 .. i : RowFor(todo[j].rows, c)
    <3>1. ~Current(c) \/ \E q \in rows : Cell(q) = c
      BY <2>4, <2>5, <2>7 DEF Coming
    <3>2. PICK r \in rows : r.series = c[1] /\ Passes(r.time, c[2])
      BY <2>4, <2>5, <2>7 DEF Passed
    <3>3. RowFor(rows, c)
      BY <1>3, <3>1, <3>2
    <3>4. RowFor(V, c)
      BY <2>1, <3>3, RowForSome
    <3> QED BY <2>4, <2>5, <3>4
  <2> QED BY <1>4, <2>6, <2>7
<1>5. CASE crawler = "entsog"
  <2>1. Writes(s, rows) = EntsogWrites(s, rows)
    BY <1>5 DEF Writes
  <2>2. /\ InOrder(todo, s)
        /\ \A i \in 1 .. Len(todo) : \A r \in todo[i].rows : r \in rows
        /\ \A r \in rows : \E i \in 1 .. Len(todo) : r \in todo[i].rows
    BY <1>1, <1>5, <2>1, ChunksAre
  <2>3. ASSUME NEW i \in 1 .. Len(todo), NEW r \in todo[i].rows PROVE ~Passed(table, Cell(r))
    <3>1. Cell(r) = <<s, r.time>> /\ r.time \in Window(s)
      BY <1>1, <2>2 DEF Cell
    <3> QED BY <1>5, <3>1, EntsogReads
  <2>4. ASSUME NEW c \in Published \ beyond, ~Current(c) \/ Coming(todo, c), NEW i \in 1 .. Len(todo),
               Passed(todo[i].rows, c)
        PROVE  \E j \in 1 .. i : RowFor(todo[j].rows, c)
    <3>1. ~Current(c) \/ \E q \in rows : Cell(q) = c
      BY <2>2, <2>4 DEF Coming
    <3>2. PICK r \in todo[i].rows : r \in rows /\ r.series = c[1] /\ Passes(r.time, c[2])
      BY <2>2, <2>4 DEF Passed
    <3>3. RowFor(rows, c)
      BY <1>3, <3>1, <3>2
    <3>4. PICK q \in rows : Cell(q) = c /\ q.rev = source[c[1]][c[2]]
      BY <3>3 DEF RowFor
    <3>5. PICK k \in 1 .. Len(todo) : q \in todo[k].rows
      BY <2>2
    <3>6. r.time > c[2] + 1 /\ q.time = c[2] /\ q.time \in Int /\ r.time \in Int
      <4>1. q.time \in Days /\ r.time \in Days
        BY <1>1, <3>2 DEF Row
      <4>2. \A t \in Days : t \in Int
        BY DaysAre
      <4> QED BY <1>5, <3>2, <3>4, <4>1, <4>2 DEF Passes, Cell
    <3>7. ~(i < k)
      <4>1. i < k => r.time < q.time
        BY <2>2, <3>5 DEF InOrder
      <4> QED BY <3>6, <4>1
    <3>8. k \in 1 .. i
      BY <3>7
    <3> QED BY <3>4, <3>5, <3>8 DEF RowFor
  <2> QED BY <2>2, <2>3, <2>4
<1> QED BY <1>4, <1>5 DEF Following

(* A request is answered, and its transactions follow.                     *)
LEMMA FollowAsks ==
  ASSUME DailyInv, Timely, crawler \in Following, FollowFine, Ask
  PROVE  FollowFine'
<1> USE DEF DailyInv
<1>1. /\ run.step = "asking" /\ UNCHANGED <<crawler, now, source, table, ran, failures, beyond>>
      /\ Series' = Series /\ Days' = Days
  BY SameSets DEF Ask
<1>2. /\ run.series \in Series /\ run \in AnyRun /\ run.got = {} /\ ~RunOf.gathers
      /\ \A u \in Series : u \in Int
  BY <1>1, AskingIs, RunIs, RunOfIs DEF Facts, Following, Gatherers
<1>3. PICK s, rows : s = run.series /\ rows = Answer(s, run.windows[s])
  OBVIOUS
<1>4. Unasked(s) /\ run.windows[s] = Window(s)
  <2>1. Unasked(s)
    BY <1>1, <1>3 DEF Unasked
  <2> QED BY <1>2, <1>3, <2>1 DEF FollowFine
<1>5. PICK todo : todo = Writes(s, rows)
  OBVIOUS
<1>6. todo = Unless(RunOf.gathers /\ ~IsLast(s), Writes(s, rows))
  BY <1>2, <1>5 DEF Unless
<1>7. Answered(rows)
  <2>1. run.got \cup Answer(run.series, run.windows[run.series]) = rows
    BY <1>2, <1>3
  <2> QED BY <2>1 DEF Ask
<1>8. /\ todo # <<>> => /\ run'.step = "writing" /\ run'.series = s /\ run'.windows = run.windows
                        /\ run'.todo = todo
      /\ todo = <<>> /\ IsLast(s) => run' = Idle
      /\ todo = <<>> /\ ~IsLast(s) =>
              /\ run'.step = "asking" /\ run'.series = s + 1 /\ run'.windows = run.windows
              /\ run'.todo = <<>>
  BY <1>2, <1>3, <1>6, <1>7, AnsweredIs
<1>9. Idle.step = "idle" /\ Idle.todo = <<>>
  BY DEF Idle
<1>10. ASSUME NEW u \in Series, Unasked(u)' PROVE run'.windows[u] = Window(u)
  <2>1. run'.step # "idle"
    BY <1>10 DEF Unasked
  <2>2. run'.windows = run.windows /\ (\/ run'.step = "writing" /\ run'.series = s
                                       \/ run'.step = "asking" /\ run'.series = s + 1)
    BY <1>8, <1>9, <2>1
  <2>3. s < u
    BY <1>2, <1>3, <1>10, <2>2 DEF Unasked
  <2>4. Unasked(u)
    BY <1>1, <1>3, <2>3 DEF Unasked
  <2> QED BY <2>2, <2>4 DEF FollowFine
<1>11. CASE todo = <<>>
  <2>1. run'.todo = <<>>
    BY <1>8, <1>9, <1>11
  <2> QED BY <1>1, <1>10, <2>1, FollowEmpty
<1>12. CASE todo # <<>>
  <2>1. run'.todo = todo /\ run'.series = s
    BY <1>8, <1>12
  <2>2. /\ InOrder(todo, s)
        /\ crawler = "entsog" => \A i \in 1 .. Len(todo) : \A r \in todo[i].rows : ~Passed(table, Cell(r))
        /\ \A c \in Published \ beyond : ~Current(c) \/ Coming(todo, c) =>
             \A i \in 1 .. Len(todo) : Passed(todo[i].rows, c) => \E j \in 1 .. i : RowFor(todo[j].rows, c)
    BY <1>2, <1>3, <1>4, <1>5, FollowAnswers
  <2>3. \A c \in Published \ beyond : ~Current(c) => ~Passed(table, c)
    BY DEF FollowFine
  <2>4. \A c : Current(c)' <=> Current(c)
    BY <1>1 DEF Current, RowsOf, Cell
  <2>5. \A u : Window(u)' = Window(u)
    BY <1>1, SameReads DEF Stored
  <2> QED BY <1>1, <1>10, <2>1, <2>2, <2>3, <2>4, <2>5, FollowNext
<1> QED BY <1>11, <1>12

(* The transactions that are left after the first.                         *)
LEMMA TailReads ==
  ASSUME DailyInv, crawler \in Following, FollowFine, run.step = "writing",
         run' = Onward([run EXCEPT !.todo = Tail(@)]), NEW w, w = Head(run.todo), NEW t, t = run'.todo
  PROVE  /\ InOrder(t, run'.series)
         /\ \A i \in 1 .. Len(t) : \A r \in t[i].rows : /\ crawler = "entsog" => ~Passed(table, Cell(r))
                                                       /\ \A q \in w.rows : q.time < r.time
         /\ \A i \in 1 .. Len(t) : \A r \in t[i].rows : r.time \in Int
         /\ \A r \in w.rows : r.time \in Int
         /\ \A c \in Published \ beyond : ~RowFor(w.rows, c) /\ (~Current(c) \/ Coming(run.todo, c)) =>
              \A i \in 1 .. Len(t) : Passed(t[i].rows, c) => \E j \in 1 .. i : RowFor(t[j].rows, c)
         /\ \A c : Coming(t, c) => Coming(run.todo, c)
         /\ \A s \in Series : Unasked(s)' => Unasked(s) /\ s # run.series /\ run'.windows[s] = Window(s)
<1> USE DEF DailyInv
<1>1. PICK todo, n : todo = run.todo /\ n = Len(todo)
  OBVIOUS
<1>2. /\ n \in Nat \ {0} /\ w = todo[1] /\ InOrder(todo, run.series) /\ run.series \in Nat
  BY <1>1, WritingIs, SeriesAre DEF FollowFine, AnyRun
<1>3. /\ Len(t) = n - 1 /\ \A i \in 1 .. Len(t) : t[i] = todo[i + 1] /\ i + 1 \in 1 .. n
      /\ t # <<>> => run'.series = run.series
      /\ run'.step # "idle" => run'.windows = run.windows
      /\ run'.step = "writing" => run'.series = run.series
      /\ run'.step = "asking" => run'.series = run.series + 1
      /\ run'.step \in {"idle", "asking", "writing"}
  <2>1. PICK u : u = Tail(run.todo)
    OBVIOUS
  <2>2. /\ run'.step = "writing" => run'.todo = u /\ run'.series = run.series
        /\ run'.step \in {"idle", "asking", "writing"}
        /\ run'.step # "writing" => run'.todo = <<>>
        /\ u # <<>> => run'.step = "writing"
        /\ run'.step = "asking" => run'.series = run.series + 1
        /\ run'.step # "idle" => run'.windows = run.windows
        /\ Len(u) = Len(run.todo) - 1
        /\ \A i \in 1 .. Len(u) : u[i] = run.todo[i + 1] /\ i + 1 \in 1 .. Len(run.todo)
    BY <2>1, TailIs
  <2>3. t = u
    BY <2>2
  <2> QED BY <1>1, <2>2, <2>3
<1>4. InOrder(t, run'.series)
  <2>1. CASE t = <<>>
    <3>1. 1 .. Len(t) = {}
      BY <2>1
    <3> QED BY <3>1 DEF InOrder
  <2>2. CASE t # <<>>
    <3>1. ASSUME NEW i \in 1 .. Len(t)
          PROVE  /\ \A r \in t[i].rows : r.series = run.series
                 /\ t[i].optional => t[i].rows = {}
                 /\ \A c \in t[i].clear : /\ c[1] = run.series /\ i < Len(t) /\ t[i].rows = {} /\ crawler = "entsog"
                                          /\ \E r \in t[i + 1].rows : Cell(r) = c
      <4>1. PICK k : k = i + 1
        OBVIOUS
      <4>2. t[i] = todo[k] /\ k \in 1 .. n
        BY <1>3, <4>1
      <4>3. /\ \A r \in todo[k].rows : r.series = run.series
            /\ todo[k].optional => todo[k].rows = {}
        BY <1>1, <1>2, <4>2 DEF InOrder
      <4>4. ASSUME NEW c \in todo[k].clear
            PROVE  /\ c[1] = run.series /\ k < n /\ todo[k].rows = {} /\ crawler = "entsog"
                   /\ \E r \in todo[k + 1].rows : Cell(r) = c
        BY <1>1, <1>2, <4>2, <4>4 DEF InOrder
      <4>5. k < n => i < Len(t) /\ i + 1 \in 1 .. Len(t)
        BY <1>2, <1>3, <4>1
      <4>6. k < n => t[i + 1] = todo[k + 1]
        BY <1>3, <4>1, <4>5
      <4> QED BY <4>2, <4>3, <4>4, <4>5, <4>6
    <3>2. ASSUME NEW i \in 1 .. Len(t), NEW j \in 1 .. Len(t), i < j, NEW q \in t[i].rows, NEW r \in t[j].rows
          PROVE  q.time < r.time
      <4>1. /\ t[i] = todo[i + 1] /\ i + 1 \in 1 .. n /\ t[j] = todo[j + 1] /\ j + 1 \in 1 .. n
        BY <1>3
      <4>2. i + 1 < j + 1
        BY <3>2
      <4> QED BY <1>1, <1>2, <4>1, <4>2 DEF InOrder
    <3>3. InOrder(t, run.series)
      BY <3>1, <3>2 DEF InOrder
    <3>4. run'.series = run.series
      BY <1>3, <2>2
    <3> QED BY <3>3, <3>4
  <2> QED BY <2>1, <2>2
<1>5. ASSUME NEW i \in 1 .. Len(t), NEW r \in t[i].rows
      PROVE  (crawler = "entsog" => ~Passed(table, Cell(r))) /\ \A q \in w.rows : q.time < r.time
  <2>1. PICK k : k = i + 1
    OBVIOUS
  <2>2. t[i] = todo[k] /\ k \in 1 .. n
    BY <1>3, <2>1
  <2>3. i >= 1 /\ i \in Int
    OBVIOUS
  <2>4. 1 \in 1 .. n /\ 1 < k
    BY <1>2, <2>1, <2>3
  <2>5. crawler = "entsog" => ~Passed(table, Cell(r))
    BY <1>1, <2>2 DEF FollowFine
  <2>6. \A q \in todo[1].rows : q.time < r.time
    BY <1>1, <1>2, <2>2, <2>4 DEF InOrder
  <2> QED BY <1>2, <2>5, <2>6
<1>6. ASSUME NEW c \in Published \ beyond, ~RowFor(w.rows, c), ~Current(c) \/ Coming(run.todo, c),
             NEW i \in 1 .. Len(t), Passed(t[i].rows, c)
      PROVE  \E j \in 1 .. i : RowFor(t[j].rows, c)
  <2>1. PICK k : k = i + 1
    OBVIOUS
  <2>2. t[i] = todo[k] /\ k \in 1 .. n
    BY <1>3, <2>1
  <2>3. PICK m \in 1 .. k : RowFor(todo[m].rows, c)
    BY <1>1, <1>6, <2>2 DEF FollowFine
  <2>4. m # 1
    BY <1>2, <1>6, <2>3
  <2>5. PICK j : j = m - 1
    OBVIOUS
  <2>6. j \in 1 .. i /\ j \in 1 .. Len(t) /\ j + 1 = m
    BY <1>2, <1>3, <2>1, <2>2, <2>3, <2>4, <2>5
  <2>7. t[j] = todo[m]
    BY <1>3, <2>6
  <2> QED BY <2>3, <2>6, <2>7
<1>7. ASSUME NEW c, Coming(t, c) PROVE Coming(run.todo, c)
  <2>1. PICK i \in 1 .. Len(t) : \E r \in t[i].rows : Cell(r) = c
    BY <1>7 DEF Coming
  <2>2. t[i] = todo[i + 1] /\ i + 1 \in 1 .. n
    BY <1>3
  <2> QED BY <1>1, <2>1, <2>2 DEF Coming
<1>8. ASSUME NEW s \in Series, Unasked(s)' PROVE Unasked(s) /\ s # run.series /\ run'.windows[s] = Window(s)
  <2>1. s \in Nat
    BY SeriesAre
  <2>2. run.series < s
    BY <1>2, <1>3, <1>8, <2>1 DEF Unasked
  <2>3. Unasked(s)
    BY <2>2 DEF Unasked
  <2>4. run'.windows = run.windows
    BY <1>3, <1>8 DEF Unasked
  <2> QED BY <1>2, <2>1, <2>2, <2>3, <2>4 DEF FollowFine
<1>9. \A i \in 1 .. n : \A r \in todo[i].rows : r.time \in Int
  <2>1. \A i \in 1 .. n : todo[i] \in WriteSet
    BY <1>1, WritingIs
  <2>2. \A x \in WriteSet : \A r \in x.rows : r.time \in Days
    BY DEF WriteSet, Row
  <2>3. \A d \in Days : d \in Int
    BY DaysAre
  <2> QED BY <2>1, <2>2, <2>3
<1>10. /\ \A i \in 1 .. Len(t) : \A r \in t[i].rows : r.time \in Int
       /\ \A r \in w.rows : r.time \in Int
  <2>1. 1 \in 1 .. n
    BY <1>2
  <2> QED BY <1>2, <1>3, <1>9, <2>1
<1> QED BY <1>4, <1>5, <1>6, <1>7, <1>8, <1>10

(* A transaction of theirs fails: the run goes on only without a deletion. *)
LEMMA FollowCommitFails ==
  ASSUME DailyInv, crawler \in Following, FollowFine, CommitFails
  PROVE  FollowFine'
<1> USE DEF DailyInv
<1>1. run.step = "writing" /\ UNCHANGED <<crawler, now, source, table, beyond>>
  BY DEF CommitFails
<1>2. PICK w : w = Head(run.todo)
  OBVIOUS
<1>3. CASE ~w.optional
  <2>1. run' = Idle \/ \E ends \in BOOLEAN : Recover(ends)
    BY <1>2, <1>3 DEF CommitFails
  <2> QED BY <1>1, <2>1, FollowRecovers
<1>4. CASE w.optional
  <2>1. run' = Onward([run EXCEPT !.todo = Tail(@)])
    BY <1>2, <1>4 DEF CommitFails
  <2>2. w.rows = {}
    <3>1. w = run.todo[1] /\ 1 \in 1 .. Len(run.todo)
      BY <1>1, <1>2, WritingIs
    <3> QED BY <1>4, <3>1 DEF FollowFine, InOrder
  <2>3. PICK t : t = run'.todo
    OBVIOUS
  <2>4. /\ InOrder(t, run'.series)
        /\ \A i \in 1 .. Len(t) : \A r \in t[i].rows : crawler = "entsog" => ~Passed(table, Cell(r))
        /\ \A c \in Published \ beyond : ~RowFor(w.rows, c) /\ (~Current(c) \/ Coming(run.todo, c)) =>
             \A i \in 1 .. Len(t) : Passed(t[i].rows, c) => \E j \in 1 .. i : RowFor(t[j].rows, c)
        /\ \A c : Coming(t, c) => Coming(run.todo, c)
        /\ \A s \in Series : Unasked(s)' => run'.windows[s] = Window(s)
    BY <1>1, <1>2, <2>1, <2>3, TailReads
  <2>5. \A s : Window(s)' = Window(s)
    BY <1>1, SameReads DEF Stored
  <2>6. \A c : Current(c)' <=> Current(c)
    BY <1>1 DEF Current, RowsOf, Cell
  <2>7. \A c : ~RowFor(w.rows, c)
    BY <2>2 DEF RowFor
  <2>8. \A c \in Published \ beyond : ~Current(c) => ~Passed(table, c)
    BY DEF FollowFine
  <2> QED BY <1>1, <2>3, <2>4, <2>5, <2>6, <2>7, <2>8, FollowNext
<1> QED BY <1>3, <1>4

(* A transaction of theirs is committed: the newest row moves on.          *)
LEMMA FollowCommits ==
  ASSUME DailyInv, crawler \in Following, FollowFine, Commit
  PROVE  FollowFine'
<1> USE DEF DailyInv
<1>1. /\ run.step = "writing" /\ UNCHANGED <<crawler, now, source, beyond>>
      /\ run' = Onward([run EXCEPT !.todo = Tail(@)])
  BY DEF Commit
<1>2. PICK w, t, T : w = Head(run.todo) /\ t = run'.todo /\ T = table'
  OBVIOUS
<1>3. /\ w = run.todo[1] /\ 1 \in 1 .. Len(run.todo) /\ TodoFine(run.todo) /\ InOrder(run.todo, run.series)
  BY <1>1, <1>2, WritingIs DEF FollowFine
<1>4. w.report = "none"
  BY <1>3 DEF TodoFine, Following, Reporting
<1>5. /\ \A r \in table : \/ \E q \in T : Cell(q) = Cell(r) /\ q.rev >= r.rev
                          \/ crawler = "entsog" /\ Cell(r) \in w.clear
      /\ \A r \in w.rows : \E q \in T : Cell(q) = Cell(r) /\ q.rev = r.rev
      /\ \A q \in T : \E p \in table \cup w.rows : Cell(q) = Cell(p) /\ q.rev = p.rev
  <2>1. \A c : Wanted(c)
    BY DEF Wanted, Following
  <2> QED BY <1>1, <1>2, <1>4, <2>1, CommitTable
<1>6. /\ InOrder(t, run'.series)
      /\ \A i \in 1 .. Len(t) : \A r \in t[i].rows : /\ crawler = "entsog" => ~Passed(table, Cell(r))
                                                    /\ \A q \in w.rows : q.time < r.time
      /\ \A i \in 1 .. Len(t) : \A r \in t[i].rows : r.time \in Int
      /\ \A r \in w.rows : r.time \in Int
      /\ \A c \in Published \ beyond : ~RowFor(w.rows, c) /\ (~Current(c) \/ Coming(run.todo, c)) =>
           \A i \in 1 .. Len(t) : Passed(t[i].rows, c) => \E j \in 1 .. i : RowFor(t[j].rows, c)
      /\ \A c : Coming(t, c) => Coming(run.todo, c)
      /\ \A s \in Series : Unasked(s)' => Unasked(s) /\ s # run.series /\ run'.windows[s] = Window(s)
  BY <1>1, <1>2, TailReads
<1>7. ASSUME NEW s \in Series, Unasked(s)' PROVE run'.windows[s] = Window(s)'
  <2>1. s # run.series
    BY <1>6, <1>7
  <2>2. (\A r \in w.rows : r.series # s) /\ (\A c \in w.clear : c[1] # s)
    BY <1>3, <2>1 DEF InOrder
  <2>3. \A q \in T : q.series = s => \E p \in table : p.series = s /\ p.time = q.time
    BY <1>5, <2>2 DEF Cell
  <2>4. \A r \in table : r.series = s => \E q \in T : q.series = s /\ q.time = r.time
    BY <1>5, <2>2 DEF Cell
  <2>5. Stored({s})' = Stored({s})
    BY <1>2, <2>3, <2>4 DEF Stored
  <2> QED BY <1>1, <1>6, <1>7, <2>5, SameReads
<1>8. ASSUME crawler = "entsog", NEW i \in 1 .. Len(t), NEW r \in t[i].rows PROVE ~Passed(T, Cell(r))
  <2> SUFFICES ASSUME NEW q \in T, q.series = Cell(r)[1], Passes(q.time, Cell(r)[2]) PROVE FALSE
    BY DEF Passed
  <2>1. PICK p \in table \cup w.rows : p.series = q.series /\ p.time = q.time
    BY <1>5 DEF Cell
  <2>2. CASE p \in table
    BY <1>6, <1>8, <2>1, <2>2 DEF Passed
  <2>3. CASE p \in w.rows
    <3>1. p.time < r.time /\ p.time > r.time + 1
      BY <1>6, <1>8, <2>1, <2>3 DEF Passes, Cell
    <3>2. p.time \in Int /\ r.time \in Int
      BY <1>6, <1>8, <2>3
    <3> QED BY <3>1, <3>2
  <2> QED BY <2>1, <2>2, <2>3
<1>9. ASSUME NEW c \in Published \ beyond, ~Current(c)'
      PROVE  ~Passed(T, c) /\ ~RowFor(w.rows, c) /\ (~Current(c) \/ Coming(run.todo, c))
  <2>1. ~RowFor(w.rows, c)
    <3> SUFFICES ASSUME NEW r \in w.rows, Cell(r) = c, r.rev = source[c[1]][c[2]] PROVE FALSE
      BY DEF RowFor
    <3>1. PICK q \in T : Cell(q) = Cell(r) /\ q.rev = r.rev
      BY <1>5
    <3> QED BY <1>1, <1>2, <1>9, <3>1 DEF Current, RowsOf, Cell
  <2>2. CASE Current(c)
    <3>1. crawler = "entsog" /\ c \in w.clear
      <4>1. Missing(c)'
        <5>1. Published' = Published
          BY <1>1, SameSets DEF Published
        <5> QED BY <1>1, <1>9, <5>1 DEF Missing, Wanted, Following
      <4>2. ~Missing(c)
        BY <2>2 DEF Missing
      <4> QED BY <1>2, <4>1, <4>2, MissingBefore
    <3>2. w.rows = {} /\ 2 \in 1 .. Len(run.todo) /\ \E r \in run.todo[2].rows : Cell(r) = c
      <4>1. 1 < Len(run.todo) /\ w.rows = {} /\ \E r \in run.todo[1 + 1].rows : Cell(r) = c
        BY <1>3, <3>1 DEF InOrder
      <4>2. 1 + 1 = 2
        OBVIOUS
      <4> QED BY <1>1, <4>1, <4>2, WritingIs
    <3>3. Coming(run.todo, c) /\ ~Passed(table, c)
      BY <3>1, <3>2 DEF Coming, FollowFine
    <3>4. ~Passed(T, c)
      BY <1>5, <3>2, <3>3 DEF Passed, Cell
    <3> QED BY <2>1, <3>3, <3>4
  <2>3. CASE ~Current(c)
    <3>1. ~Passed(table, c)
      BY <2>3 DEF FollowFine
    <3>2. ~Passed(w.rows, c)
      <4> SUFFICES ASSUME Passed(w.rows, c) PROVE FALSE
        OBVIOUS
      <4>1. PICK j \in 1 .. 1 : RowFor(run.todo[j].rows, c)
        BY <1>3, <2>3 DEF FollowFine
      <4> QED BY <1>3, <2>1, <4>1
    <3>3. ~Passed(T, c)
      BY <1>5, <3>1, <3>2 DEF Passed, Cell
    <3> QED BY <2>1, <2>3, <3>3
  <2> QED BY <2>2, <2>3
<1>10. ASSUME NEW c \in Published \ beyond, ~Current(c)' \/ Coming(t, c),
              NEW i \in 1 .. Len(t), Passed(t[i].rows, c)
       PROVE  \E j \in 1 .. i : RowFor(t[j].rows, c)
  <2>1. CASE ~Current(c)'
    BY <1>6, <1>9, <1>10, <2>1
  <2>2. CASE Coming(t, c)
    <3>1. ~RowFor(w.rows, c)
      <4> SUFFICES ASSUME NEW q \in w.rows, Cell(q) = c PROVE FALSE
        BY DEF RowFor
      <4>1. PICK k \in 1 .. Len(t) : \E r \in t[k].rows : Cell(r) = c
        BY <2>2 DEF Coming
      <4>2. PICK r \in t[k].rows : Cell(r) = c /\ q.time < r.time /\ q.time = r.time
        BY <1>6, <4>1 DEF Cell
      <4>3. q.time \in Int
        BY <1>6
      <4> QED BY <4>2, <4>3
    <3> QED BY <1>6, <1>10, <2>2, <3>1
  <2> QED BY <1>10, <2>1, <2>2
<1> QED BY <1>1, <1>2, <1>6, <1>7, <1>8, <1>9, <1>10, FollowNext

(* What is published late or anew and promised is passed by no row.        *)
LEMMA FollowPublishes ==
  ASSUME DailyInv, Timely, crawler \in Following, FollowFine, NEW s \in Series, NEW t \in Days, Publish(s, t)
  PROVE  FollowFine'
<1> USE DEF DailyInv
<1>1. /\ UNCHANGED <<crawler, now, table, failures, ran, run>>
      /\ Series' = Series /\ Days' = Days
      /\ \A c \in Series \X Days : c # <<s, t>> =>
           source'[c[1]][c[2]] = source[c[1]][c[2]] /\ (c \in beyond' <=> c \in beyond)
      /\ <<s, t>> \notin beyond' => Promised(s, t)
  BY PublishIs
<1>2. /\ \A c : (Passed(table, c)' <=> Passed(table, c)) /\ (Coming(run.todo, c)' <=> Coming(run.todo, c))
      /\ \A i, c : Passed(run.todo[i].rows, c)' <=> Passed(run.todo[i].rows, c)
  BY <1>1 DEF Passed, Passes, LastOfWeek, Coming, Cell
<1>3. \A u : Window(u)' = Window(u)
  BY <1>1, SameReads DEF Stored
<1>4. \A u \in Series' : Unasked(u)' => run'.windows[u] = Window(u)'
  BY <1>1, <1>3 DEF FollowFine, Unasked
<1>5. InOrder(run.todo, run.series)'
  BY <1>1 DEF FollowFine, InOrder, Cell
<1>6. (crawler = "entsog" => \A i \in 1 .. Len(run.todo) : \A r \in run.todo[i].rows : ~Passed(table, Cell(r)))'
  BY <1>1, <1>2 DEF FollowFine, Cell
<1>7. ASSUME NEW c, c = <<s, t>>, Promised(s, t)
      PROVE  ~Passed(table, c) /\ \A i \in 1 .. Len(run.todo) : ~Passed(run.todo[i].rows, c)
  <2>1. ASSUME NEW r, r.series \in Series, r.time \in Days, r.rev \in Int, r.rev <= source[r.series][r.time],
               r.time <= NextRun - 1, crawler = "smard" => r.rev > 0, r.series = s, Passes(r.time, t)
        PROVE  FALSE
    <3>1. r.time \in Int /\ t \in Int /\ NextRun \in Int
      BY <2>1, Numbers
    <3>2. CASE crawler = "smard"
      <4>1. SmardPromised(s, t)
        BY <1>7, <3>2 DEF Promised, Snapshots
      <4>2. source[s][r.time] > 0
        <5>1. source[s][r.time] \in Int
          BY <2>1 DEF Facts
        <5> QED BY <2>1, <3>2, <5>1
      <4>3. r.time >= t \/ (LastOfWeek(t) /\ r.time = t - 1)
        BY <2>1, <3>2 DEF Passes
      <4> QED BY <2>1, <4>1, <4>2, <4>3 DEF SmardPromised
    <3>3. CASE crawler = "entsog"
      <4>1. t >= NextRun - 2
        BY <1>7, <3>3 DEF Promised, Snapshots, EntsogPromised
      <4>2. r.time > t + 1
        BY <2>1, <3>3 DEF Passes
      <4> QED BY <2>1, <3>1, <4>1, <4>2
    <3> QED BY <3>2, <3>3 DEF Following
  <2>2. NextRun = (IF ran THEN now + 1 ELSE now) /\ now \in Int /\ \A d \in Days : d \in Int
    BY Numbers
  <2>3. ASSUME NEW r \in table, r.series = s, Passes(r.time, t) PROVE FALSE
    <3>1. /\ r.series \in Series /\ r.time \in Days /\ r.rev \in 0 .. 2 /\ r.rev <= source[r.series][r.time]
          /\ r.time <= now /\ (crawler = "smard" => r.rev > 0) /\ r.time \in Int
      BY <2>2 DEF TableFine, Valuing
    <3>2. ~ran => r.time < now
      BY DEF Timely
    <3>3. r.time <= NextRun - 1
      BY <2>2, <3>1, <3>2
    <3> QED BY <2>1, <2>3, <3>1, <3>3
  <2>4. ASSUME NEW i \in 1 .. Len(run.todo), NEW r \in run.todo[i].rows, r.series = s, Passes(r.time, t) PROVE FALSE
    <3>1. run.step = "writing"
      BY <2>4, RunIs DEF Idle, Running, RunSet
    <3>2. TodoFine(run.todo) /\ run.todo[i] \in WriteSet /\ ran
      BY <3>1, WritingIs DEF Timely
    <3>3. r \in Row /\ Fresh(run.todo[i].rows) /\ HasValues(run.todo[i].rows)
      BY <3>2 DEF TodoFine, WriteSet
    <3>4. /\ r.series \in Series /\ r.time \in Days /\ r.rev \in 0 .. 2 /\ r.rev <= source[r.series][r.time]
          /\ r.time <= now /\ (crawler = "smard" => r.rev > 0) /\ r.time \in Int
      BY <2>2, <3>3 DEF Row, Fresh, HasValues, Valuing
    <3>5. r.time <= NextRun - 1
      BY <2>2, <3>2, <3>4
    <3> QED BY <2>1, <2>4, <3>4, <3>5
  <2>5. c[1] = s /\ c[2] = t
    BY <1>7
  <2> QED BY <2>3, <2>4, <2>5 DEF Passed
<1>8. ASSUME NEW c \in (Published \ beyond)'
      PROVE  /\ ~Current(c)' => ~Passed(table, c)'
             /\ ~Current(c)' \/ Coming(run.todo, c)' =>
                  \A i \in 1 .. Len(run'.todo) : Passed(run.todo[i].rows, c)' =>
                     \E j \in 1 .. i : RowFor(run.todo[j].rows, c)'
  <2>1. CASE c = <<s, t>>
    BY <1>1, <1>2, <1>7, <1>8, <2>1
  <2>2. CASE c # <<s, t>>
    <3>1. c \in Series \X Days /\ c \notin beyond' /\ source'[c[1]][c[2]] > 0
      BY <1>1, <1>8 DEF Published
    <3>2. source'[c[1]][c[2]] = source[c[1]][c[2]] /\ c \in Published \ beyond
      BY <1>1, <2>2, <3>1 DEF Published
    <3>3. Current(c)' <=> Current(c)
      BY <1>1, <3>2 DEF Current, RowsOf, Cell
    <3>4. \A i : RowFor(run.todo[i].rows, c)' <=> RowFor(run.todo[i].rows, c)
      BY <1>1, <3>2 DEF RowFor, Cell
    <3>5. /\ ~Current(c) => ~Passed(table, c)
          /\ ~Current(c) \/ Coming(run.todo, c) =>
               \A i \in 1 .. Len(run.todo) : Passed(run.todo[i].rows, c) =>
                  \E j \in 1 .. i : RowFor(run.todo[j].rows, c)
      BY <3>2 DEF FollowFine
    <3> QED BY <1>1, <1>2, <3>3, <3>4, <3>5
  <2> QED BY <2>1, <2>2
<1> QED BY <1>4, <1>5, <1>6, <1>8 DEF FollowFine

(* No row passes a new day that is promised.                               *)
LEMMA FollowNextDay ==
  ASSUME DailyInv, Timely, crawler \in Following, FollowFine, NEW late \in SUBSET Series, NextDay(late)
  PROVE  FollowFine'
<1> USE DEF DailyInv
<1>1. /\ run.step = "idle" /\ now' = now + 1 /\ now + 1 \in Days
      /\ UNCHANGED <<crawler, table, run>> /\ beyond \subseteq beyond'
      /\ Series' = Series /\ Days' = Days
      /\ \A s \in Series, t \in Days : t # now + 1 => source'[s][t] = source[s][t]
      /\ \A c \in Published' \ beyond' : c[2] = now + 1 => Promised(c[1], c[2])
  BY NextDayIs
<1>2. run = Idle /\ 1 .. Len(run'.todo) = {} /\ run'.step = "idle"
  BY <1>1, RunIs DEF Idle
<1>3. \A c : Passed(table, c)' <=> Passed(table, c)
  BY <1>1 DEF Passed, Passes, LastOfWeek
<1>4. InOrder(run.todo, run.series)'
  BY <1>2 DEF InOrder
<1>5. now \in Int /\ \A d \in Days : d \in Int
  BY Numbers
<1>6. ASSUME NEW c \in (Published \ beyond)', ~Current(c)' PROVE ~Passed(table, c)
  <2>1. c \in Series \X Days /\ c[1] \in Series /\ c[2] \in Days
    BY <1>1, <1>6 DEF Published
  <2>2. CASE c[2] # now + 1
    <3>1. source'[c[1]][c[2]] = source[c[1]][c[2]]
      BY <1>1, <2>1, <2>2
    <3>2. c \in Published \ beyond
      BY <1>1, <1>6, <2>1, <3>1 DEF Published
    <3>3. ~Current(c)
      BY <1>1, <1>6, <3>1 DEF Current, RowsOf, Cell
    <3> QED BY <3>2, <3>3 DEF FollowFine
  <2>3. CASE c[2] = now + 1
    <3> SUFFICES ASSUME NEW r \in table, r.series = c[1], Passes(r.time, c[2]) PROVE FALSE
      BY DEF Passed
    <3>1. r.time \in Days /\ r.time <= now /\ r.rev <= source[r.series][r.time] /\ r.rev \in 0 .. 2
          /\ (crawler = "smard" => r.rev > 0)
      BY DEF TableFine, Valuing
    <3>2. CASE crawler = "smard"
      <4>1. LastOfWeek(c[2]) /\ r.time = c[2] - 1
        BY <1>5, <2>3, <3>1, <3>2 DEF Passes
      <4>2. SmardPromised(c[1], c[2])
        BY <1>1, <1>6, <2>3, <3>2 DEF Promised, Snapshots
      <4>3. source[c[1]][c[2] - 1] = 0
        BY <4>1, <4>2 DEF SmardPromised
      <4> QED BY <3>1, <3>2, <4>1, <4>3
    <3>3. CASE crawler = "entsog"
      BY <1>5, <2>3, <3>1, <3>3 DEF Passes
    <3> QED BY <3>2, <3>3 DEF Following
  <2> QED BY <2>2, <2>3
<1>7. \A s \in Series' : ~Unasked(s)'
  BY <1>2 DEF Unasked
<1> QED BY <1>2, <1>3, <1>4, <1>6, <1>7 DEF FollowFine

(* Every step keeps what is missing ahead of the newest row.               *)
LEMMA FollowStays ==
  ASSUME DailyInv, Timely, crawler \in Following, FollowFine, Next
  PROVE  FollowFine'
<1>1. CASE Begin
  BY <1>1, FollowBegins
<1>2. CASE Run
  BY <1>2, FollowAsks, FollowAskFails, FollowCommits, FollowCommitFails, FollowDies DEF Run
<1>3. CASE \E late \in SUBSET Series : NextDay(late)
  BY <1>3, FollowNextDay
<1>4. CASE \E s \in Series, t \in Days : Publish(s, t)
  BY <1>4, FollowPublishes
<1> QED BY <1>1, <1>2, <1>3, <1>4 DEF Next

-----------------------------------------------------------------------------
(* The files of regelleistung that are promised are the listed ones.       *)
LEMMA ListedStays ==
  ASSUME DailyInv, Timely, crawler = "regelleistung", Listed, Next
  PROVE  Listed'
<1> USE DEF DailyInv
<1>1. crawler' = crawler
  BY DEF Next, Run, Begin, Ask, AskFails, Commit, CommitFails, Die, NextDay, Publish
<1>2. Series' = Series /\ Days' = Days /\ RegelFiles' = RegelFiles
  BY <1>1, SameSets DEF RegelFiles
<1>3. \A s, t : Promised(s, t) <=> s \in RegelFiles
  BY DEF Promised, Snapshots
<1>4. CASE UNCHANGED <<source, beyond>>
  BY <1>2, <1>4 DEF Listed, Published
<1>5. CASE \E late \in SUBSET Series : NextDay(late)
  <2>1. PICK late \in SUBSET Series : NextDay(late)
    BY <1>5
  <2>2. /\ beyond \subseteq beyond'
        /\ \A s \in Series, t \in Days : t # now + 1 => source'[s][t] = source[s][t]
        /\ \A c \in Published' \ beyond' : c[2] = now + 1 => Promised(c[1], c[2])
    BY <2>1, NextDayIs
  <2>3. ASSUME NEW c \in (Published \ beyond)' PROVE c[1] \in RegelFiles
    <3>1. CASE c[2] = now + 1
      BY <1>3, <2>2, <2>3, <3>1
    <3>2. CASE c[2] # now + 1
      <4>1. c \in Series \X Days /\ source'[c[1]][c[2]] > 0
        BY <1>2, <2>3 DEF Published
      <4>2. source'[c[1]][c[2]] = source[c[1]][c[2]]
        BY <2>2, <3>2, <4>1
      <4>3. c \in Published \ beyond
        BY <2>2, <2>3, <4>1, <4>2 DEF Published
      <4> QED BY <4>3 DEF Listed
    <3> QED BY <3>1, <3>2
  <2> QED BY <1>2, <2>3 DEF Listed
<1>6. CASE \E s \in Series, t \in Days : Publish(s, t)
  <2>1. PICK s \in Series, t \in Days : Publish(s, t)
    BY <1>6
  <2>2. /\ \A c \in Series \X Days : c # <<s, t>> =>
              source'[c[1]][c[2]] = source[c[1]][c[2]] /\ (c \in beyond' <=> c \in beyond)
        /\ <<s, t>> \notin beyond' => Promised(s, t)
    BY <2>1, PublishIs
  <2>3. ASSUME NEW c \in (Published \ beyond)' PROVE c[1] \in RegelFiles
    <3>1. c \in Series \X Days /\ source'[c[1]][c[2]] > 0 /\ c \notin beyond'
      BY <1>2, <2>3 DEF Published
    <3>2. CASE c = <<s, t>>
      BY <1>3, <2>2, <3>1, <3>2
    <3>3. CASE c # <<s, t>>
      <4>1. c \in Published \ beyond
        BY <2>2, <3>1, <3>3 DEF Published
      <4> QED BY <4>1 DEF Listed
    <3> QED BY <3>2, <3>3
  <2> QED BY <1>2, <2>3 DEF Listed
<1>7. Begin \/ Run => UNCHANGED <<source, beyond>>
  BY DEF Run, Begin, Ask, AskFails, Commit, CommitFails, Die
<1> QED BY <1>4, <1>5, <1>6, <1>7 DEF Next

-----------------------------------------------------------------------------
(* All of it holds at first, and every step keeps it.                      *)
LEMMA ReachInit == Init => ReachInv
<1> SUFFICES ASSUME Init PROVE ReachInv
  OBVIOUS
<1>1. Facts
  BY InitFine DEF DailyInv
<1>2. /\ now = 1 /\ source = [s \in Series |-> [t \in Days |-> IF t = 1 THEN 1 ELSE 0]]
      /\ table = {} /\ failures = 0 /\ ran = FALSE /\ run = Idle
      /\ beyond = {c \in Series \X {1} : ~Promised(c[1], c[2])}
  BY DEF Init
<1>3. Timely
  <2>1. \A t \in Days : t > 1 => t # 1
    OBVIOUS
  <2>2. MaxFailures \in Nat
    BY TablesAssumption
  <2> QED BY <1>2, <2>1, <2>2 DEF Timely, Idle
<1>4. ASSUME NEW c \in Published \ beyond PROVE c \in Series \X Days /\ Promised(c[1], c[2])
  <2>1. c \in Series \X Days /\ source[c[1]][c[2]] > 0
    BY DEF Published
  <2>2. c[1] \in Series /\ c[2] \in Days /\ c = <<c[1], c[2]>>
    BY <2>1
  <2>3. c[2] = 1
    BY <1>2, <2>1, <2>2
  <2>4. c \in Series \X {1}
    BY <2>2, <2>3
  <2> QED BY <1>2, <2>1, <2>4
<1>5. ASSUME crawler = "regelleistung" PROVE Listed
  <2>1. \A s, t : Promised(s, t) <=> s \in RegelFiles
    BY <1>5 DEF Promised, Snapshots
  <2> QED BY <1>4, <2>1 DEF Listed
<1>6. ASSUME crawler \in Sliding PROVE SlideFine
  <2> SUFFICES ASSUME NEW c \in Series \X Days, Missing(c) PROVE Due(c)
    BY DEF SlideFine
  <2>1. Promised(c[1], c[2]) /\ c[1] \in Series /\ c[2] \in Days /\ c = <<c[1], c[2]>>
    BY <1>4 DEF Missing
  <2> QED BY <1>1, <1>3, <1>6, <2>1, PromisedIsDue
<1>7. FollowFine
  <2>1. 1 .. Len(run.todo) = {} /\ run.step = "idle"
    BY <1>2 DEF Idle
  <2> QED BY <1>2, <2>1 DEF FollowFine, InOrder, Unasked, Passed
<1> QED BY <1>3, <1>5, <1>6, <1>7 DEF ReachInv

(* Each step preserves it.                                                 *)
LEMMA ReachStep == DailyInv /\ ReachInv /\ [Next]_vars => ReachInv'
<1> SUFFICES ASSUME DailyInv, ReachInv, [Next]_vars PROVE ReachInv'
  OBVIOUS
<1>1. Timely
  BY DEF ReachInv
<1>2. CASE Next
  <2>1. DailyInv'
    BY StepFine
  <2>2. crawler' = crawler
    BY <1>2 DEF Next, Run, Begin, Ask, AskFails, Commit, CommitFails, Die, NextDay, Publish
  <2>3. Timely'
    BY <1>1, <1>2, <2>1, TimelyStays
  <2>4. crawler = "regelleistung" => Listed'
    BY <1>1, <1>2, ListedStays DEF ReachInv
  <2>5. crawler \in Sliding => SlideFine'
    BY <1>1, <1>2, SlideStays DEF ReachInv
  <2>6. crawler \in Following => FollowFine'
    BY <1>1, <1>2, FollowStays DEF ReachInv
  <2> QED BY <2>2, <2>3, <2>4, <2>5, <2>6 DEF ReachInv, Sliding, Following
<1>3. CASE UNCHANGED vars
  <2>1. UNCHANGED <<crawler, now, source, table, failures, ran, run, beyond>>
    BY <1>3 DEF vars
  <2>2. Series' = Series /\ Days' = Days /\ Published' = Published
    BY <2>1, SameSets DEF Published
  <2>3. Timely'
    BY <1>1, <2>1, <2>2 DEF Timely
  <2>4. crawler = "regelleistung" => Listed'
    BY <2>1, <2>2 DEF ReachInv, Listed, RegelFiles
  <2>5. ASSUME crawler \in Sliding PROVE SlideFine'
    <3>1. \A c : Missing(c)' <=> Missing(c)
      BY <2>1, SameMissing
    <3>2. \A c : (Due(c)' <=> Due(c)) /\ (InTime(c)' <=> InTime(c))
      BY <2>1 DEF Due, InTime, FailuresLeft, NextRun, Slack
    <3>3. \A c : InHand(c)' <=> InHand(c)
      BY <2>1 DEF InHand, Unasked, RowFor, Holds, Cell
    <3> QED BY <2>2, <2>5, <3>1, <3>2, <3>3 DEF ReachInv, SlideFine
  <2>6. ASSUME crawler \in Following PROVE FollowFine'
    <3>1. FollowFine
      BY <2>6 DEF ReachInv
    <3>2. PICK t, T : t = run.todo /\ T = table
      OBVIOUS
    <3>3. \A s : Window(s)' = Window(s) /\ (Unasked(s)' <=> Unasked(s))
      BY <2>1, <2>6, SameReads DEF Stored, Unasked
    <3>4. \A c : Current(c)' <=> Current(c)
      BY <2>1 DEF Current, RowsOf, Cell
    <3>5. /\ InOrder(t, run.series)
          /\ crawler = "entsog" => \A i \in 1 .. Len(t) : \A r \in t[i].rows : ~Passed(T, Cell(r))
          /\ \A s \in Series : Unasked(s) => run.windows[s] = Window(s)
          /\ \A c \in Published \ beyond :
               /\ ~Current(c) => ~Passed(T, c)
               /\ ~Current(c) \/ Coming(t, c) =>
                    \A i \in 1 .. Len(t) : Passed(t[i].rows, c) => \E j \in 1 .. i : RowFor(t[j].rows, c)
      BY <3>1, <3>2 DEF FollowFine
    <3>6. UNCHANGED <<crawler, now, source, beyond>> /\ t = run'.todo /\ T = table' /\ run' = run
      BY <2>1, <3>2
    <3> QED BY <2>6, <3>3, <3>4, <3>5, <3>6, FollowNext
  <2> QED BY <2>1, <2>3, <2>4, <2>5, <2>6 DEF ReachInv, Sliding, Following
<1> QED BY <1>2, <1>3

(* It puts within reach what is missing.                                   *)
LEMMA ReachGives == DailyInv /\ ReachInv => MissingWithinReach
<1> SUFFICES ASSUME DailyInv, ReachInv, run.step = "idle", NEW c \in Series \X Days, Missing(c)
             PROVE  \E t \in Window(c[1]) : t <= c[2]
  BY DEF MissingWithinReach
<1> USE DEF DailyInv
<1>1. Timely
  BY DEF ReachInv
<1>2. c \in Published \ beyond /\ ~Current(c) /\ Wanted(c)
  BY DEF Missing
<1>3. /\ c[1] \in Series /\ c[2] \in Days /\ c[2] <= now /\ c[2] \in Int /\ now \in Int
      /\ \A t \in Days : t <= t
  BY <1>1, <1>2, PublishedIs, Numbers
<1>4. CASE crawler \in Snapshots \cup {"regelleistung", "eia"}
  <2>1. ASSUME crawler \in Snapshots PROVE c[2] \in Window(c[1])
    BY <1>3, <2>1, WindowIs DEF Snapshots
  <2>2. ASSUME crawler = "regelleistung" PROVE c[2] \in Window(c[1])
    <3>1. c[1] \in RegelFiles
      BY <1>2, <2>2 DEF ReachInv, Listed
    <3> QED BY <1>3, <2>2, <3>1, WindowIs DEF RegelWindow
  <2>3. ASSUME crawler = "eia" PROVE c[2] \in Window(c[1])
    BY <1>2, <1>3, <2>3, WindowIs DEF Wanted, DateWindow
  <2> QED BY <1>3, <1>4, <2>1, <2>2, <2>3
<1>5. CASE crawler \in Sliding
  <2>1. ~InHand(c)
    BY DEF InHand, Unasked
  <2>2. Due(c)
    BY <1>5, <2>1 DEF ReachInv, SlideFine
  <2>3. c[2] \in Window(c[1])
    BY <1>1, <1>2, <1>5, <2>2, WindowHoldsDue
  <2> QED BY <1>3, <2>3
<1>6. CASE crawler \in Following
  <2>1. ~Passed(table, c)
    BY <1>2, <1>6 DEF ReachInv, FollowFine
  <2>2. CASE crawler = "smard"
    BY <2>1, <2>2, SmardReads
  <2>3. CASE crawler = "entsog"
    <3>1. c[2] \in Window(c[1])
      BY <1>1, <1>2, <1>3, <2>1, <2>3, EntsogReads
    <3> QED BY <1>3, <3>1
  <2> QED BY <1>6, <2>2, <2>3 DEF Following
<1>7. crawler \in AllCrawlers
  BY DEF Facts
<1> QED BY <1>4, <1>5, <1>6, <1>7 DEF AllCrawlers, Snapshots, Sliding, Following

(* Between runs, whatever a run that failed, was killed or came too early  *)
(* for has left out is within reach of a run that starts now: no crawler's *)
(* start, be it a fixed number of days back or the newest row that it has, *)
(* passes a cell that a run was bound to fetch and that is not stored.     *)
THEOREM WithinReach == Spec => []MissingWithinReach
<1>1. Init => ReachInv
  BY ReachInit
<1>2. DailyInv /\ ReachInv /\ [Next]_vars => ReachInv'
  BY ReachStep
<1>3. DailyInv /\ ReachInv => MissingWithinReach
  BY ReachGives
<1> QED BY <1>1, <1>2, <1>3, DailyInvariant, PTL DEF Spec
=============================================================================
