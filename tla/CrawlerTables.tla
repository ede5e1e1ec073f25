---------------------------- MODULE CrawlerTables ----------------------------
(***************************************************************************)
(* What the crawlers under src/crawler have in common: time series that a  *)
(* service publishes day by day, a table that holds them, and the          *)
(* transactions a run writes.  A cell is one day of one series (a price    *)
(* area, an endpoint, a file); a row of it carries the revision that the   *)
(* service had when it was fetched.                                        *)
(***************************************************************************)
EXTENDS Integers, Sequences, FiniteSets

CONSTANTS
  NSeries,      \* the series of a crawler, asked for in this order
  LookBack,     \* days before today that a run asks for again
  MaxFiles,     \* of regelleistung: max_files_per_run
  MaxFailures,  \* bound on the steps that fail or end the process
  MaxUpdates    \* bound on the late and the revised cells

ASSUME TablesAssumption ==
  /\ NSeries \in Nat \ {0}
  /\ {LookBack, MaxFiles, MaxFailures, MaxUpdates} \subseteq Nat

VARIABLES
  crawler,
  now,        \* the day
  source,     \* the newest revision of each published cell, 0 for none
  table,      \* the rows of the tables
  reports,    \* the row that reports on each request, if any
  failures,
  ran         \* a run has begun today

Series  == 1 .. (IF crawler \in {"copernicus", "energy_forecast"} THEN 1 ELSE NSeries)
Horizon == IF crawler = "smard" THEN 4 ELSE 3
Days    == 1 .. Horizon
Row     == [series : Series, time : Days, rev : 0 .. 2, at : 0 .. Horizon, copy : Nat]

Requests == Series \X (0 .. Horizon)

MaxOf(S) == CHOOSE x \in S : \A y \in S : y <= x
MinOf(S) == CHOOSE x \in S : \A y \in S : x <= y
AtLeast(x, y) == IF x < y THEN y ELSE x

Cell(r)       == <<r.series, r.time>>
Published     == {c \in Series \X Days : source[c[1]][c[2]] > 0}
RowsOf(c)     == {r \in table : Cell(r) = c}
Current(c)    == \E r \in RowsOf(c) : r.rev = source[c[1]][c[2]]
Stored(S)     == {r.time : r \in {q \in table : q.series \in S}}

(* What the service answers for some days of a series: up to today also    *)
(* the days that have no value yet, as rows without one, of revision 0.    *)
Answer(s, window) ==
  {[series |-> s, time |-> t, rev |-> source[s][t], at |-> 0, copy |-> 1] :
     t \in {d \in window : d <= now}}

Valued(rows) == {r \in rows : r.rev > 0}

-----------------------------------------------------------------------------
(* A transaction deletes the rows of some cells and inserts rows.  A row   *)
(* whose key is taken is an error or, with ON CONFLICT DO UPDATE, replaces *)
(* the other.  An optional transaction is one whose exception is swallowed.*)
Write(clear, key, update, rows) ==
  [clear |-> clear, key |-> key, update |-> update, rows |-> rows,
   optional |-> FALSE, report |-> "none"]

Upsert(key, rows)         == Write({}, key, TRUE, rows)
Replace(clear, key, rows) == Write(clear, key, FALSE, rows)
Try(write)                == [write EXCEPT !.optional = TRUE]

(* The row of a status table about a request, and the rows it reports on.  *)
Report(state, rows) == [Write({}, {}, TRUE, rows) EXCEPT !.report = state]

SameKey(key, q, r) == key # {} /\ \A k \in key : q[k] = r[k]
Kept(w)            == {r \in table : Cell(r) \notin w.clear}
Taken(w, r)        == {q \in Kept(w) : SameKey(w.key, q, r)}
Rejected(w)        == ~w.update /\ \E r \in w.rows : Taken(w, r) # {}

(* The copies in a table without a key are told apart by a number.         *)
Numbered(w, r) ==
  IF w.key # {} THEN r
  ELSE [r EXCEPT !.copy = 1 + Cardinality({q \in Kept(w) : Cell(q) = Cell(r)})]

Inserted(w) == (Kept(w) \ UNION {Taken(w, r) : r \in w.rows})
                 \cup {Numbered(w, r) : r \in w.rows}

Nothing == <<>>
Unless(none, writes) == IF none THEN Nothing ELSE writes

(* What a run does about an exception while it makes a request, and about  *)
(* one of a transaction; and whether it writes after the last request.     *)
RunsWith(gathers, onRequest, onWrite) ==
  [gathers |-> gathers, onRequest |-> onRequest, onWrite |-> onWrite]

-----------------------------------------------------------------------------
(* The first day whose run is sure to begin from here, and the failures    *)
(* that may still hit it and the runs after it.                            *)
NextRun      == IF ran THEN now + 1 ELSE now
FailuresLeft == MaxFailures - failures

(* Cells that runs with a window of LookBack days are bound to fetch.      *)
InWindowDespiteFailures(t) == t >= NextRun + FailuresLeft - LookBack
=============================================================================
