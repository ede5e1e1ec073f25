----------------------------- MODULE CrawlSmard -----------------------------
(***************************************************************************)
(* crawler/smard.py: a file per commodity and week, read from the newest   *)
(* row of the commodity on.  A week has three times here: one before       *)
(* Sunday, one on Sunday that is not a quarter to the hour, and 21:45 on   *)
(* Sunday, the last of the week's file.                                    *)
(***************************************************************************)
EXTENDS CrawlerTables

SmardKey == {"series", "time"}

Week(t)        == (t - 1) \div 3
WeekFile(w)    == {t \in Days : Week(t) = w}
OnSunday(t)    == (t - 1) % 3 > 0
LastOfWeek(t)  == (t - 1) % 3 = 2

SmardLatest(s) == IF Stored({s}) = {} THEN 0 ELSE MaxOf(Stored({s}))

(* weekday() != 6 or (hour < 21 and minute == 45): any other time of a     *)
(* Sunday starts with the file of the next week.                           *)
SmardFile(latest) ==
  IF latest = 0 THEN WeekFile(0)
  ELSE IF ~OnSunday(latest) THEN WeekFile(Week(latest))
  ELSE WeekFile(Week(latest) + 1)

SmardWindow(s) == {t \in SmardFile(SmardLatest(s)) : t > SmardLatest(s)}

(* For mutation: keeps the days without a value.                           *)
SmardSeriesWithGaps(rows) == rows

(* The file lists the week to its end, without values for what is to come. *)
SmardSeries(rows) == Valued(rows)

SmardUpsert(rows) == <<Upsert(SmardKey, rows)>>

SmardWrites(rows) == Unless(SmardSeries(rows) = {}, SmardUpsert(SmardSeries(rows)))

(* An HTTP error is logged, any other exception ends the run.              *)
SmardRun == RunsWith(FALSE, {"skip", "abort"}, "abort")

(* A row is fetched once, in the order of time; the last of a week may be  *)
(* passed over by a run that has read the start of its Sunday; and a week  *)
(* is left only from its Sunday.                                           *)
SmardPromised(s, t) ==
  /\ \A u \in Days : u >= t => source[s][u] = 0
  /\ LastOfWeek(t) => source[s][t - 1] = 0
  /\ \A w \in 0 .. Week(t) - 1 : \E u \in WeekFile(w) : OnSunday(u) /\ source[s][u] > 0
=============================================================================
