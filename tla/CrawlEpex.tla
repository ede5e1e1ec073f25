------------------------------ MODULE CrawlEpex ------------------------------
(***************************************************************************)
(* crawler/epex_spot.py: files of a day on an SFTP server.  The intraday   *)
(* auctions, "epex_ida", share a table, and so the time from which their   *)
(* files are read again; the continuous datasets, "epex", have a table     *)
(* each.                                                                   *)
(***************************************************************************)
EXTENDS CrawlerTables

EpexKey == {"series", "time"}

EpexConfiguredStart == 1
EpexInterval        == LookBack

(* The series that share the table of a series.                            *)
EpexTable(s) == IF crawler = "epex_ida" THEN Series ELSE {s}

EpexLatest(s) == IF Stored(EpexTable(s)) = {} THEN 0 ELSE MaxOf(Stored(EpexTable(s)))

(* For mutation: reads on from the newest row.                             *)
EpexStartAtLatest(s) ==
  IF EpexLatest(s) = 0 THEN EpexConfiguredStart ELSE EpexLatest(s)

EpexStart(s) ==
  IF EpexLatest(s) = 0 THEN EpexConfiguredStart
  ELSE AtLeast(EpexConfiguredStart, EpexLatest(s) - EpexInterval)

EpexPeriodEnd(d) == d + 1

EpexFiles(start) == {d \in Days : EpexPeriodEnd(d) >= start}

EpexWindow(s) == {d \in EpexFiles(EpexStart(s)) : d >= EpexStart(s)}

(* The auctions' parser leaves out values that are missing, the others     *)
(* keep the row.                                                           *)
EpexAuction(rows) == Valued(rows)
EpexParsed(rows)  == IF crawler = "epex_ida" THEN EpexAuction(rows) ELSE rows

EpexUpsert(rows) == Unless(rows = {}, <<Upsert(EpexKey, rows)>>)

(* A file after the other, in the order of their names.                    *)
EpexWrites(rows) ==
  LET import[d \in 0 .. Horizon] ==
        IF d = 0 THEN Nothing
        ELSE import[d - 1] \o EpexUpsert(EpexParsed({r \in rows : r.time = d}))
  IN  import[Horizon]

EpexRun == RunsWith(FALSE, {"abort"}, "abort")

(* A run that fails half-way can move the start to today.                  *)
EpexPromised(t) == t >= NextRun - 1 + FailuresLeft - EpexInterval

-----------------------------------------------------------------------------
(* The labels of an auction's columns name hours of the local day, of      *)
(* which the third is missing on the day the clocks go forward and there   *)
(* twice, as A and B, when they go back.  Here a day has five hours.       *)
LocalDays == {"normal", "forward", "back"}
Length(day) == CASE day = "normal" -> 5 [] day = "forward" -> 4 [] day = "back" -> 6

IdaLabels(day) ==
  CASE day = "normal"  -> (1 .. 5) \X {""}
    [] day = "forward" -> ((1 .. 5) \ {3}) \X {""}
    [] day = "back"    -> (((1 .. 5) \ {3}) \X {""}) \cup ({3} \X {"A", "B"})

NoTime == -1

(* The hour of the day, of those that really pass, at a local hour.  One   *)
(* that comes twice is the first if "ambiguous", and an error by default.  *)
Localized(day, local, ambiguous) ==
  IF local < 2 \/ day = "normal" THEN {local}
  ELSE IF day = "forward" THEN IF local = 2 THEN {NoTime} ELSE {local - 1}
  ELSE IF local > 2 THEN {local + 1}
  ELSE CASE ambiguous = "first" -> {2} [] ambiguous = "second" -> {3} [] OTHER -> {}

(* For mutation: takes no notice of A and B.                               *)
DeliveryStartUnlabelled(day, label) ==
  LET found == Localized(day, label[1] - 1, "raise")
  IN  CHOOSE hour \in (IF found = {} THEN Localized(day, label[1] - 1, "first") ELSE found) : TRUE

DeliveryStart(day, label) ==
  LET local == label[1] - 1
      asked == CASE label[2] = "A" -> "first" [] label[2] = "B" -> "second" [] OTHER -> "raise"
      found == Localized(day, local, asked)
  IN  CHOOSE hour \in (IF found = {} THEN Localized(day, local, "first") ELSE found) : TRUE

(* The labels of every day stand for its hours, one for each: two for one  *)
(* hour would make the INSERT of the file fail.                            *)
LabelsNameHours ==
  crawler = "epex_ida" => \A day \in LocalDays :
    /\ {DeliveryStart(day, l) : l \in IdaLabels(day)} = 0 .. Length(day) - 1
    /\ \A k, l \in IdaLabels(day) : DeliveryStart(day, k) = DeliveryStart(day, l) => k = l
=============================================================================
