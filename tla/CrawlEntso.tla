------------------------------ MODULE CrawlEntso ------------------------------
(***************************************************************************)
(* crawler/entsoe_api.py, a query and a transaction per dataset, and       *)
(* crawler/entsog.py, a query and two transactions per day of an indicator.*)
(***************************************************************************)
EXTENDS CrawlerTables

EntsoeKey == {"series", "time"}

(* Without a configured start date.                                        *)
EntsoeQueryWindow == {t \in Days : t >= now - LookBack /\ t < now + 2}

EntsoeFrame(rows) == Valued(rows)

EntsoeUpsert(rows) == Unless(rows = {}, <<Upsert(EntsoeKey, rows)>>)

EntsoeWrites(rows) == EntsoeUpsert(EntsoeFrame(rows))

(* No matching data is an empty answer, any other exception ends the run.  *)
EntsoeRun == RunsWith(FALSE, {"abort"}, "abort")

-----------------------------------------------------------------------------
EntsogInitialStart == 1

EntsogExistingStart(s) ==
  IF Stored({s}) = {} THEN EntsogInitialStart
  ELSE AtLeast(EntsogInitialStart, MaxOf(Stored({s})) - 1)

(* The end of the last chunk, tomorrow, is excluded.                       *)
EntsogWindow(s) == {t \in Days : EntsogExistingStart(s) <= t /\ t < now + 1}

EntsogDeleteChunk(s, t) == Try(Write({<<s, t>>}, {}, FALSE, {}))

(* For mutation: the chunk is appended.                                    *)
EntsogChunkAppended(s, t, rows) == Unless(rows = {}, <<Replace({}, {}, rows)>>)

(* A chunk without rows is left as it is.                                  *)
EntsogChunk(s, t, rows) ==
  Unless(rows = {}, <<EntsogDeleteChunk(s, t), Replace({}, {}, rows)>>)

(* The chunks of a window, the oldest first.                               *)
EntsogWrites(s, rows) ==
  LET refresh[t \in 0 .. Horizon] ==
        IF t = 0 THEN Nothing
        ELSE refresh[t - 1] \o EntsogChunk(s, t, {r \in rows : r.time = t})
  IN  refresh[Horizon]

EntsogRun == RunsWith(FALSE, {"abort"}, "abort")

(* The start moves on with the newest day that is stored.                  *)
EntsogPromised(t) == t >= NextRun - 2
=============================================================================
