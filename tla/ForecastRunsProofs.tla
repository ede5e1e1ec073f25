------------------------- MODULE ForecastRunsProofs -------------------------
(***************************************************************************)
(* Proofs about ForecastRuns, for any processes, target days, days that    *)
(* pass and retention: a run that readers see has all of its rows, two     *)
(* runs of a key are in force only while one of them is about to supersede *)
(* the other, and among processes that take turns the newest run is.       *)
(* Below, about AlertLimiter, as its run checks it.                        *)
(***************************************************************************)
EXTENDS MCForecastRuns, TLAPS

Steps == {"idle", "loaded", "points", "quantiles", "metrics", "failing", "complete",
          "supersede", "backtest", "cleanup", "ended"}
Statuses == {"skipped", "failed", "writing", "completed", "superseded"}

Truths == MayTrain \cup {FALSE}

LEMMA TruthsHold == MayTrain \subseteq Truths /\ FALSE \in Truths
  BY DEF Truths

ProcType ==
  /\ proc \in [Procs -> [step : Steps, target : Dates, trains : Truths, variant : Variants,
                      judged : SUBSET Variants, cut : {"none", "supersede", "writing"}]]
  /\ \A p \in Procs : proc[p].target \in Targets[p]

RowType ==
  /\ DOMAIN runs \subseteq RunIds
  /\ \A r \in DOMAIN runs : runs[r] \in [target : Dates, day : Nat, seq : Nat \ {0}, status : Statuses]

Types ==
  /\ today \in 0 .. MaxDay /\ inserts \in Nat /\ RowType /\ ProcType
  /\ overlapped \subseteq Dates
  /\ written \in [Tables -> SUBSET RunIds] /\ \A t \in Tables : written[t] \subseteq DOMAIN runs

(* A row is of its process's target; ids are given in order, also over     *)
(* days; and a process inserts the row of a variant once.                  *)
RowsInOrder ==
  /\ \A r \in DOMAIN runs :
       runs[r].target = proc[r[1]].target /\ runs[r].seq <= inserts /\ runs[r].day <= today
  /\ \A r, s \in DOMAIN runs : runs[r].seq < runs[s].seq => runs[r].day <= runs[s].day

RowsAreNew ==
  \A p \in Procs :
    /\ proc[p].step \in {"idle", "loaded", "points", "quantiles", "backtest"} => proc[p].variant = "day_ahead"
    /\ proc[p].step \in {"idle", "loaded"} => <<p, "day_ahead">> \notin DOMAIN runs
    /\ proc[p].variant = "day_ahead" => <<p, "backtest">> \notin DOMAIN runs

(* What a process has written, if its run is still there.                  *)
PartsSoFar ==
  \A p \in Procs : Exists(RunId(p)) =>
    /\ proc[p].variant = "day_ahead" =>
         /\ proc[p].step \in {"quantiles", "metrics", "complete"} => RunId(p) \in written["points"]
         /\ proc[p].step \in {"metrics", "complete"} => RunId(p) \in written["quantiles"]
    /\ proc[p].step = "complete" /\ proc[p].variant \in proc[p].judged => RunId(p) \in written["metrics"]

StatusFollowsStep ==
  \A p \in Procs : Exists(RunId(p)) =>
    /\ proc[p].step \in {"points", "quantiles", "metrics", "failing", "complete"} => Writing(RunId(p))
    /\ proc[p].step = "supersede" => Published(RunId(p))

CutAtEnd == \A p \in Procs : proc[p].step # "ended" => proc[p].cut = "none"

(* Processes of one target that are alive at a time are recorded.          *)
Recorded ==
  \A p, q \in Procs :
    p # q /\ Alive(p) /\ Alive(q) /\ proc[p].target = proc[q].target => proc[p].target \in overlapped

(* While the processes of a target take turns, the run of the one that is  *)
(* at work is newer than all others, and goes only when they are gone.     *)
NewestAtWork ==
  \A p \in Procs :
    Alive(p) /\ proc[p].step # "loaded" /\ proc[p].target \notin overlapped =>
      \A s \in DOMAIN runs : s[1] # p /\ runs[s].target = proc[p].target =>
        Exists(RunId(p)) /\ runs[s].seq < runs[RunId(p)].seq

(* ... and what is superseded has been replaced by something newer.        *)
Replaced ==
  \A r \in DOMAIN runs :
    runs[r].status = "superseded" /\ runs[r].target \notin overlapped =>
      \E s \in DOMAIN runs : Published(s) /\ SameKey(r, s) /\ runs[r].seq < runs[s].seq

Inv ==
  /\ Types /\ RowsInOrder /\ RowsAreNew /\ PartsSoFar /\ StatusFollowsStep /\ CutAtEnd
  /\ Recorded /\ NewestAtWork /\ Replaced /\ PublishedWhole /\ OneInForce

-----------------------------------------------------------------------------
(* A run id is the pair of its process and its variant.                    *)
LEMMA IdsArePairs ==
  \A r \in RunIds : r[1] \in Procs /\ r[2] \in Variants /\ r = <<r[1], r[2]>>
  BY DEF RunIds

LEMMA OwnId ==
  ASSUME ProcType, NEW p \in Procs
  PROVE  RunId(p) \in RunIds /\ RunId(p)[1] = p /\ RunId(p)[2] = proc[p].variant
  BY DEF RunId, RunIds, ProcType

(* What belongs to a run depends on its process alone.                     *)
LEMMA PartsOfRun ==
  ASSUME NEW r \in RunIds
  PROVE  /\ Parts(r) \subseteq Tables
         /\ (proc'[r[1]].judged = proc[r[1]].judged) => Parts(r)' = Parts(r)
  BY DEF Parts, Tables

(* Goto moves one process.                                                 *)
LEMMA GotoEffect ==
  ASSUME ProcType, NEW p \in Procs, NEW s \in Steps, Goto(p, s)
  PROVE  /\ ProcType'
         /\ proc'[p].step = s /\ proc'[p].target = proc[p].target
         /\ proc'[p].variant = proc[p].variant /\ proc'[p].cut = proc[p].cut
         /\ proc'[p].judged = proc[p].judged
         /\ RunId(p)' = RunId(p)
         /\ \A q \in Procs \ {p} : proc'[q] = proc[q] /\ RunId(q)' = RunId(q)
  BY DEF Goto, ProcType, RunId

(* With changes the status of one row, if it is there.                     *)
LEMMA WithEffect ==
  ASSUME RowType, NEW r \in RunIds, NEW s \in Statuses, runs' = With(r, s)
  PROVE  /\ RowType' /\ DOMAIN runs' = DOMAIN runs
         /\ \A x \in DOMAIN runs :
              /\ runs'[x].target = runs[x].target /\ runs'[x].day = runs[x].day
              /\ runs'[x].seq = runs[x].seq
              /\ runs'[x].status = IF x = r THEN s ELSE runs[x].status
  BY DEF RowType, With, Exists

LEMMA InitInv == Init => Inv
<1> SUFFICES ASSUME Init PROVE Inv
  OBVIOUS
<1>1. DOMAIN runs = {} /\ written \in [Tables -> SUBSET RunIds]
  BY DEF Init
<1>2. PICK d \in {f \in [Procs -> Dates] : \A p \in Procs : f[p] \in Targets[p]} :
        proc = [p \in Procs |-> [step |-> "idle", target |-> d[p], trains |-> FALSE,
                                 variant |-> "day_ahead", judged |-> {}, cut |-> "none"]]
  BY DEF Init
<1>3. ProcType
  BY <1>2, TruthsHold DEF ProcType, Steps, Variants
<1>4. Types
  <2>1. today \in 0 .. MaxDay
    BY RunsAssumption DEF Init
  <2>2. \A t \in Tables : written[t] \subseteq DOMAIN runs
    BY DEF Init
  <2> QED BY <1>1, <1>3, <2>1, <2>2 DEF Init, Types, RowType
<1> QED BY <1>1, <1>2, <1>4
        DEF Inv, RowsInOrder, RowsAreNew, PartsSoFar, StatusFollowsStep, CutAtEnd, Recorded, Alive,
            NewestAtWork, Replaced, PublishedWhole, OneInForce, Exists, Published, Active

-----------------------------------------------------------------------------
(* Steps that leave the table of runs as it is.                            *)
LEMMA QuietInv ==
  ASSUME Inv, Types', UNCHANGED <<runs, inserts>>, today' >= today,
         overlapped \subseteq overlapped',
         NEW p \in Procs,
         /\ proc'[p].target = proc[p].target /\ proc'[p].variant = proc[p].variant
         /\ proc'[p].judged = proc[p].judged
         /\ \A q \in Procs \ {p} : proc'[q] = proc[q],
         \A t \in Tables : written[t] \subseteq written'[t],
         RowsAreNew', PartsSoFar', StatusFollowsStep', CutAtEnd', Recorded', NewestAtWork',
         proc[p].step # "ended", proc[p].step = "supersede" => proc'[p].cut = "supersede"
  PROVE  Inv'
<1>1. \A q \in Procs : proc'[q].target = proc[q].target /\ RunId(q)' = RunId(q)
  BY DEF RunId
<1>2. RowsInOrder'
  <2>1. \A r \in DOMAIN runs : r[1] \in Procs
    BY IdsArePairs DEF Inv, Types, RowType
  <2>2. \A r \in DOMAIN runs : runs[r].day \in Nat
    BY DEF Inv, Types, RowType
  <2> QED BY <1>1, <2>1, <2>2 DEF Inv, Types, RowsInOrder
<1>3. Replaced'
  BY DEF Inv, Replaced, Published, Exists, SameKey
<1>4. PublishedWhole'
  <2>1. \A r \in RunIds : Parts(r)' = Parts(r) /\ Parts(r) \subseteq Tables
    BY IdsArePairs, PartsOfRun
  <2> QED BY <2>1 DEF Inv, PublishedWhole, Published, Exists
<1>5. OneInForce'
  <2> SUFFICES ASSUME NEW r \in RunIds, NEW s \in RunIds, r # s, Active(r)', Active(s)', SameKey(r, s)'
               PROVE  \E x \in {r, s} : /\ RunId(x[1])' = x
                                        /\ "supersede" \in {proc'[x[1]].step, proc'[x[1]].cut}
    BY DEF OneInForce
  <2>1. PICK x \in {r, s} : RunId(x[1]) = x /\ "supersede" \in {proc[x[1]].step, proc[x[1]].cut}
    BY DEF Inv, OneInForce, Active, SameKey, Exists
  <2>2. x[1] \in Procs
    BY IdsArePairs
  <2>3. proc[x[1]].cut = "supersede" => proc[x[1]].step = "ended"
    BY <2>2 DEF Inv, CutAtEnd
  <2>4. CASE x[1] # p
    BY <1>1, <2>1, <2>2, <2>4
  <2>5. CASE x[1] = p /\ proc[p].step = "supersede"
    BY <1>1, <2>1, <2>5
  <2>6. CASE x[1] = p /\ proc[p].step # "supersede"
    BY <1>1, <2>1, <2>3, <2>6
  <2> QED BY <2>4, <2>5, <2>6
<1> QED BY <1>2, <1>3, <1>4, <1>5 DEF Inv

LEMMA NextDayInv == Inv /\ NextDay => Inv'
<1> SUFFICES ASSUME Inv, NextDay PROVE Inv'
  OBVIOUS
<1>1. UNCHANGED <<inserts, runs, written, proc, overlapped>> /\ today' = today + 1
  BY DEF NextDay
<1>2. Types'
  <2>1. today' \in 0 .. MaxDay
    BY <1>1, RunsAssumption DEF NextDay, Inv, Types
  <2> QED BY <1>1, <2>1 DEF Inv, Types, RowType, ProcType
<1>3. RowsInOrder'
  <2>1. \A r \in DOMAIN runs : runs[r].day \in Nat
    BY DEF Inv, Types, RowType
  <2> QED BY <1>1, <2>1 DEF Inv, Types, RowsInOrder
<1>4. RowsAreNew' /\ PartsSoFar' /\ StatusFollowsStep' /\ CutAtEnd' /\ Recorded' /\ NewestAtWork' /\ Replaced'
  BY <1>1 DEF Inv, RowsAreNew, PartsSoFar, StatusFollowsStep, CutAtEnd, Recorded, NewestAtWork, Replaced,
              RunId, Exists, Writing, Published, SameKey, Alive
<1>5. PublishedWhole' /\ OneInForce'
  BY <1>1 DEF Inv, PublishedWhole, OneInForce, Published, Exists, Active, SameKey, RunId, Parts
<1> QED BY <1>2, <1>3, <1>4, <1>5 DEF Inv

(* A process that begins is recorded with those of its target that live.   *)
LEMMA ReadInputsInv == ASSUME NEW p \in Procs, Inv, ReadInputs(p) PROVE Inv'
<1>1. proc[p].step = "idle" /\ UNCHANGED <<today, inserts, runs, written>>
  BY DEF ReadInputs
<1>2. overlapped' = overlapped \cup
        {proc[q].target : q \in {x \in Procs : Alive(x) /\ proc[x].target = proc[p].target}}
  BY DEF ReadInputs
<1>4. /\ ProcType' /\ proc'[p].step \in {"loaded", "ended"}
      /\ proc'[p].target = proc[p].target /\ proc'[p].variant = proc[p].variant
      /\ proc'[p].cut = proc[p].cut /\ proc'[p].judged = proc[p].judged
      /\ \A q \in Procs \ {p} : proc'[q] = proc[q]
  <2>1. CASE End(p)
    BY <2>1, GotoEffect DEF End, Inv, Types, Steps
  <2>2. CASE \E trains \in MayTrain : proc' = [proc EXCEPT ![p].step = "loaded", ![p].trains = trains]
    <3>1. PICK trains \in Truths : proc' = [proc EXCEPT ![p].step = "loaded", ![p].trains = trains]
      BY <2>2, TruthsHold
    <3> QED BY <3>1 DEF Inv, Types, ProcType, Steps
  <2> QED BY <2>1, <2>2 DEF ReadInputs
<1>5. Types'
  <2>1. overlapped' \subseteq Dates
    BY <1>2 DEF Inv, Types, ProcType
  <2> QED BY <1>1, <1>4, <2>1 DEF Inv, Types, RowType
<1>6. \A q \in Procs : RunId(q)' = RunId(q)
  BY <1>4 DEF RunId
<1>7. RowsAreNew' /\ PartsSoFar' /\ StatusFollowsStep' /\ CutAtEnd'
  BY <1>1, <1>4, <1>6 DEF Inv, RowsAreNew, PartsSoFar, StatusFollowsStep, CutAtEnd, Exists, Writing, Published
<1>8. Recorded'
  <2>1. \A q \in Procs \ {p} : Alive(q)' = Alive(q)
    BY <1>4 DEF Alive
  <2> QED BY <1>2, <1>4, <2>1 DEF Inv, Recorded
<1>9. NewestAtWork'
  BY <1>1, <1>2, <1>4, <1>6 DEF Inv, NewestAtWork, Alive, Exists
<1> QED BY <1>1, <1>2, <1>4, <1>5, <1>7, <1>8, <1>9, QuietInv DEF Inv, Types

(* Rows of one dependent table are written.                                *)
LEMMA WriteResultInv ==
  ASSUME NEW p \in Procs, NEW table \in Tables, Inv, WriteForecastResult(p, table)
  PROVE  Inv'
<1>1. proc[p].step = table /\ UNCHANGED <<today, inserts, runs, overlapped>>
  BY DEF WriteForecastResult
<1>2. After(table) \in {"quantiles", "metrics", "complete"}
  BY DEF After, Tables
<1>3. \/ /\ Exists(RunId(p)) /\ Goto(p, After(table))
         /\ written' = [written EXCEPT ![table] = @ \cup {RunId(p)}]
      \/ /\ table = "metrics" /\ proc[p].variant \notin proc[p].judged
         /\ Goto(p, "complete") /\ UNCHANGED written
      \/ Goto(p, "failing") /\ UNCHANGED written
  BY DEF WriteForecastResult
<1>4. /\ ProcType' /\ proc'[p].step \in {"quantiles", "metrics", "complete", "failing"}
      /\ proc'[p].target = proc[p].target /\ proc'[p].variant = proc[p].variant
      /\ proc'[p].cut = proc[p].cut /\ proc'[p].judged = proc[p].judged
      /\ \A q \in Procs \ {p} : proc'[q] = proc[q]
      /\ \A q \in Procs : RunId(q)' = RunId(q)
  BY <1>2, <1>3, GotoEffect DEF Inv, Types, Steps
<1>5. /\ written' \in [Tables -> SUBSET RunIds]
      /\ \A t \in Tables : written[t] \subseteq written'[t]
  BY <1>3, OwnId DEF Inv, Types
<1>6. Types'
  <2>1. \A t \in Tables : written'[t] \subseteq DOMAIN runs
    BY <1>3 DEF Inv, Types, Exists
  <2> QED BY <1>1, <1>4, <1>5, <2>1 DEF Inv, Types, RowType
<1>7. proc[p].step \in {"points", "quantiles", "metrics"}
  BY <1>1 DEF Tables
<1>8. StatusFollowsStep' /\ CutAtEnd'
  BY <1>1, <1>4, <1>7 DEF Inv, StatusFollowsStep, CutAtEnd, Exists, Writing, Published
<1>9. RowsAreNew'
  <2>1. proc'[p].step = "quantiles" => proc[p].step = "points"
    <3>1. proc'[p].step = After(table) \/ proc'[p].step \in {"complete", "failing"}
      BY <1>2, <1>3, GotoEffect DEF Inv, Types, Steps
    <3>2. After(table) = "quantiles" => table = "points"
      BY DEF After, Tables
    <3> QED BY <1>1, <3>1, <3>2
  <2> QED BY <1>1, <1>4, <1>7, <2>1 DEF Inv, RowsAreNew
<1>10. PartsSoFar'
  <2> SUFFICES ASSUME NEW q \in Procs, Exists(RunId(q))'
               PROVE  (/\ proc[q].variant = "day_ahead" =>
                            /\ proc[q].step \in {"quantiles", "metrics", "complete"} => RunId(q) \in written["points"]
                            /\ proc[q].step \in {"metrics", "complete"} => RunId(q) \in written["quantiles"]
                       /\ proc[q].step = "complete" /\ proc[q].variant \in proc[q].judged
                            => RunId(q) \in written["metrics"])'
    BY DEF PartsSoFar
  <2>1. Exists(RunId(q)) /\ RunId(q)' = RunId(q)
    BY <1>1, <1>4 DEF Exists
  <2>2. CASE q # p
    BY <1>4, <1>5, <2>1, <2>2 DEF Inv, PartsSoFar, Tables
  <2>3. CASE q = p /\ Goto(p, "failing")
    <3>1. proc'[p].step = "failing"
      BY <2>3, GotoEffect DEF Inv, Types, Steps
    <3> QED BY <2>3, <3>1
  <2>4. CASE q = p /\ Goto(p, "complete") /\ UNCHANGED written /\ table = "metrics" /\ proc[p].variant \notin proc[p].judged
    BY <1>1, <1>4, <2>1, <2>4 DEF Inv, PartsSoFar
  <2>5. CASE q = p /\ Goto(p, After(table)) /\ written' = [written EXCEPT ![table] = @ \cup {RunId(p)}]
    <3>1. proc'[p].step = After(table)
      BY <1>2, <2>5, GotoEffect DEF Inv, Types, Steps
    <3>2. RunId(p) \in written'[table]
      BY <2>5 DEF Inv, Types
    <3>3. CASE table = "points"
      BY <1>1, <1>4, <2>1, <2>5, <3>1, <3>2, <3>3 DEF After, Inv, RowsAreNew
    <3>4. CASE table = "quantiles"
      BY <1>1, <1>4, <1>5, <2>1, <2>5, <3>1, <3>2, <3>4 DEF After, Inv, RowsAreNew, PartsSoFar, Tables
    <3>5. CASE table = "metrics"
      BY <1>1, <1>4, <1>5, <2>1, <2>5, <3>1, <3>2, <3>5 DEF After, Inv, PartsSoFar, Tables
    <3> QED BY <3>3, <3>4, <3>5 DEF Tables
  <2> QED BY <1>3, <2>2, <2>3, <2>4, <2>5
<1>11. \A q \in Procs : Alive(q)' = Alive(q) /\ proc'[q].target = proc[q].target
  BY <1>4, <1>7 DEF Alive
<1>12. Recorded'
  BY <1>1, <1>11 DEF Inv, Recorded
<1>13. NewestAtWork'
  BY <1>1, <1>4, <1>7, <1>11 DEF Inv, NewestAtWork, Exists
<1> QED BY <1>1, <1>4, <1>5, <1>6, <1>7, <1>8, <1>9, <1>10, <1>12, <1>13, QuietInv DEF Inv, Types

(* A process ends at any step, and leaves what it has written.             *)
LEMMA DieInv == ASSUME NEW p \in Procs, Inv, Die(p) PROVE Inv'
<1>1. Alive(p) /\ UNCHANGED <<today, inserts, runs, written, overlapped>>
  BY DEF Die
<1>2. /\ ProcType' /\ proc'[p].step = "ended"
      /\ proc'[p].target = proc[p].target /\ proc'[p].variant = proc[p].variant
      /\ proc'[p].judged = proc[p].judged
      /\ proc[p].step = "supersede" => proc'[p].cut = "supersede"
      /\ \A q \in Procs \ {p} : proc'[q] = proc[q]
  <2> DEFINE c == IF proc[p].step = "supersede" THEN "supersede"
                  ELSE IF Writing(RunId(p)) THEN "writing" ELSE "none"
  <2>1. c \in {"none", "supersede", "writing"} /\ (proc[p].step = "supersede" => c = "supersede")
    OBVIOUS
  <2>2. proc' = [proc EXCEPT ![p].step = "ended", ![p].trains = FALSE, ![p].cut = c]
    BY DEF Die
  <2> HIDE DEF c
  <2>3. PICK b \in Truths : proc' = [proc EXCEPT ![p].step = "ended", ![p].trains = b, ![p].cut = c]
    BY <2>2, TruthsHold
  <2>4. /\ proc'[p].step = "ended" /\ proc'[p].target = proc[p].target
        /\ proc'[p].variant = proc[p].variant /\ proc'[p].cut = c /\ proc'[p].judged = proc[p].judged
        /\ \A q \in Procs \ {p} : proc'[q] = proc[q]
    BY <2>3 DEF Inv, Types, ProcType
  <2>5. proc' \in [Procs -> [step : Steps, target : Dates, trains : Truths, variant : Variants,
                            judged : SUBSET Variants, cut : {"none", "supersede", "writing"}]]
    <3>1. proc \in [Procs -> [step : Steps, target : Dates, trains : Truths, variant : Variants,
                             judged : SUBSET Variants, cut : {"none", "supersede", "writing"}]]
      BY DEF Inv, Types, ProcType
    <3> DEFINE Rec == [step : Steps, target : Dates, trains : Truths, variant : Variants,
                       judged : SUBSET Variants, cut : {"none", "supersede", "writing"}]
               new == [proc[p] EXCEPT !.step = "ended", !.trains = b, !.cut = c]
    <3>2. proc[p] \in Rec /\ "ended" \in Steps
      BY <3>1 DEF Steps
    <3>3. new \in Rec
      BY <2>1, <2>3, <3>2
    <3>4. proc' = [proc EXCEPT ![p] = new]
      BY <2>3, <3>1
    <3> HIDE DEF Rec, new
    <3>5. proc \in [Procs -> Rec]
      BY <3>1 DEF Rec
    <3>6. proc' \in [Procs -> Rec]
      BY <3>3, <3>4, <3>5
    <3> QED BY <3>6 DEF Rec
  <2> QED BY <2>1, <2>4, <2>5 DEF Inv, Types, ProcType
<1>3. Types'
  BY <1>1, <1>2 DEF Inv, Types, RowType
<1>4. \A q \in Procs : RunId(q)' = RunId(q)
  BY <1>2 DEF RunId
<1>5. RowsAreNew' /\ PartsSoFar' /\ StatusFollowsStep' /\ CutAtEnd'
  BY <1>1, <1>2, <1>4 DEF Inv, RowsAreNew, PartsSoFar, StatusFollowsStep, CutAtEnd, Exists, Writing, Published
<1>6. Recorded' /\ NewestAtWork'
  BY <1>1, <1>2, <1>4 DEF Inv, Recorded, NewestAtWork, Alive, Exists
<1>7. proc[p].step # "ended"
  BY <1>1 DEF Alive
<1> QED BY <1>1, <1>2, <1>3, <1>5, <1>6, <1>7, QuietInv DEF Inv, Types

-----------------------------------------------------------------------------
(* A row is inserted: of a forecast, or of the backtests after it.         *)
LEMMA NewRowInv ==
  ASSUME NEW p \in Procs, NEW v \in Variants, NEW status \in {"skipped", "failed", "writing"},
         Inv, <<p, v>> \notin DOMAIN runs, WriteRun(<<p, v>>, status),
         UNCHANGED <<today, written, overlapped>>, ProcType',
         proc[p].step \in {"loaded", "backtest"},
         proc[p].variant = "day_ahead",
         /\ proc'[p].target = proc[p].target /\ proc'[p].variant = v /\ proc'[p].cut = proc[p].cut
         /\ proc'[p].judged \ {v} = proc[p].judged \ {v}
         /\ \A q \in Procs \ {p} : proc'[q] = proc[q],
         \/ proc'[p].step = "points" /\ v = "day_ahead" /\ status = "writing"
         \/ proc'[p].step = "metrics" /\ v = "backtest" /\ status = "writing"
         \/ proc'[p].step = "ended"
  PROVE  Inv'
<1> DEFINE new == <<p, v>>
<1>1. new \in RunIds /\ new[1] = p /\ new[2] = v
  BY DEF RunIds
<1> DEFINE row == [target |-> proc[p].target, status |-> status, day |-> today, seq |-> inserts + 1]
<1>2. /\ inserts' = inserts + 1 /\ DOMAIN runs' = DOMAIN runs \cup {new}
      /\ runs'[new] = row /\ \A x \in DOMAIN runs : runs'[x] = runs[x]
  BY <1>1 DEF WriteRun, Exists
<1>3. /\ row.target = proc[p].target /\ row.status = status /\ row.day = today
      /\ row.seq = inserts + 1
      /\ row \in [target : Dates, day : Nat, seq : Nat \ {0}, status : Statuses]
  BY DEF Inv, Types, ProcType, Statuses
<1>4. new \notin DOMAIN runs
  OBVIOUS
<1>5. RunId(p)' = new /\ \A q \in Procs \ {p} : RunId(q)' = RunId(q) /\ RunId(q) # new
  BY DEF RunId
<1> HIDE DEF new, row
<1>6. Types'
  BY <1>1, <1>2, <1>3 DEF Inv, Types, RowType
<1>7. Exists(new)' /\ ~Published(new)' /\ (status = "writing" => Writing(new)')
  BY <1>2, <1>3 DEF Exists, Published, Writing
<1>8. \A x : x # new => /\ Exists(x)' = Exists(x) /\ Published(x)' = Published(x)
                        /\ Writing(x)' = Writing(x) /\ Active(x)' = Active(x)
  BY <1>2 DEF Exists, Published, Writing, Active
<1>9. RowsInOrder'
  <2>1. \A r \in DOMAIN runs : /\ r[1] \in Procs /\ runs[r].seq \in Nat /\ runs[r].day \in Nat
                               /\ proc'[r[1]].target = proc[r[1]].target
                               /\ runs[r].target = proc[r[1]].target
                               /\ runs[r].seq <= inserts /\ runs[r].day <= today
    BY IdsArePairs DEF Inv, Types, RowType, RowsInOrder
  <2>2. \A r \in DOMAIN runs' :
          runs'[r].target = proc'[r[1]].target /\ runs'[r].seq <= inserts' /\ runs'[r].day <= today'
    BY <1>1, <1>2, <1>3, <2>1 DEF Inv, Types
  <2>3. ASSUME NEW r \in DOMAIN runs', NEW s \in DOMAIN runs', runs'[r].seq < runs'[s].seq
        PROVE  runs'[r].day <= runs'[s].day
    <3>1. CASE r = new
      BY <1>2, <1>3, <2>1, <2>3, <3>1 DEF Inv, Types
    <3>2. CASE r # new /\ s = new
      BY <1>2, <1>3, <2>1, <3>2 DEF Inv, Types
    <3>3. CASE r # new /\ s # new
      BY <1>2, <2>3, <3>3 DEF Inv, RowsInOrder
    <3> QED BY <3>1, <3>2, <3>3
  <2> QED BY <2>2, <2>3 DEF RowsInOrder
<1>10. RowsAreNew'
  <2>1. <<p, "backtest">> \notin DOMAIN runs /\ (v = "day_ahead" => <<p, "backtest">> # new)
    BY DEF Inv, RowsAreNew, new
  <2>2. \A q \in Procs \ {p}, w \in Variants : <<q, w>> # new
    BY DEF new
  <2> QED BY <1>2, <2>1, <2>2 DEF Inv, RowsAreNew, Variants
<1>11. StatusFollowsStep' /\ CutAtEnd'
  BY <1>5, <1>7, <1>8 DEF Inv, StatusFollowsStep, CutAtEnd
<1>12. PartsSoFar'
  BY <1>5, <1>8 DEF Inv, PartsSoFar
<1>13. Recorded'
  BY DEF Inv, Recorded, Alive
<1>14. NewestAtWork'
  <2> SUFFICES ASSUME NEW q \in Procs, Alive(q)', proc'[q].step # "loaded", proc'[q].target \notin overlapped,
                      NEW s \in DOMAIN runs', s[1] # q, runs'[s].target = proc'[q].target
               PROVE  Exists(RunId(q))' /\ runs'[s].seq < runs'[RunId(q)'].seq
    BY DEF NewestAtWork
  <2>1. CASE q = p
    <3>1. s # new
      BY <1>1, <2>1
    <3>2. runs[s].seq <= inserts /\ runs[s].seq \in Nat
      BY <1>2, <3>1 DEF Inv, RowsInOrder, Types, RowType
    <3> QED BY <1>2, <1>3, <1>5, <1>7, <2>1, <3>1, <3>2 DEF Inv, Types
  <2>2. CASE q # p
    <3>1. Alive(p) /\ Alive(q) /\ proc[q].target \notin overlapped
      BY <2>2 DEF Alive
    <3>2. proc[p].target # proc[q].target
      BY <2>2, <3>1 DEF Inv, Recorded
    <3>3. s # new
      BY <1>2, <1>3, <2>2, <3>2
    <3>4. Exists(RunId(q)) /\ runs[s].seq < runs[RunId(q)].seq
      BY <1>2, <2>2, <3>1, <3>3 DEF Inv, NewestAtWork
    <3> QED BY <1>2, <1>5, <1>8, <2>2, <3>3, <3>4 DEF Exists
  <2> QED BY <2>1, <2>2
<1>15. Replaced'
  <2> SUFFICES ASSUME NEW r \in DOMAIN runs', runs'[r].status = "superseded", runs'[r].target \notin overlapped
               PROVE  \E s \in DOMAIN runs' : Published(s)' /\ SameKey(r, s)' /\ runs'[r].seq < runs'[s].seq
    BY DEF Replaced
  <2>1. r # new
    BY <1>7 DEF Published
  <2>2. PICK s \in DOMAIN runs : Published(s) /\ SameKey(r, s) /\ runs[r].seq < runs[s].seq
    BY <1>2, <2>1 DEF Inv, Replaced
  <2> QED BY <1>2, <1>4, <1>8, <2>1, <2>2 DEF SameKey
<1>16. PublishedWhole'
  <2> SUFFICES ASSUME NEW r \in RunIds, r # new PROVE Parts(r)' = Parts(r)
    BY <1>7, <1>8 DEF Inv, PublishedWhole
  <2>1. CASE r[1] # p
    BY <2>1, IdsArePairs, PartsOfRun
  <2>2. CASE r[1] = p
    <3>1. r[2] # v
      BY <2>2, IdsArePairs DEF new
    <3>2. r[2] \in proc'[p].judged <=> r[2] \in proc[p].judged
      BY <3>1
    <3> QED BY <2>2, <3>2 DEF Parts
  <2> QED BY <2>1, <2>2
<1>17. OneInForce'
  <2> SUFFICES ASSUME NEW r \in RunIds, NEW s \in RunIds, r # s, Active(r)', Active(s)', SameKey(r, s)'
               PROVE  \E x \in {r, s} : /\ RunId(x[1])' = x
                                        /\ "supersede" \in {proc'[x[1]].step, proc'[x[1]].cut}
    BY DEF OneInForce
  <2>1. r # new /\ s # new
    BY <1>7 DEF Active, Published
  <2>2. Active(r) /\ Active(s) /\ SameKey(r, s)
    BY <1>2, <1>8, <2>1 DEF SameKey, Active, Exists
  <2>3. PICK x \in {r, s} : RunId(x[1]) = x /\ "supersede" \in {proc[x[1]].step, proc[x[1]].cut}
    BY <2>2 DEF Inv, OneInForce
  <2>4. x[1] \in Procs \ {p}
    BY <2>3, IdsArePairs DEF Inv, CutAtEnd
  <2> QED BY <1>5, <2>3, <2>4
<1> QED BY <1>6, <1>9, <1>10, <1>11, <1>12, <1>13, <1>14, <1>15, <1>16, <1>17 DEF Inv

(* What a forecast's result leaves in the table is never published yet.    *)
LEMMA ForecastInv == ASSUME NEW p \in Procs, Inv, Forecast(p) PROVE Inv'
<1>1. proc[p].step = "loaded" /\ UNCHANGED <<today, written, overlapped>>
  BY DEF Forecast
<1>2. PICK requested \in Backends, importable \in BOOLEAN, judged \in SUBSET {"day_ahead"} :
        \E result \in RunForecastAuto(requested, importable, proc[p].trains) :
          /\ WriteRun(RunId(p), RowOf[result])
          /\ proc' = [proc EXCEPT ![p].step = IF result = "ok" THEN "points" ELSE "ended",
                                  ![p].trains = FALSE,
                                  ![p].judged = @ \cup IF result = "ok" THEN judged ELSE {}]
  BY DEF Forecast
<1>3. \A result \in RunForecastAuto(requested, importable, proc[p].trains) :
        result \in {"ok", "value_error", "unavailable"}
  BY <1>2 DEF RunForecastAuto, ForecastWithBackend
<1>4. PICK result \in {"ok", "value_error", "unavailable"} :
        /\ WriteRun(RunId(p), RowOf[result])
        /\ proc' = [proc EXCEPT ![p].step = IF result = "ok" THEN "points" ELSE "ended",
                                ![p].trains = FALSE,
                                ![p].judged = @ \cup IF result = "ok" THEN judged ELSE {}]
  BY <1>2, <1>3
<1> DEFINE next == IF result = "ok" THEN "points" ELSE "ended"
           J == proc[p].judged \cup IF result = "ok" THEN judged ELSE {}
<1>5. /\ next \in {"points", "ended"} /\ (next = "points" => result = "ok")
      /\ J \subseteq Variants /\ J \ {"day_ahead"} = proc[p].judged \ {"day_ahead"}
  BY DEF Inv, Types, ProcType, Variants
<1>6. proc' = [proc EXCEPT ![p] = [proc[p] EXCEPT !.step = next, !.trains = FALSE, !.judged = J]]
  BY <1>4, proc \in [Procs -> [step : Steps, target : Dates, trains : Truths, variant : Variants,
                               judged : SUBSET Variants, cut : {"none", "supersede", "writing"}]]
  DEF Inv, Types, ProcType
<1> HIDE DEF next, J
<1>7. PICK b \in Truths :
        proc' = [proc EXCEPT ![p] = [proc[p] EXCEPT !.step = next, !.trains = b, !.judged = J]]
  BY <1>6, TruthsHold
<1>8. /\ ProcType' /\ proc'[p].step = next
      /\ proc'[p].target = proc[p].target /\ proc'[p].variant = proc[p].variant /\ proc'[p].cut = proc[p].cut
      /\ proc'[p].judged = J
      /\ \A q \in Procs \ {p} : proc'[q] = proc[q]
  <2> DEFINE Rec == [step : Steps, target : Dates, trains : Truths, variant : Variants,
                     judged : SUBSET Variants, cut : {"none", "supersede", "writing"}]
             new == [proc[p] EXCEPT !.step = next, !.trains = b, !.judged = J]
  <2>1. proc \in [Procs -> Rec] /\ next \in Steps
    BY <1>5 DEF Inv, Types, ProcType, Steps
  <2>2. /\ new \in Rec /\ new.step = next /\ new.judged = J /\ new.target = proc[p].target
        /\ new.variant = proc[p].variant /\ new.cut = proc[p].cut
    BY <1>5, <2>1
  <2>3. proc' = [proc EXCEPT ![p] = new]
    BY <1>7
  <2> HIDE DEF Rec, new
  <2>4. proc' \in [Procs -> Rec] /\ proc'[p] = new /\ \A q \in Procs \ {p} : proc'[q] = proc[q]
    BY <2>1, <2>2, <2>3
  <2> QED BY <2>2, <2>4 DEF Inv, Types, ProcType, Rec
<1>9. RunId(p) = <<p, "day_ahead">> /\ proc[p].variant = "day_ahead" /\ <<p, "day_ahead">> \notin DOMAIN runs
  BY <1>1 DEF Inv, RowsAreNew, RunId
<1>10. /\ RowOf[result] \in {"skipped", "failed", "writing"}
       /\ result = "ok" => RowOf[result] = "writing"
  BY DEF RowOf
<1>11. WriteRun(<<p, "day_ahead">>, RowOf[result])
  BY <1>4, <1>9
<1>12. "day_ahead" \in Variants
  BY DEF Variants
<1> QED BY <1>1, <1>5, <1>8, <1>9, <1>10, <1>11, <1>12, NewRowInv

LEMMA BacktestInv == ASSUME NEW p \in Procs, Inv, Backtest(p) PROVE Inv'
<1>1. /\ proc[p].step = "backtest" /\ UNCHANGED <<today, written, overlapped>>
      /\ WriteRun(<<p, "backtest">>, "writing")
      /\ \E judged \in SUBSET {"backtest"} :
           proc' = [proc EXCEPT ![p].step = "metrics", ![p].variant = "backtest",
                                ![p].judged = @ \cup judged]
  BY DEF Backtest
<1>2. "backtest" \in Variants
  BY DEF Variants
<1>3. /\ ProcType' /\ proc'[p].step = "metrics" /\ proc'[p].variant = "backtest"
      /\ proc'[p].target = proc[p].target /\ proc'[p].cut = proc[p].cut
      /\ proc'[p].judged \ {"backtest"} = proc[p].judged \ {"backtest"}
      /\ \A q \in Procs \ {p} : proc'[q] = proc[q]
  <2> DEFINE Rec == [step : Steps, target : Dates, trains : Truths, variant : Variants,
                     judged : SUBSET Variants, cut : {"none", "supersede", "writing"}]
  <2>1. PICK judged \in SUBSET {"backtest"} :
          proc' = [proc EXCEPT ![p].step = "metrics", ![p].variant = "backtest",
                               ![p].judged = @ \cup judged]
    BY <1>1
  <2> DEFINE J == proc[p].judged \cup judged
             new == [proc[p] EXCEPT !.step = "metrics", !.variant = "backtest", !.judged = J]
  <2>2. /\ proc \in [Procs -> Rec] /\ "metrics" \in Steps /\ proc[p].judged \subseteq Variants
    BY DEF Inv, Types, ProcType, Steps
  <2>3. J \subseteq Variants /\ J \ {"backtest"} = proc[p].judged \ {"backtest"}
    BY <2>2 DEF Variants
  <2>4. proc' = [proc EXCEPT ![p] = new]
    BY <2>1, <2>2
  <2> HIDE DEF J
  <2>5. /\ new \in Rec /\ new.step = "metrics" /\ new.judged = J /\ new.target = proc[p].target
        /\ new.variant = "backtest" /\ new.cut = proc[p].cut
    BY <1>2, <2>2, <2>3
  <2> HIDE DEF Rec, new
  <2>6. proc' \in [Procs -> Rec] /\ proc'[p] = new /\ \A q \in Procs \ {p} : proc'[q] = proc[q]
    BY <2>2, <2>4, <2>5
  <2> QED BY <2>3, <2>5, <2>6 DEF Inv, Types, ProcType, Rec
<1>4. proc[p].variant = "day_ahead" /\ <<p, "backtest">> \notin DOMAIN runs
  BY <1>1 DEF Inv, RowsAreNew
<1> QED BY <1>1, <1>2, <1>3, <1>4, NewRowInv

-----------------------------------------------------------------------------
(* Steps that change the status of rows and nothing else of them.          *)
LEMMA RelabelInv ==
  ASSUME NEW p \in Procs, Inv, UNCHANGED <<today, inserts, written, overlapped>>, ProcType', RowType',
         DOMAIN runs' = DOMAIN runs,
         \A x \in DOMAIN runs : /\ runs'[x].target = runs[x].target
                                /\ runs'[x].day = runs[x].day /\ runs'[x].seq = runs[x].seq,
         Alive(p), proc[p].step # "loaded",
         proc'[p].step \in {"ended", "supersede", "backtest", "cleanup"},
         proc'[p].step = "backtest" => proc[p].variant = "day_ahead",
         /\ proc'[p].target = proc[p].target /\ proc'[p].variant = proc[p].variant
         /\ proc'[p].cut = proc[p].cut /\ proc'[p].judged = proc[p].judged
         /\ \A q \in Procs \ {p} : proc'[q] = proc[q],
         StatusFollowsStep', Replaced', PublishedWhole', OneInForce'
  PROVE  Inv'
<1>1. Types'
  BY DEF Inv, Types
<1>2. /\ \A q \in Procs : RunId(q)' = RunId(q) /\ proc'[q].target = proc[q].target
      /\ \A q \in Procs \ {p} : Alive(q)' = Alive(q)
      /\ \A r : Exists(r)' = Exists(r)
  BY DEF RunId, Alive, Exists
<1>3. RowsInOrder'
  <2>1. \A r \in DOMAIN runs : r[1] \in Procs
    BY IdsArePairs DEF Inv, Types, RowType
  <2> QED BY <1>2, <2>1 DEF Inv, RowsInOrder
<1>4. RowsAreNew'
  BY DEF Inv, RowsAreNew
<1>5. PartsSoFar'
  <2>1. \A q \in Procs \ {p} : Exists(RunId(q))' => Exists(RunId(q)) /\ proc'[q] = proc[q]
    BY <1>2
  <2> QED BY <1>2, <2>1 DEF Inv, PartsSoFar
<1>6. CutAtEnd' /\ Recorded'
  BY <1>2 DEF Inv, CutAtEnd, Recorded, Alive
<1>7. NewestAtWork'
  <2> SUFFICES ASSUME NEW q \in Procs, Alive(q)', proc'[q].step # "loaded", proc'[q].target \notin overlapped,
                      NEW s \in DOMAIN runs, s[1] # q, runs[s].target = proc[q].target
               PROVE  Exists(RunId(q)) /\ runs'[s].seq < runs'[RunId(q)].seq
    BY <1>2 DEF NewestAtWork
  <2>1. Alive(q) /\ proc[q].step # "loaded" /\ proc[q].target \notin overlapped
    BY <1>2
  <2>2. Exists(RunId(q)) /\ runs[s].seq < runs[RunId(q)].seq
    BY <2>1 DEF Inv, NewestAtWork
  <2> QED BY <2>2 DEF Exists
<1> QED BY <1>1, <1>3, <1>4, <1>5, <1>6, <1>7 DEF Inv

(* The run of an exception is marked, and was not published.               *)
LEMMA MarkFailedInv == ASSUME NEW p \in Procs, Inv, MarkFailed(p) PROVE Inv'
<1>1. /\ proc[p].step = "failing" /\ UNCHANGED <<today, inserts, written, overlapped>>
      /\ runs' = With(RunId(p), "failed") /\ Goto(p, "ended")
  BY DEF MarkFailed, End
<1>2. /\ ProcType' /\ proc'[p].step = "ended"
      /\ proc'[p].target = proc[p].target /\ proc'[p].variant = proc[p].variant /\ proc'[p].cut = proc[p].cut
      /\ proc'[p].judged = proc[p].judged
      /\ \A q \in Procs \ {p} : proc'[q] = proc[q]
      /\ \A q \in Procs : RunId(q)' = RunId(q)
  BY <1>1, GotoEffect DEF Inv, Types, Steps
<1>3. /\ RowType' /\ DOMAIN runs' = DOMAIN runs
      /\ \A x \in DOMAIN runs :
           /\ runs'[x].target = runs[x].target /\ runs'[x].day = runs[x].day
           /\ runs'[x].seq = runs[x].seq
           /\ runs'[x].status = IF x = RunId(p) THEN "failed" ELSE runs[x].status
  BY <1>1, OwnId, WithEffect DEF Inv, Types, Statuses
<1>4. Exists(RunId(p)) => Writing(RunId(p))
  BY <1>1 DEF Inv, StatusFollowsStep
<1>5. \A x : Published(x)' = Published(x) /\ Active(x)' = Active(x)
  BY <1>3, <1>4 DEF Published, Active, Writing, Exists
<1>6. \A x : x # RunId(p) => Exists(x)' = Exists(x) /\ Writing(x)' = Writing(x)
  BY <1>3 DEF Writing, Exists
<1>7. StatusFollowsStep'
  <2>1. \A q \in Procs \ {p} : RunId(q) # RunId(p)
    BY DEF RunId
  <2> QED BY <1>2, <1>5, <1>6, <2>1 DEF Inv, StatusFollowsStep
<1>8. Replaced'
  <2> SUFFICES ASSUME NEW r \in DOMAIN runs, runs'[r].status = "superseded", runs'[r].target \notin overlapped
               PROVE  \E s \in DOMAIN runs : Published(s)' /\ SameKey(r, s)' /\ runs'[r].seq < runs'[s].seq
    BY <1>1, <1>3 DEF Replaced
  <2>1. PICK s \in DOMAIN runs : Published(s) /\ SameKey(r, s) /\ runs[r].seq < runs[s].seq
    BY <1>3 DEF Inv, Replaced
  <2> QED BY <1>3, <1>5, <2>1 DEF SameKey
<1>9. PublishedWhole'
  <2>1. \A r \in RunIds : Parts(r)' = Parts(r)
    BY <1>2, IdsArePairs, PartsOfRun
  <2> QED BY <1>1, <1>5, <2>1 DEF Inv, PublishedWhole
<1>10. OneInForce'
  <2> SUFFICES ASSUME NEW r \in RunIds, NEW s \in RunIds, r # s, Active(r)', Active(s)', SameKey(r, s)'
               PROVE  \E x \in {r, s} : /\ RunId(x[1])' = x
                                        /\ "supersede" \in {proc'[x[1]].step, proc'[x[1]].cut}
    BY DEF OneInForce
  <2>1. Active(r) /\ Active(s) /\ SameKey(r, s)
    BY <1>3, <1>5 DEF SameKey, Active, Exists
  <2>2. PICK x \in {r, s} : RunId(x[1]) = x /\ "supersede" \in {proc[x[1]].step, proc[x[1]].cut}
    BY <2>1 DEF Inv, OneInForce
  <2>3. x[1] \in Procs \ {p}
    BY <1>1, <2>2, IdsArePairs DEF Inv, CutAtEnd
  <2> QED BY <1>2, <2>2, <2>3
<1>11. Alive(p) /\ proc[p].step # "loaded"
  BY <1>1 DEF Alive
<1> QED BY <1>1, <1>2, <1>3, <1>7, <1>8, <1>9, <1>10, <1>11, RelabelInv

(* A run is published once it has its rows.                                *)
LEMMA UpdateStatusInv == ASSUME NEW p \in Procs, Inv, UpdateRunStatus(p) PROVE Inv'
<1>1. /\ proc[p].step = "complete" /\ UNCHANGED <<today, inserts, written, overlapped>>
      /\ runs' = With(RunId(p), "completed") /\ Goto(p, "supersede")
  BY DEF UpdateRunStatus
<1>2. /\ ProcType' /\ proc'[p].step = "supersede"
      /\ proc'[p].target = proc[p].target /\ proc'[p].variant = proc[p].variant /\ proc'[p].cut = proc[p].cut
      /\ proc'[p].judged = proc[p].judged
      /\ \A q \in Procs \ {p} : proc'[q] = proc[q]
      /\ \A q \in Procs : RunId(q)' = RunId(q)
  BY <1>1, GotoEffect DEF Inv, Types, Steps
<1>3. /\ RowType' /\ DOMAIN runs' = DOMAIN runs
      /\ \A x \in DOMAIN runs :
           /\ runs'[x].target = runs[x].target /\ runs'[x].day = runs[x].day
           /\ runs'[x].seq = runs[x].seq
           /\ runs'[x].status = IF x = RunId(p) THEN "completed" ELSE runs[x].status
  BY <1>1, OwnId, WithEffect DEF Inv, Types, Statuses
<1>4. Exists(RunId(p)) => Writing(RunId(p)) /\ Published(RunId(p))'
  BY <1>1, <1>2, <1>3 DEF Inv, StatusFollowsStep, Published, Exists
<1>5. \A x : x # RunId(p) => /\ Exists(x)' = Exists(x) /\ Writing(x)' = Writing(x)
                             /\ Published(x)' = Published(x) /\ Active(x)' = Active(x)
  BY <1>3 DEF Writing, Exists, Published, Active
<1>6. StatusFollowsStep'
  <2>1. \A q \in Procs \ {p} : RunId(q) # RunId(p)
    BY DEF RunId
  <2>2. Exists(RunId(p))' = Exists(RunId(p))
    BY <1>2, <1>3 DEF Exists
  <2> QED BY <1>2, <1>4, <1>5, <2>1, <2>2 DEF Inv, StatusFollowsStep
<1>7. Replaced'
  <2> SUFFICES ASSUME NEW r \in DOMAIN runs, runs'[r].status = "superseded", runs'[r].target \notin overlapped
               PROVE  \E s \in DOMAIN runs : Published(s)' /\ SameKey(r, s)' /\ runs'[r].seq < runs'[s].seq
    BY <1>1, <1>3 DEF Replaced
  <2>1. PICK s \in DOMAIN runs : Published(s) /\ SameKey(r, s) /\ runs[r].seq < runs[s].seq
    BY <1>3 DEF Inv, Replaced
  <2>2. Published(s)'
    BY <1>2, <1>4, <1>5, <2>1 DEF Published
  <2> QED BY <1>3, <2>1, <2>2 DEF SameKey
<1>8. PublishedWhole'
  <2>0. \A r \in RunIds : Parts(r)' = Parts(r)
    BY <1>2, IdsArePairs, PartsOfRun
  <2> SUFFICES ASSUME NEW r \in RunIds, Published(r)', NEW t \in Parts(r)
               PROVE  r \in written[t]
    BY <1>1, <2>0 DEF PublishedWhole
  <2>1. CASE r # RunId(p)
    BY <1>5, <2>1 DEF Inv, PublishedWhole
  <2>2. CASE r = RunId(p)
    <3>1. Exists(RunId(p)) /\ r[1] = p /\ r[2] = proc[p].variant
      BY <1>3, <2>2, OwnId DEF Inv, Types, Published, Exists
    <3>2. \/ proc[p].variant = "day_ahead" /\ t \in {"points", "quantiles"}
          \/ proc[p].variant \in proc[p].judged /\ t = "metrics"
      BY <3>1 DEF Parts
    <3> QED BY <1>1, <2>2, <3>1, <3>2 DEF Inv, PartsSoFar
  <2> QED BY <2>1, <2>2
<1>9. OneInForce'
  <2> SUFFICES ASSUME NEW r \in RunIds, NEW s \in RunIds, r # s, Active(r)', Active(s)', SameKey(r, s)'
               PROVE  \E x \in {r, s} : /\ RunId(x[1])' = x
                                        /\ "supersede" \in {proc'[x[1]].step, proc'[x[1]].cut}
    BY DEF OneInForce
  <2>1. CASE RunId(p) \in {r, s}
    BY <1>2, <2>1, OwnId DEF Inv, Types
  <2>2. CASE RunId(p) \notin {r, s}
    <3>1. Active(r) /\ Active(s) /\ SameKey(r, s)
      BY <1>3, <1>5, <2>2 DEF SameKey, Active, Exists
    <3>2. PICK x \in {r, s} : RunId(x[1]) = x /\ "supersede" \in {proc[x[1]].step, proc[x[1]].cut}
      BY <3>1 DEF Inv, OneInForce
    <3>3. x[1] \in Procs \ {p}
      BY <2>2, <3>2, IdsArePairs
    <3> QED BY <1>2, <3>2, <3>3
  <2> QED BY <2>1, <2>2
<1>10. Alive(p) /\ proc[p].step # "loaded"
  BY <1>1 DEF Alive
<1> QED BY <1>1, <1>2, <1>3, <1>6, <1>7, <1>8, <1>9, <1>10, RelabelInv

(* What is superseded is older than the run that supersedes it.            *)
LEMMA SupersedeInv == ASSUME NEW p \in Procs, Inv, MarkPreviousRunsSuperseded(p) PROVE Inv'
<1>1. /\ proc[p].step = "supersede" /\ UNCHANGED <<today, inserts, written, overlapped>>
      /\ runs' = [r \in DOMAIN runs |->
                    IF Superseded(r, p) THEN [runs[r] EXCEPT !.status = "superseded"] ELSE runs[r]]
      /\ \/ proc[p].variant = "day_ahead" /\ Goto(p, "backtest")
         \/ Goto(p, "cleanup")
  BY DEF MarkPreviousRunsSuperseded
<1>2. /\ ProcType' /\ proc'[p].step \in {"backtest", "cleanup"}
      /\ proc'[p].step = "backtest" => proc[p].variant = "day_ahead"
      /\ proc'[p].target = proc[p].target /\ proc'[p].variant = proc[p].variant /\ proc'[p].cut = proc[p].cut
      /\ proc'[p].judged = proc[p].judged
      /\ \A q \in Procs \ {p} : proc'[q] = proc[q]
      /\ \A q \in Procs : RunId(q)' = RunId(q)
  BY <1>1, GotoEffect DEF Inv, Types, Steps
<1>3. /\ RowType' /\ DOMAIN runs' = DOMAIN runs
      /\ \A x \in DOMAIN runs :
           /\ runs'[x].target = runs[x].target /\ runs'[x].day = runs[x].day
           /\ runs'[x].seq = runs[x].seq
           /\ runs'[x].status = IF Superseded(x, p) THEN "superseded" ELSE runs[x].status
  BY <1>1 DEF Inv, Types, RowType, Statuses
<1>4. \A x : Exists(x)' = Exists(x) /\ Published(x)' = Published(x) /\ Writing(x)' = Writing(x)
  BY <1>3 DEF Exists, Published, Writing, Superseded
<1>5. \A x : Active(x)' => Active(x) /\ ~Superseded(x, p)
  BY <1>3 DEF Active, Exists
<1>6. StatusFollowsStep'
  BY <1>2, <1>4 DEF Inv, StatusFollowsStep
<1>7. Replaced'
  <2> SUFFICES ASSUME NEW r \in DOMAIN runs, runs'[r].status = "superseded", runs'[r].target \notin overlapped
               PROVE  \E s \in DOMAIN runs : Published(s)' /\ SameKey(r, s)' /\ runs'[r].seq < runs'[s].seq
    BY <1>1, <1>3 DEF Replaced
  <2>1. \E s \in DOMAIN runs : Published(s) /\ SameKey(r, s) /\ runs[r].seq < runs[s].seq
    <3>1. CASE Superseded(r, p)
      <4>1. runs[r].target = proc[p].target /\ r[2] = proc[p].variant /\ r # RunId(p)
        BY <3>1 DEF Superseded
      <4>2. r[1] # p
        BY <4>1, IdsArePairs DEF RunId, Inv, Types, RowType
      <4>3. proc[p].target \notin overlapped /\ Alive(p)
        BY <1>1, <1>3, <4>1 DEF Alive
      <4>4. Exists(RunId(p)) /\ runs[r].seq < runs[RunId(p)].seq
        BY <1>1, <4>1, <4>2, <4>3 DEF Inv, NewestAtWork
      <4>5. Published(RunId(p))
        BY <1>1, <4>4 DEF Inv, StatusFollowsStep
      <4>6. RunId(p)[1] = p /\ RunId(p)[2] = proc[p].variant
        BY OwnId DEF Inv, Types
      <4>7. RunId(p) \in DOMAIN runs /\ runs[RunId(p)].target = proc[p].target
        BY <4>4, <4>6 DEF Exists, Inv, RowsInOrder
      <4> QED BY <4>1, <4>4, <4>5, <4>6, <4>7 DEF SameKey
    <3>2. CASE ~Superseded(r, p)
      BY <1>3, <3>2 DEF Inv, Replaced
    <3> QED BY <3>1, <3>2
  <2> QED BY <1>3, <1>4, <2>1 DEF SameKey
<1>8. PublishedWhole'
  <2>1. \A r \in RunIds : Parts(r)' = Parts(r)
    BY <1>2, IdsArePairs, PartsOfRun
  <2> QED BY <1>1, <1>4, <2>1 DEF Inv, PublishedWhole
<1>9. OneInForce'
  <2> SUFFICES ASSUME NEW r \in RunIds, NEW s \in RunIds, r # s, Active(r)', Active(s)', SameKey(r, s)'
               PROVE  \E x \in {r, s} : /\ RunId(x[1])' = x
                                        /\ "supersede" \in {proc'[x[1]].step, proc'[x[1]].cut}
    BY DEF OneInForce
  <2>1. Active(r) /\ Active(s) /\ SameKey(r, s) /\ ~Superseded(r, p) /\ ~Superseded(s, p)
    BY <1>3, <1>5 DEF SameKey, Active, Exists
  <2>2. PICK x \in {r, s} : RunId(x[1]) = x /\ "supersede" \in {proc[x[1]].step, proc[x[1]].cut}
    BY <2>1 DEF Inv, OneInForce
  <2>3. x[1] # p
    <3> SUFFICES ASSUME x[1] = p PROVE FALSE
      OBVIOUS
    <3>1. x = RunId(p) /\ x[2] = proc[p].variant /\ x \in DOMAIN runs
      BY <2>1, <2>2, OwnId DEF Inv, Types, Active, Exists
    <3>2. runs[x].target = proc[p].target
      BY <3>1 DEF Inv, RowsInOrder
    <3>3. PICK y \in {r, s} : y # x
      OBVIOUS
    <3>4. Superseded(y, p)
      BY <2>1, <3>1, <3>2, <3>3 DEF Superseded, Active, SameKey
    <3> QED BY <2>1, <3>3, <3>4
  <2>4. x[1] \in Procs \ {p}
    BY <2>3, IdsArePairs
  <2> QED BY <1>2, <2>2, <2>4
<1>10. Alive(p) /\ proc[p].step # "loaded"
  BY <1>1 DEF Alive
<1> QED BY <1>1, <1>2, <1>3, <1>6, <1>7, <1>8, <1>9, <1>10, RelabelInv

(* Rows expire in the order in which they were inserted.                   *)
LEMMA CleanupInv == ASSUME NEW p \in Procs, Inv, CleanupOldRuns(p) PROVE Inv'
<1> DEFINE ids == {r \in DOMAIN runs : ~Expired(r)}
<1>1. /\ proc[p].step = "cleanup" /\ UNCHANGED <<today, inserts, overlapped>>
      /\ runs' = [r \in ids |-> runs[r]] /\ written' = [t \in Tables |-> written[t] \cap ids]
      /\ Goto(p, "ended")
  BY DEF CleanupOldRuns, Keep, End
<1>2. /\ ProcType' /\ proc'[p].step = "ended"
      /\ proc'[p].target = proc[p].target /\ proc'[p].variant = proc[p].variant /\ proc'[p].cut = proc[p].cut
      /\ proc'[p].judged = proc[p].judged
      /\ \A q \in Procs \ {p} : proc'[q] = proc[q]
      /\ \A q \in Procs : RunId(q)' = RunId(q)
  BY <1>1, GotoEffect DEF Inv, Types, Steps
<1>3. /\ DOMAIN runs' = ids /\ ids \subseteq DOMAIN runs
      /\ \A x \in ids : runs'[x] = runs[x]
  BY <1>1
<1>4. \A r \in ids, s \in DOMAIN runs : runs[r].seq < runs[s].seq => s \in ids
  <2> SUFFICES ASSUME NEW r \in ids, NEW s \in DOMAIN runs, runs[r].seq < runs[s].seq
               PROVE  ~Expired(s)
    OBVIOUS
  <2>1. runs[r].day <= runs[s].day
    BY DEF Inv, RowsInOrder
  <2>2. /\ runs[r].day \in Nat /\ runs[s].day \in Nat /\ today \in Nat /\ RetentionDays \in Nat
    BY RunsAssumption DEF Inv, Types, RowType
  <2>3. ~Expired(r)
    OBVIOUS
  <2> QED BY <2>1, <2>2, <2>3 DEF Expired
<1>5. \A t \in Tables : \A x \in ids : x \in written'[t] <=> x \in written[t]
  BY <1>1
<1> HIDE DEF ids
<1>6. Types'
  BY <1>1, <1>2, <1>3 DEF Inv, Types, RowType
<1>7. \A x : /\ Exists(x)' => x \in ids /\ Exists(x)
             /\ x \in ids => /\ Exists(x)' /\ Exists(x)
                             /\ Writing(x)' = Writing(x) /\ Published(x)' = Published(x)
                             /\ Active(x)' = Active(x)
  BY <1>3 DEF Exists, Writing, Published, Active
<1>8. \A x : (Published(x)' \/ Active(x)') => x \in ids
  BY <1>7 DEF Published, Active
<1>9. RowsInOrder'
  <2>1. \A r \in DOMAIN runs : r[1] \in Procs
    BY IdsArePairs DEF Inv, Types, RowType
  <2> QED BY <1>1, <1>2, <1>3, <2>1 DEF Inv, RowsInOrder
<1>10. RowsAreNew' /\ StatusFollowsStep' /\ CutAtEnd'
  BY <1>2, <1>3, <1>7 DEF Inv, RowsAreNew, StatusFollowsStep, CutAtEnd
<1>11. PartsSoFar'
  BY <1>2, <1>5, <1>7 DEF Inv, PartsSoFar, Tables
<1>12. Recorded'
  BY <1>1, <1>2 DEF Inv, Recorded, Alive
<1>13. NewestAtWork'
  <2> SUFFICES ASSUME NEW q \in Procs, Alive(q)', proc'[q].step # "loaded", proc'[q].target \notin overlapped,
                      NEW s \in ids, s[1] # q, runs[s].target = proc'[q].target
               PROVE  Exists(RunId(q))' /\ runs[s].seq < runs'[RunId(q)].seq
    BY <1>1, <1>2, <1>3 DEF NewestAtWork
  <2>1. q # p /\ Alive(q) /\ proc'[q] = proc[q]
    BY <1>2 DEF Alive
  <2>2. Exists(RunId(q)) /\ runs[s].seq < runs[RunId(q)].seq
    BY <1>3, <2>1 DEF Inv, NewestAtWork
  <2>3. RunId(q) \in ids
    BY <1>4, <2>2 DEF Exists
  <2> QED BY <1>2, <1>3, <2>2, <2>3 DEF Exists
<1>14. Replaced'
  <2> SUFFICES ASSUME NEW r \in ids, runs[r].status = "superseded", runs[r].target \notin overlapped
               PROVE  \E s \in ids : Published(s)' /\ SameKey(r, s)' /\ runs[r].seq < runs'[s].seq
    BY <1>1, <1>3 DEF Replaced
  <2>1. PICK s \in DOMAIN runs : Published(s) /\ SameKey(r, s) /\ runs[r].seq < runs[s].seq
    BY <1>3 DEF Inv, Replaced
  <2>2. s \in ids
    BY <1>4, <2>1
  <2> QED BY <1>3, <1>7, <2>1, <2>2 DEF SameKey
<1>15. PublishedWhole'
  <2>1. \A r \in RunIds : Parts(r)' = Parts(r) /\ Parts(r) \subseteq Tables
    BY <1>2, IdsArePairs, PartsOfRun
  <2> QED BY <1>5, <1>7, <1>8, <2>1 DEF Inv, PublishedWhole
<1>16. OneInForce'
  <2> SUFFICES ASSUME NEW r \in RunIds, NEW s \in RunIds, r # s, Active(r)', Active(s)', SameKey(r, s)'
               PROVE  \E x \in {r, s} : /\ RunId(x[1])' = x
                                        /\ "supersede" \in {proc'[x[1]].step, proc'[x[1]].cut}
    BY DEF OneInForce
  <2>1. Active(r) /\ Active(s) /\ SameKey(r, s)
    BY <1>3, <1>7, <1>8 DEF SameKey
  <2>2. PICK x \in {r, s} : RunId(x[1]) = x /\ "supersede" \in {proc[x[1]].step, proc[x[1]].cut}
    BY <2>1 DEF Inv, OneInForce
  <2>3. x[1] \in Procs \ {p}
    BY <1>1, <2>2, IdsArePairs DEF Inv, CutAtEnd
  <2> QED BY <1>2, <2>2, <2>3
<1> QED BY <1>6, <1>9, <1>10, <1>11, <1>12, <1>13, <1>14, <1>15, <1>16 DEF Inv

-----------------------------------------------------------------------------
LEMMA StepInv == Inv /\ [Next]_vars => Inv'
<1> SUFFICES ASSUME Inv, [Next]_vars PROVE Inv'
  OBVIOUS
<1>1. CASE NextDay
  BY <1>1, NextDayInv
<1>2. ASSUME NEW p \in Procs, ReadInputs(p) \/ Step(p) \/ Die(p) PROVE Inv'
  BY <1>2, ReadInputsInv, ForecastInv, WriteResultInv, MarkFailedInv, UpdateStatusInv, SupersedeInv,
     BacktestInv, CleanupInv, DieInv DEF Step
<1>3. CASE UNCHANGED vars
  <2>1. /\ UNCHANGED <<today, inserts, runs, written, proc, overlapped>>
    BY <1>3 DEF vars
  <2>2. Types' /\ RowsInOrder' /\ RowsAreNew'
    BY <2>1 DEF Inv, Types, RowType, ProcType, RowsInOrder, RowsAreNew
  <2>3. PartsSoFar' /\ StatusFollowsStep' /\ CutAtEnd' /\ Recorded' /\ NewestAtWork' /\ Replaced'
    BY <2>1 DEF Inv, PartsSoFar, StatusFollowsStep, CutAtEnd, Recorded, NewestAtWork, Replaced,
                RunId, Exists, Writing, Published, SameKey, Alive
  <2>4. PublishedWhole' /\ OneInForce'
    BY <2>1 DEF Inv, PublishedWhole, OneInForce, Published, Exists, Active, SameKey, RunId, Parts
  <2> QED BY <2>2, <2>3, <2>4 DEF Inv
<1> QED BY <1>1, <1>2, <1>3 DEF Next

(* What the parts above say holds however the processes interleave, end    *)
(* and are killed.                                                         *)
THEOREM ForecastInvariant == Spec => []Inv
<1>1. Init => Inv
  BY InitInv
<1>2. Inv /\ [Next]_vars => Inv'
  BY StepInv
<1> QED BY <1>1, <1>2, PTL DEF Spec

(* The variables keep their types; dependent rows never outlive their run. *)
THEOREM TypeCorrect == Spec => []TypeOK
<1>1. Inv => TypeOK
  <2> SUFFICES ASSUME Inv PROVE TypeOK
    OBVIOUS
  <2>1. \A r \in DOMAIN runs :
          runs[r] \in [target : Dates, day : 0 .. today, seq : 1 .. inserts, status : Statuses]
    BY DEF Inv, Types, RowType, RowsInOrder
  <2>2. overlapped \subseteq Dates
    BY DEF Inv, Types
  <2> QED BY <2>1, <2>2 DEF Inv, Types, RowType, ProcType, TypeOK, Statuses
<1> QED BY <1>1, ForecastInvariant, PTL

(* write_forecast_result publishes a run after its dependent rows, each in *)
(* a transaction of its own: readers never see half of a forecast.         *)
THEOREM Whole == Spec => []PublishedWhole
<1>1. Inv => PublishedWhole
  BY DEF Inv
<1> QED BY <1>1, ForecastInvariant, PTL

(* Two completed runs of one target and variant stand side by side only    *)
(* between update_run_status and mark_previous_runs_superseded.            *)
THEOREM InForce == Spec => []OneInForce
<1>1. Inv => OneInForce
  BY DEF Inv
<1> QED BY <1>1, ForecastInvariant, PTL

(* While the processes of a target take turns, superseding and retention   *)
(* leave its newest published run in force.                                *)
THEOREM Newest == Spec => []NewestInForce
<1>1. Inv => NewestInForce
  <2> SUFFICES ASSUME Inv, NEW r \in RunIds, Published(r), NewestOf(r), runs[r].target \notin overlapped
               PROVE  Active(r)
    BY DEF NewestInForce
  <2>1. r \in DOMAIN runs /\ runs[r].status \in {"completed", "superseded"}
    BY DEF Published, Exists
  <2>2. runs[r].status # "superseded"
    <3> SUFFICES ASSUME runs[r].status = "superseded" PROVE FALSE
      OBVIOUS
    <3>1. PICK s \in DOMAIN runs : Published(s) /\ SameKey(r, s) /\ runs[r].seq < runs[s].seq
      BY <2>1 DEF Inv, Replaced
    <3>2. s \in RunIds /\ runs[s].seq \in Nat /\ runs[r].seq \in Nat
      BY <2>1 DEF Inv, Types, RowType
    <3>3. SameKey(s, r)
      BY <3>1 DEF SameKey
    <3>4. runs[s].seq <= runs[r].seq
      BY <3>1, <3>2, <3>3 DEF NewestOf
    <3> QED BY <3>1, <3>2, <3>4
  <2> QED BY <2>1, <2>2 DEF Active, Exists
<1> QED BY <1>1, ForecastInvariant, PTL

-----------------------------------------------------------------------------
(* The alerts.                                                             *)
Instants == 0 .. LastHour

AlertTypes ==
  /\ home \in [Threads -> Procs] /\ now \in Instants
  /\ state \in [Keys -> Nat] /\ mails \in [Keys -> Nat]
  /\ limit \in [Procs -> Limits]
  /\ forgot \subseteq Keys
  /\ DOMAIN alert = Threads
  /\ \A t \in Threads :
       /\ alert[t].step \in {"idle", "limited", "judge", "write", "send"}
       /\ alert[t].step \in {"judge", "write", "send"} => alert[t].key \in Keys /\ alert[t].stamp \in Instants
       /\ Alerts!At(t, "write") => alert[t].read \in [Keys -> Nat]

(* A thread that has judged holds the lock of its process, alone.          *)
OneWriter ==
  /\ \A t \in Threads : Alerts!At(t, "write") => t \in lock
  /\ \A t, u \in Threads : Alerts!At(t, "write") /\ Alerts!At(u, "write") /\ home[t] = home[u] => t = u
  /\ lock \subseteq {t \in Threads : Alerts!At(t, "write")}

(* What it has read is what the file holds, but for keys that are lost, or *)
(* another process has written the file last; and what it has read lets it *)
(* write.                                                                  *)
FreshRead ==
  \A t \in Threads : Alerts!At(t, "write") =>
    /\ \A k \in Keys \ forgot : alert[t].read[k] = state[k] \/ writer # home[t]
    /\ alert[t].read[alert[t].key] # Alerts!Never =>
         alert[t].read[alert[t].key] + limit[home[t]] <= alert[t].stamp

(* The file has the latest mail of a key that is not lost, and no other.   *)
MailsRecorded == \A k \in Keys \ forgot : \A m \in Alerts!Mails(k) : state[k] # Alerts!Never /\ m <= state[k]
RecordsMailed ==
  \A k \in Keys \ (cut \cup forgot) : state[k] # Alerts!Never => \E m \in Alerts!Mails(k) : state[k] <= m

AlertInv == AlertTypes /\ OneWriter /\ FreshRead /\ MailsRecorded /\ RecordsMailed

(* In the beginning nothing is recorded, and nothing was mailed.           *)
LEMMA AlertInit == Alerts!Init => AlertInv
<1> SUFFICES ASSUME Alerts!Init PROVE AlertInv
  OBVIOUS
<1>1. AlertTypes
  <2>1. Alerts!Never \in Nat /\ 0 \in Instants
    BY AlertsAssumption DEF Alerts!Never, Instants
  <2>2. DOMAIN alert = Threads /\ \A t \in Threads : alert[t].step = "idle"
    BY DEF Alerts!Init, Alerts!Idle
  <2> QED BY <2>1, <2>2 DEF Alerts!Init, Alerts!NoState, AlertTypes, Alerts!At
<1>2. OneWriter /\ FreshRead
  BY DEF Alerts!Init, OneWriter, FreshRead, Alerts!Idle, Alerts!At
<1>3. \A k \in Keys : Alerts!Mails(k) = {} /\ state[k] = Alerts!Never
  BY DEF Alerts!Init, Alerts!NoState, Alerts!Mails, Alerts!Idle, Alerts!At
<1> QED BY <1>1, <1>2, <1>3 DEF AlertInv, MailsRecorded, RecordsMailed

(* A step of the clock, and of a thread that leaves the file, the lock and *)
(* the mails alone.                                                        *)
LEMMA TickInv == AlertInv /\ Alerts!Tick => AlertInv'
<1> SUFFICES ASSUME AlertInv, Alerts!Tick PROVE AlertInv'
  OBVIOUS
<1> USE DEF Alerts!Tick, Alerts!told, AlertInv
<1>1. AlertTypes'
  BY AlertsAssumption DEF AlertTypes, Instants, Alerts!At
<1>2. OneWriter' /\ FreshRead'
  BY DEF OneWriter, FreshRead, Alerts!At
<1>3. MailsRecorded' /\ RecordsMailed'
  BY DEF MailsRecorded, RecordsMailed, Alerts!Mails, Alerts!At
<1> QED BY <1>1, <1>2, <1>3

(* An alert waits for its judgement.                                       *)
LEMMA EmitInv == ASSUME AlertInv, NEW t \in Threads, NEW k \in Keys, Alerts!Emit(t, k) PROVE AlertInv'
<1> USE DEF Alerts!Emit, Alerts!told, AlertInv, Alerts!Goto
<1>0. alert' = [alert EXCEPT ![t] = [step |-> "judge", key |-> k, stamp |-> now]]
  OBVIOUS
<1>1. AlertTypes'
  BY <1>0 DEF AlertTypes, Instants, Alerts!At
<1>2. OneWriter' /\ FreshRead'
  BY <1>0 DEF OneWriter, FreshRead, Alerts!At, AlertTypes
<1>3. \A i \in Keys : Alerts!Mails(i)' = Alerts!Mails(i)
  BY <1>0 DEF Alerts!Mails, Alerts!At, AlertTypes
<1>4. MailsRecorded' /\ RecordsMailed'
  BY <1>3 DEF MailsRecorded, RecordsMailed
<1> QED BY <1>1, <1>2, <1>4

(* What is judged is in the file, and the lock keeps it there.             *)
LEMMA JudgeInv == ASSUME AlertInv, NEW t \in Threads, Alerts!IsRateLimited(t) PROVE AlertInv'
<1> USE DEF AlertInv, Alerts!Goto
<1> PICK read \in {state, Alerts!NoState} : Alerts!Judge(t, read)
  BY DEF Alerts!IsRateLimited, Alerts!Judges
<1>0. /\ Alerts!Free(t) /\ Alerts!At(t, "judge") /\ UNCHANGED <<home, now, state, writer, limit, mails, cut>>
      /\ read \in [Keys -> Nat]
  BY AlertsAssumption DEF Alerts!IsRateLimited, Alerts!Judges, Alerts!NoState, Alerts!Never, AlertTypes
<1>1. CASE alert' = [alert EXCEPT ![t] = [step |-> "limited"]] /\ UNCHANGED <<lock, forgot>>
  <2>1. AlertTypes'
    BY <1>0, <1>1 DEF AlertTypes, Instants, Alerts!At
  <2>2. OneWriter' /\ FreshRead'
    BY <1>0, <1>1 DEF OneWriter, FreshRead, Alerts!At, AlertTypes
  <2>3. \A i \in Keys : Alerts!Mails(i)' = Alerts!Mails(i)
    BY <1>0, <1>1 DEF Alerts!Mails, Alerts!At, AlertTypes
  <2>4. MailsRecorded' /\ RecordsMailed'
    BY <1>0, <1>1, <2>3 DEF MailsRecorded, RecordsMailed
  <2> QED BY <2>1, <2>2, <2>4
<1>2. CASE /\ ~Alerts!Limited(t, read) /\ lock' = lock \cup {t}
           /\ alert' = [alert EXCEPT ![t] = [step |-> "write", key |-> alert[t].key,
                                             stamp |-> alert[t].stamp, read |-> read]]
           /\ forgot' = forgot \cup {k \in Keys : read[k] # state[k]}
  <2>0. /\ alert'[t] = [step |-> "write", key |-> alert[t].key, stamp |-> alert[t].stamp, read |-> read]
        /\ \A u \in Threads \ {t} : alert'[u] = alert[u]
        /\ DOMAIN alert' = Threads
    BY <1>2 DEF AlertTypes
  <2>1. AlertTypes'
    BY <1>0, <1>2, <2>0 DEF AlertTypes, Instants, Alerts!At
  <2>2. OneWriter'
    BY <1>0, <1>2, <2>0 DEF OneWriter, Alerts!At, Alerts!Free
  <2>3. FreshRead'
    <3>1. read[alert[t].key] # Alerts!Never => read[alert[t].key] + limit[home[t]] <= alert[t].stamp
      <4>1. alert[t].key \in Keys /\ alert[t].stamp \in Nat
        BY <1>0, AlertsAssumption DEF AlertTypes, Alerts!At, Instants
      <4>2. limit[home[t]] \in Nat
        BY AlertsAssumption DEF AlertTypes
      <4>3. read[alert[t].key] \in Nat
        BY <1>0, <4>1
      <4> QED BY <1>2, <4>1, <4>2, <4>3 DEF Alerts!Limited
    <3>2. \A k \in Keys \ forgot' : k \notin forgot /\ read[k] = state[k]
      BY <1>2
    <3>3. ASSUME NEW u \in Threads, Alerts!At(u, "write")'
          PROVE  /\ \A k \in Keys \ forgot' : alert'[u].read[k] = state'[k] \/ writer' # home'[u]
                 /\ alert'[u].read[alert'[u].key] # Alerts!Never =>
                      alert'[u].read[alert'[u].key] + limit'[home'[u]] <= alert'[u].stamp
      <4>1. CASE u = t
        BY <1>0, <2>0, <3>1, <3>2, <4>1
      <4>2. CASE u # t
        BY <1>0, <2>0, <3>2, <3>3, <4>2 DEF FreshRead, Alerts!At
      <4> QED BY <4>1, <4>2
    <3> QED BY <3>3 DEF FreshRead
  <2>4. \A i \in Keys : Alerts!Mails(i)' = Alerts!Mails(i)
    BY <1>0, <2>0 DEF Alerts!Mails, Alerts!At
  <2>5. MailsRecorded' /\ RecordsMailed'
    BY <1>0, <1>2, <2>4 DEF MailsRecorded, RecordsMailed
  <2> QED BY <2>1, <2>2, <2>3, <2>5
<1> QED BY <1>1, <1>2 DEF Alerts!Judge

(* The file has the stamp that was judged against it.                      *)
LEMMA WriteInv == ASSUME AlertInv, NEW t \in Threads, Alerts!WriteState(t) PROVE AlertInv'
<1> USE DEF AlertInv
<1> PICK k \in Keys, s \in Nat : k = alert[t].key /\ s = alert[t].stamp
  BY AlertsAssumption DEF Alerts!WriteState, AlertTypes, Instants, Alerts!At
<1>0. /\ alert'[t] = [step |-> "send", key |-> k, stamp |-> s]
      /\ \A u \in Threads \ {t} : alert'[u] = alert[u]
      /\ DOMAIN alert' = Threads /\ Alerts!At(t, "write") /\ UNCHANGED <<home, now, limit, mails, cut>>
      /\ writer' = home[t] /\ lock' = lock \ {t}
      /\ forgot' = forgot \cup {i \in Keys : alert[t].read[i] # state[i] /\ writer # home[t]}
      /\ k \in Keys /\ s \in Nat /\ s # Alerts!Never /\ s \in Instants /\ alert[t].read \in [Keys -> Nat]
      /\ state' = [alert[t].read EXCEPT ![k] = s]
  BY AlertsAssumption DEF Alerts!WriteState, Alerts!Goto, AlertTypes, Instants, Alerts!Never, Alerts!At
<1>1. AlertTypes'
  BY <1>0 DEF AlertTypes, Alerts!At
<1>2. OneWriter'
  BY <1>0 DEF OneWriter, Alerts!At
<1>3. FreshRead'
  <2> SUFFICES ASSUME NEW u \in Threads, Alerts!At(u, "write")'
               PROVE /\ \A i \in Keys \ forgot' : alert'[u].read[i] = state'[i] \/ writer' # home'[u]
                     /\ alert'[u].read[alert'[u].key] # Alerts!Never =>
                          alert'[u].read[alert'[u].key] + limit'[home'[u]] <= alert'[u].stamp
    BY DEF FreshRead
  <2>1. u # t /\ Alerts!At(u, "write") /\ alert'[u] = alert[u]
    BY <1>0 DEF Alerts!At
  <2>2. home[u] # home[t]
    BY <1>0, <2>1 DEF OneWriter
  <2> QED BY <1>0, <2>1, <2>2 DEF FreshRead
<1>4. /\ \A i \in Keys \ forgot' : i \notin forgot /\ alert[t].read[i] = state[i]
      /\ state'[k] = s /\ \A i \in Keys \ {k} : state'[i] = alert[t].read[i]
      /\ s \in Alerts!Mails(k)' /\ \A m : m \in Alerts!Mails(k)' => m = s \/ m \in Alerts!Mails(k)
      /\ \A i \in Keys \ {k} : Alerts!Mails(i)' = Alerts!Mails(i)
  <2>1. \A i \in Keys \ forgot' : i \notin forgot /\ alert[t].read[i] = state[i]
    BY <1>0 DEF FreshRead
  <2>2. state'[k] = s /\ \A i \in Keys \ {k} : state'[i] = alert[t].read[i]
    BY <1>0
  <2>3. s \in Alerts!Mails(k)' /\ \A m : m \in Alerts!Mails(k)' => m = s \/ m \in Alerts!Mails(k)
    BY <1>0 DEF Alerts!Mails, Alerts!At
  <2>4. \A i \in Keys \ {k} : Alerts!Mails(i)' = Alerts!Mails(i)
    BY <1>0 DEF Alerts!Mails, Alerts!At
  <2> QED BY <2>1, <2>2, <2>3, <2>4
<1>5. MailsRecorded'
  <2> SUFFICES ASSUME NEW i \in Keys \ forgot', NEW m \in Alerts!Mails(i)'
               PROVE  state'[i] # Alerts!Never /\ m <= state'[i]
    BY DEF MailsRecorded
  <2>1. CASE i # k
    BY <1>4, <2>1 DEF MailsRecorded
  <2>2. CASE i = k /\ m = s
    BY <1>0, <1>4, <2>2
  <2>3. CASE i = k /\ m \in Alerts!Mails(k)
    <3>1. m \in Nat /\ limit[home[t]] \in Nat /\ state[k] \in Nat
      <4>1. m \in Nat
        BY <1>0, <2>3 DEF Alerts!Mails, AlertTypes, Alerts!At, Instants
      <4> QED BY <1>0, <4>1, AlertsAssumption DEF AlertTypes
    <3>2. alert[t].read[k] = state[k] /\ state[k] # Alerts!Never /\ m <= state[k]
      BY <1>4, <2>3 DEF MailsRecorded
    <3>3. state[k] + limit[home[t]] <= s
      BY <1>0, <3>2 DEF FreshRead
    <3> QED BY <1>0, <1>4, <2>3, <3>1, <3>2, <3>3
  <2> QED BY <1>4, <2>1, <2>2, <2>3
<1>6. RecordsMailed'
  <2> SUFFICES ASSUME NEW i \in Keys \ (cut \cup forgot'), state'[i] # Alerts!Never
               PROVE  \E m \in Alerts!Mails(i)' : state'[i] <= m
    BY <1>0 DEF RecordsMailed
  <2>1. CASE i # k
    BY <1>4, <2>1 DEF RecordsMailed
  <2>2. CASE i = k
    BY <1>0, <1>4, <2>2
  <2> QED BY <2>1, <2>2
<1> QED BY <1>1, <1>2, <1>3, <1>5, <1>6

(* A file that cannot be written stays as it is.                           *)
LEMMA FailInv == ASSUME AlertInv, NEW t \in Threads, Alerts!WriteFails(t) PROVE AlertInv'
<1> USE DEF AlertInv
<1>0. /\ alert'[t] = Alerts!Idle /\ \A u \in Threads \ {t} : alert'[u] = alert[u]
      /\ DOMAIN alert' = Threads /\ Alerts!At(t, "write") /\ lock' = lock \ {t}
      /\ UNCHANGED <<home, now, state, writer, limit, Alerts!told>>
  BY DEF Alerts!WriteFails, Alerts!Goto, AlertTypes
<1> USE DEF Alerts!told, Alerts!Idle
<1>1. AlertTypes'
  BY <1>0 DEF AlertTypes, Alerts!At
<1>2. OneWriter' /\ FreshRead'
  BY <1>0 DEF OneWriter, FreshRead, Alerts!At
<1>3. \A i \in Keys : Alerts!Mails(i)' = Alerts!Mails(i)
  BY <1>0 DEF Alerts!Mails, Alerts!At
<1>4. MailsRecorded' /\ RecordsMailed'
  BY <1>0, <1>3 DEF MailsRecorded, RecordsMailed
<1> QED BY <1>1, <1>2, <1>4

(* A mail that goes to the server is still, or once more, among the mails. *)
LEMMA SendInv == ASSUME AlertInv, NEW t \in Threads, Alerts!EmitSmtp(t) PROVE AlertInv'
<1> USE DEF AlertInv
<1> PICK k \in Keys, s \in Nat : k = alert[t].key /\ s = alert[t].stamp /\ s # Alerts!Never
  BY AlertsAssumption DEF Alerts!EmitSmtp, AlertTypes, Instants, Alerts!Never, Alerts!At
<1> PICK latest \in Nat : latest = IF mails[k] = Alerts!Never \/ mails[k] < s THEN s ELSE mails[k]
  BY DEF AlertTypes
<1>0. /\ alert'[t] = Alerts!Idle /\ \A u \in Threads \ {t} : alert'[u] = alert[u]
      /\ DOMAIN alert' = Threads /\ Alerts!At(t, "send")
      /\ UNCHANGED <<home, now, state, writer, limit, lock, cut, forgot>>
      /\ mails' = [mails EXCEPT ![k] = latest] /\ mails \in [Keys -> Nat]
  BY DEF Alerts!EmitSmtp, Alerts!Goto, AlertTypes
<1>1. AlertTypes'
  BY <1>0 DEF AlertTypes, Alerts!At, Alerts!Idle
<1>2. OneWriter' /\ FreshRead'
  BY <1>0 DEF OneWriter, FreshRead, Alerts!At, Alerts!Idle
<1>3. \A i \in Keys \ {k} : Alerts!Mails(i)' = Alerts!Mails(i)
  BY <1>0 DEF Alerts!Mails, Alerts!At, Alerts!Idle
<1>4. \A m \in Alerts!Mails(k)' : m \in Alerts!Mails(k)
  <2> SUFFICES ASSUME NEW m \in Alerts!Mails(k)' PROVE m \in Alerts!Mails(k)
    OBVIOUS
  <2>1. CASE m = mails'[k] /\ m # Alerts!Never
    BY <1>0, <2>1 DEF Alerts!Mails
  <2>2. CASE \E u \in Threads : Alerts!At(u, "send")' /\ alert'[u].key = k /\ m = alert'[u].stamp
    BY <1>0, <2>2 DEF Alerts!Mails, Alerts!At, Alerts!Idle
  <2> QED BY <2>1, <2>2 DEF Alerts!Mails
<1>5. \A m \in Alerts!Mails(k) : \E n \in Alerts!Mails(k)' : m \in Nat /\ n \in Nat /\ m <= n
  <2> SUFFICES ASSUME NEW m \in Alerts!Mails(k) PROVE \E n \in Alerts!Mails(k)' : m \in Nat /\ n \in Nat /\ m <= n
    OBVIOUS
  <2>1. mails'[k] = latest /\ latest \in Nat /\ latest # Alerts!Never /\ latest \in Alerts!Mails(k)'
    BY <1>0 DEF Alerts!Mails
  <2>2. CASE m = mails[k] /\ m # Alerts!Never
    BY <1>0, <2>1, <2>2
  <2>3. CASE m = s
    BY <1>0, <2>1, <2>3
  <2>4. CASE \E u \in Threads \ {t} : Alerts!At(u, "send") /\ alert[u].key = k /\ m = alert[u].stamp
    <3>1. m \in Alerts!Mails(k)'
      BY <1>0, <2>4 DEF Alerts!Mails, Alerts!At
    <3>2. m \in Nat
      BY <2>4 DEF AlertTypes, Alerts!At, Instants
    <3> QED BY <3>1, <3>2
  <2> QED BY <2>2, <2>3, <2>4 DEF Alerts!Mails
<1>6. MailsRecorded'
  BY <1>0, <1>3, <1>4 DEF MailsRecorded
<1>7. RecordsMailed'
  <2> SUFFICES ASSUME NEW i \in Keys \ (cut \cup forgot), state[i] # Alerts!Never
               PROVE  \E m \in Alerts!Mails(i)' : state[i] <= m
    BY <1>0 DEF RecordsMailed
  <2>1. PICK m \in Alerts!Mails(i) : state[i] <= m
    BY DEF RecordsMailed
  <2>2. CASE i # k
    BY <1>3, <2>1, <2>2
  <2>3. CASE i = k
    <3>1. PICK n \in Alerts!Mails(k)' : m \in Nat /\ n \in Nat /\ m <= n
      BY <1>5, <2>1, <2>3
    <3>2. state[i] \in Nat
      BY DEF AlertTypes
    <3> QED BY <2>1, <2>3, <3>1, <3>2
  <2> QED BY <2>2, <2>3
<1> QED BY <1>1, <1>2, <1>6, <1>7

(* The mails on their way in a process that dies are recorded, and cut.    *)
LEMMA KillInv == ASSUME AlertInv, NEW p \in Procs, Alerts!Kill(p) PROVE AlertInv'
<1> USE DEF AlertInv
<1> DEFINE own == {t \in Threads : home[t] = p}
<1>0. /\ \A t \in own : alert'[t] = Alerts!Idle
      /\ \A t \in Threads \ own : alert'[t] = alert[t]
      /\ DOMAIN alert' = Threads /\ lock' = lock \ own
      /\ UNCHANGED <<home, now, state, writer, mails, forgot>>
      /\ cut' = cut \cup {alert[t].key : t \in {u \in own : Alerts!At(u, "send")}}
      /\ limit' \in [Procs -> Limits] /\ \A q \in Procs \ {p} : limit'[q] = limit[q]
  BY DEF Alerts!Kill, AlertTypes
<1>1. AlertTypes'
  BY <1>0 DEF AlertTypes, Alerts!At, Alerts!Idle
<1>2. OneWriter'
  BY <1>0 DEF OneWriter, Alerts!At, Alerts!Idle
<1>3. FreshRead'
  BY <1>0 DEF FreshRead, Alerts!At, Alerts!Idle, AlertTypes
<1>4. \A i \in Keys : \A m \in Alerts!Mails(i)' : m \in Alerts!Mails(i)
  BY <1>0 DEF Alerts!Mails, Alerts!At, Alerts!Idle
<1>5. \A i \in Keys \ cut' : \A m \in Alerts!Mails(i) : m \in Alerts!Mails(i)'
  BY <1>0 DEF Alerts!Mails, Alerts!At
<1> HIDE DEF own
<1>6. MailsRecorded'
  BY <1>0, <1>4 DEF MailsRecorded
<1>7. RecordsMailed'
  BY <1>0, <1>5 DEF RecordsMailed
<1> QED BY <1>1, <1>2, <1>3, <1>6, <1>7

(* Every step keeps the invariant.                                         *)
LEMMA AlertStep == AlertInv /\ [Alerts!Next]_(Alerts!vars) => AlertInv'
<1> SUFFICES ASSUME AlertInv, [Alerts!Next]_(Alerts!vars) PROVE AlertInv'
  OBVIOUS
<1>1. CASE UNCHANGED Alerts!vars
  <2>0. UNCHANGED <<home, now, state, writer, limit, lock, alert, mails, cut, forgot>>
    BY <1>1 DEF Alerts!vars
  <2>1. AlertTypes'
    BY <2>0 DEF AlertInv, AlertTypes, Alerts!At
  <2>2. OneWriter' /\ FreshRead'
    BY <2>0 DEF AlertInv, OneWriter, FreshRead, Alerts!At
  <2>3. \A k \in Keys : Alerts!Mails(k)' = Alerts!Mails(k)
    BY <2>0 DEF Alerts!Mails, Alerts!At
  <2>4. MailsRecorded' /\ RecordsMailed'
    BY <2>0, <2>3 DEF AlertInv, MailsRecorded, RecordsMailed
  <2> QED BY <2>1, <2>2, <2>4 DEF AlertInv
<1> QED BY <1>1, TickInv, EmitInv, JudgeInv, WriteInv, FailInv, SendInv, KillInv DEF Alerts!Next

(* A mail is sent, or an alert silenced, by what the file says, which is   *)
(* what was mailed.                                                        *)
LEMMA LimitsStep == AlertInv /\ [Alerts!Next]_(Alerts!vars) => Alerts!LimitsAlone
<1> SUFFICES ASSUME AlertInv, [Alerts!Next]_(Alerts!vars), NEW t \in Threads
             PROVE  /\ Alerts!At(t, "write") /\ alert'[t].step = "send" => ~Alerts!Recent(t) \/ alert[t].key \in forgot'
                    /\ Alerts!At(t, "judge") /\ alert'[t].step = "limited"
                         => Alerts!Recent(t) \/ alert[t].key \in cut \cup forgot
  BY DEF Alerts!LimitsAlone
<1> USE DEF AlertInv
<1>0. /\ DOMAIN alert = Threads /\ Instants \subseteq Nat /\ Limits \subseteq Nat
  BY AlertsAssumption DEF AlertTypes, Instants
<1>7. /\ DOMAIN alert = Threads
      /\ \A u \in Threads : alert[u].step \in {"judge", "write"} => alert[u].key \in Keys /\ alert[u].stamp \in Nat
      /\ \A u \in Threads : limit[home[u]] \in Nat
      /\ state \in [Keys -> Nat]
  BY <1>0 DEF AlertTypes
<1>1. ASSUME Alerts!At(t, "write"), alert'[t].step = "send", alert[t].key \notin forgot' PROVE ~Alerts!Recent(t)
  <2>1. Alerts!WriteState(t)
    <3>1. ~(\E p \in Procs : Alerts!Kill(p))
      BY <1>7, <1>1 DEF Alerts!Kill, Alerts!Idle, Alerts!At
    <3>2. \A u \in Threads : /\ \A k \in Keys : ~Alerts!Emit(u, k)
                             /\ ~Alerts!IsRateLimited(u) /\ ~Alerts!WriteFails(u) /\ ~Alerts!EmitSmtp(u)
                             /\ Alerts!WriteState(u) => u = t
      BY <1>7, <1>1 DEF Alerts!Emit, Alerts!IsRateLimited, Alerts!Judges, Alerts!Judge, Alerts!WriteFails, Alerts!EmitSmtp, Alerts!WriteState, Alerts!Goto, Alerts!Idle, Alerts!At
    <3> QED BY <1>1, <3>1, <3>2 DEF Alerts!Next, Alerts!Tick, Alerts!vars, Alerts!At
  <2>2. alert[t].key \in Keys \ forgot /\ alert[t].read[alert[t].key] = state[alert[t].key]
    BY <1>1, <1>7, <2>1 DEF Alerts!WriteState, FreshRead, Alerts!At
  <2>3. state[alert[t].key] # Alerts!Never => state[alert[t].key] + limit[home[t]] <= alert[t].stamp
    BY <1>1, <2>2 DEF FreshRead
  <2> SUFFICES ASSUME NEW m \in Alerts!Mails(alert[t].key) PROVE ~(alert[t].stamp < m + limit[home[t]])
    BY DEF Alerts!Recent
  <2>4. m \in Nat
    BY <1>7, <1>1 DEF Alerts!Mails, AlertTypes, Instants, Alerts!At
  <2>5. state[alert[t].key] # Alerts!Never /\ m <= state[alert[t].key] /\ state[alert[t].key] \in Nat
    BY <1>7, <1>1, <2>2 DEF MailsRecorded, Alerts!At
  <2> QED BY <1>7, <1>1, <2>3, <2>4, <2>5 DEF Alerts!At
<1>2. ASSUME Alerts!At(t, "judge"), alert'[t].step = "limited", alert[t].key \notin cut \cup forgot PROVE Alerts!Recent(t)
  <2>1. Alerts!IsRateLimited(t)
    <3>1. ~(\E p \in Procs : Alerts!Kill(p))
      BY <1>7, <1>2 DEF Alerts!Kill, Alerts!Idle, Alerts!At
    <3>2. \A u \in Threads : /\ \A k \in Keys : ~Alerts!Emit(u, k)
                             /\ ~Alerts!WriteState(u) /\ ~Alerts!WriteFails(u) /\ ~Alerts!EmitSmtp(u)
                             /\ Alerts!IsRateLimited(u) => u = t
      BY <1>7, <1>2 DEF Alerts!Emit, Alerts!IsRateLimited, Alerts!Judges, Alerts!Judge, Alerts!WriteFails, Alerts!EmitSmtp, Alerts!WriteState, Alerts!Goto, Alerts!Idle, Alerts!At
    <3> QED BY <1>2, <3>1, <3>2 DEF Alerts!Next, Alerts!Tick, Alerts!vars, Alerts!At
  <2>2. Alerts!Limited(t, state)
    <3>1. PICK read \in {state, Alerts!NoState} : Alerts!Judge(t, read)
      BY <2>1 DEF Alerts!IsRateLimited, Alerts!Judges
    <3>2. Alerts!Limited(t, read)
      BY <1>7, <1>2, <3>1 DEF Alerts!Judge, Alerts!Goto
    <3>3. ~Alerts!Limited(t, Alerts!NoState)
      BY <1>7, <1>2 DEF Alerts!Limited, Alerts!NoState, Alerts!At
    <3> QED BY <3>1, <3>2, <3>3
  <2>3. PICK m \in Alerts!Mails(alert[t].key) : state[alert[t].key] <= m
    BY <1>7, <1>2, <2>2 DEF RecordsMailed, Alerts!Limited, Alerts!At
  <2>4. m \in Nat /\ state[alert[t].key] \in Nat
    BY <1>7, <1>2 DEF Alerts!Mails, AlertTypes, Instants, Alerts!At
  <2> QED BY <1>7, <1>2, <2>2, <2>3, <2>4 DEF Alerts!Recent, Alerts!Limited, Alerts!At
<1> QED BY <1>1, <1>2

(* Alerts as their run checks them, where now stays -1 unless alerts are   *)
(* sent.                                                                   *)
MCInv == now = -1 \/ (now \in Nat /\ AlertInv)

LEMMA MCInvariant == MCSpec => []MCInv
<1>1. MCInit => MCInv
  BY AlertInit DEF MCInit, MCInv, AlertInv, AlertTypes, Instants
<1>2. MCInv /\ [MCNext]_<<vars, mailing>> => MCInv'
  <2> SUFFICES ASSUME MCInv, [MCNext]_<<vars, mailing>> PROVE MCInv'
    OBVIOUS
  <2>1. CASE UNCHANGED mailing
    <3>1. UNCHANGED Alerts!vars /\ UNCHANGED now
      BY <2>1 DEF mailing, Alerts!vars
    <3> QED BY <3>1, AlertStep DEF MCInv
  <2>2. CASE now >= 0 /\ Alerts!Next
    <3>1. AlertInv'
      BY <2>2, AlertStep DEF MCInv
    <3> QED BY <3>1 DEF MCInv, AlertInv, AlertTypes, Instants
  <2> QED BY <2>1, <2>2 DEF MCNext
<1> QED BY <1>1, <1>2, PTL DEF MCSpec

(* For any threads, processes, keys, limits and hours: an alert is held    *)
(* back only by a recent mail of its crawler and subject, and only that    *)
(* holds it back.                                                          *)
THEOREM OneMailPerLimit == MCSpec => AlertsLimited
<1>1. MCInv /\ [MCNext]_<<vars, mailing>> => [now >= 0 => Alerts!LimitsAlone]_<<vars, mailing>>
  <2> SUFFICES ASSUME MCInv, [MCNext]_<<vars, mailing>>, ~UNCHANGED <<vars, mailing>>, now >= 0
               PROVE  Alerts!LimitsAlone
    OBVIOUS
  <2>1. ~(now < 0) /\ now # -1
    BY DEF MCInv
  <2>2. Alerts!Next /\ AlertInv
    BY <2>1 DEF MCNext, MCInv
  <2> QED BY <2>2, LimitsStep
<1> QED BY <1>1, MCInvariant, PTL DEF MCSpec, AlertsLimited

=============================================================================
