------------------------- MODULE GapfillRunsProofs -------------------------
(***************************************************************************)
(* What the row of a gap filling run, its metrics and its exit code tell,  *)
(* for any tables, any calls of the script and any errors and kills.       *)
(***************************************************************************)
EXTENDS GapfillRuns, TLAPS

Elements(tables) == {tables[n] : n \in 1 .. Len(tables)}

LocalType ==
  [inv : Invocations, todo : Seq(Names), seen : Revisions, max : Revisions, rows : Revisions, failed : Nat]

RowType ==
  [status : Statuses, inv : Invocations, tables : Seq(Names), since : [Tables -> Revisions]]

InTable == {"window", "read", "replace", "track", "metrics", "error"}

Types ==
  /\ TypeOK
  /\ local \in LocalType /\ row \in RowType
  /\ pc # "idle" => local.todo \in Seq(Tables)
  /\ pc \in InTable => local.todo # <<>>

(* The watermark is not ahead of the target, which is not ahead of the     *)
(* source.                                                                 *)
Ordered ==
  \A t \in Tables :
    tracking[t] <= target[t] /\ target[t] <= source[t] /\ row.since[t] <= source[t]

(* A run that writes the tables for good, rather than a window of them.    *)
Plain == ~local.inv.dry /\ local.inv.window = "none"

UpToDate(t) == target[t] >= row.since[t]

(* What is known of the table that is worked on.                           *)
TableSoFar ==
  /\ pc = "window" => local.seen <= target[Table]
  /\ pc = "read" => local.max <= source[Table]
  /\ pc = "replace" => /\ local.max <= local.rows /\ local.rows <= source[Table]
                       /\ target[Table] <= local.rows /\ row.since[Table] <= local.rows
  /\ pc = "track" => local.max <= target[Table] /\ UpToDate(Table)
  /\ pc = "metrics" /\ Plain => UpToDate(Table)

(* What is known of the tables behind it.                                  *)
RunSoFar ==
  /\ row.status = "running" /\ row.inv = local.inv /\ exit = Unset
  /\ Asked = Reported \cup Elements(local.todo)
  /\ local.failed = 0 <=> Failed = {}
  /\ Plain => \A t \in Reported \ Failed : UpToDate(t)

RunsInv == Types /\ Ordered /\ (pc # "idle" => RunSoFar /\ TableSoFar) /\ StatusTells

-----------------------------------------------------------------------------
(* The list of a call, and the tables that are left of it.                 *)
LEMMA SelectedIs ==
  ASSUME NEW i \in Invocations
  PROVE  /\ Selected(i) \in Seq(Names)
         /\ Accepted(i) => Selected(i) \in Seq(Tables)
<1>1. i.tables \in {Unset} \cup Seq(Names) /\ i.configured \in {Unset} \cup Seq(Names)
  BY GapfillRunsAssumption DEF InvocationType
<1>2. DefaultTables \in Seq(Names)
  BY GapfillRunsAssumption
<1>3. Selected(i) \in Seq(Names)
  BY <1>1, <1>2 DEF Selected
<1>4. ASSUME Accepted(i) PROVE Selected(i) \in Seq(Tables)
  <2>1. PICK s : s = Selected(i)
    OBVIOUS
  <2>2. s \in Seq(Names) /\ \A n \in 1 .. Len(s) : s[n] \in Tables
    BY <1>3, <1>4, <2>1 DEF Accepted
  <2>3. s \in Seq(Tables)
    BY <2>2
  <2> QED BY <2>1, <2>3
<1> QED BY <1>3, <1>4

(* A list of tables is its head and the rest.                              *)
LEMMA TailIs ==
  ASSUME NEW s \in Seq(Tables), s # <<>>
  PROVE  /\ Head(s) \in Tables /\ Tail(s) \in Seq(Tables) /\ Tail(s) \in Seq(Names)
         /\ Elements(s) = {Head(s)} \cup Elements(Tail(s))
<1>1. Tables \subseteq Names
  BY GapfillRunsAssumption
<1>2. Head(s) = s[1] /\ Head(s) \in Tables /\ Len(s) \in Nat \ {0}
  OBVIOUS
<1>3. /\ Tail(s) \in Seq(Tables) /\ Len(Tail(s)) = Len(s) - 1
      /\ \A n \in 1 .. Len(s) - 1 : Tail(s)[n] = s[n + 1]
  OBVIOUS
<1>4. Tail(s) \in Seq(Names)
  BY <1>1, <1>3
<1>5. ASSUME NEW x \in Elements(s) PROVE x \in {Head(s)} \cup Elements(Tail(s))
  <2>1. PICK n \in 1 .. Len(s) : x = s[n]
    BY DEF Elements
  <2>2. CASE n = 1
    BY <1>2, <2>1, <2>2
  <2>3. CASE n # 1
    <3>1. n - 1 \in 1 .. Len(s) - 1 /\ Tail(s)[n - 1] = s[n]
      BY <1>2, <1>3, <2>1, <2>3
    <3> QED BY <1>3, <2>1, <3>1 DEF Elements
  <2> QED BY <2>2, <2>3
<1>6. ASSUME NEW x \in Elements(Tail(s)) PROVE x \in Elements(s)
  <2>1. PICK n \in 1 .. Len(s) - 1 : x = s[n + 1]
    BY <1>3 DEF Elements
  <2>2. n + 1 \in 1 .. Len(s)
    BY <1>2, <2>1
  <2> QED BY <2>1, <2>2 DEF Elements
<1>7. Head(s) \in Elements(s)
  BY <1>2 DEF Elements
<1> QED BY <1>2, <1>3, <1>4, <1>5, <1>6, <1>7

(* A metric is one more table that is reported.                            *)
LEMMA MetricIs ==
  ASSUME NEW status, Says(status)
  PROVE  /\ Reported' = Reported \cup {Table}
         /\ status = "error" => Failed' = Failed \cup {Table}
         /\ status # "error" => Failed' = Failed
<1>1. PICK t, m : t = Table /\ m = <<t, status>>
  OBVIOUS
<1>2. metrics' = metrics \cup {m} /\ m[1] = t /\ m[2] = status
  BY <1>1 DEF Says
<1>3. Reported' = Reported \cup {Table}
  BY <1>1, <1>2 DEF Reported
<1>4. status = "error" => Failed' = Failed \cup {Table}
  BY <1>1, <1>2 DEF Failed
<1>5. status # "error" => Failed' = Failed
  BY <1>1, <1>2 DEF Failed
<1> QED BY <1>3, <1>4, <1>5

(* While a run is at work nothing is told yet.                             *)
LEMMA NothingTold ==
  ASSUME row.status = "running", exit = Unset
  PROVE  StatusTells
  BY GapfillRunsAssumption DEF StatusTells

-----------------------------------------------------------------------------
(* The steps.                                                              *)
LEMMA InitRuns == Init => RunsInv
<1> SUFFICES ASSUME Init PROVE RunsInv
  OBVIOUS
<1>1. PICK i \in Invocations : row = Row(i, "none") /\ local = Fresh(i)
  BY DEF Init
<1>2. /\ source \in [Tables -> Revisions] /\ target \in [Tables -> Revisions]
      /\ tracking \in [Tables -> Revisions]
      /\ \A t \in Tables : target[t] = 0 /\ tracking[t] = 0 /\ source[t] \in Nat
  BY GapfillRunsAssumption DEF Init, Revisions
<1>3. row \in RowType /\ row.status = "none" /\ row.since = source /\ row.inv = i
  BY <1>1, <1>2, SelectedIs DEF Row, RowType, Statuses
<1>4. local \in LocalType
  BY <1>1, SelectedIs, GapfillRunsAssumption DEF Fresh, LocalType, Revisions
<1>5. exit = Unset /\ pc = "idle" /\ metrics = {}
  BY DEF Init
<1>6. Types
  BY <1>2, <1>3, <1>4, <1>5 DEF Types, TypeOK, Statuses, InTable
<1>7. Ordered
  BY <1>2, <1>3 DEF Ordered
<1>8. StatusTells
  BY <1>3, <1>5, GapfillRunsAssumption DEF StatusTells
<1> QED BY <1>5, <1>6, <1>7, <1>8 DEF RunsInv

(* A source is revised, which takes nothing away.                          *)
LEMMA ReviseRuns ==
  ASSUME RunsInv, NEW t \in Tables, Revise(t)
  PROVE  RunsInv'
<1> USE DEF RunsInv
<1>1. /\ source' \in [Tables -> Revisions]
      /\ \A u \in Tables : source[u] \in Nat /\ source'[u] \in Nat /\ source[u] <= source'[u]
  BY GapfillRunsAssumption DEF Revise, Types, TypeOK, Revisions
<1>2. UNCHANGED <<target, tracking, row, metrics, pc, local, exit>>
  BY DEF Revise
<1>3. Types'
  BY <1>1, <1>2 DEF Types, TypeOK
<1>4. Ordered'
  BY <1>1, <1>2 DEF Ordered, Types, TypeOK, Revisions
<1>5. StatusTells'
  BY <1>2 DEF StatusTells, Asked, Reported, Failed
<1>6. pc # "idle" => RunSoFar' /\ TableSoFar'
  <2> SUFFICES ASSUME pc # "idle" PROVE RunSoFar' /\ TableSoFar'
    OBVIOUS
  <2>1. RunSoFar'
    BY <1>2 DEF RunSoFar, Asked, Reported, Failed, Plain, UpToDate
  <2>2. pc \in InTable => Table \in Tables
    BY TailIs DEF Types, Table
  <2>3. local.max \in Nat /\ local.rows \in Nat
    BY DEF Types, LocalType, Revisions
  <2>4. TableSoFar'
    BY <1>1, <1>2, <2>2, <2>3 DEF TableSoFar, Plain, UpToDate, Table, InTable
  <2> QED BY <2>1, <2>4
<1> QED BY <1>2, <1>3, <1>4, <1>5, <1>6

(* A run begins.                                                           *)
LEMMA StartRuns ==
  ASSUME RunsInv, NEW i \in Invocations, Start(i)
  PROVE  RunsInv'
<1> USE DEF RunsInv
<1>1. /\ pc' = "table" /\ row' = Row(i, "running") /\ local' = Fresh(i) /\ metrics' = {} /\ exit' = Unset
      /\ source' = source /\ target' = target /\ tracking' = tracking /\ Accepted(i)
  BY DEF Start, Goto, data
<1>2. /\ row' \in RowType /\ row'.status = "running" /\ row'.since = source /\ row'.inv = i
      /\ row'.tables = Selected(i)
  BY <1>1, SelectedIs DEF Row, RowType, Statuses, Types, TypeOK
<1>3. /\ local' \in LocalType /\ local'.todo = Selected(i) /\ local'.todo \in Seq(Tables)
      /\ local'.inv = i /\ local'.failed = 0
  BY <1>1, SelectedIs, GapfillRunsAssumption DEF Fresh, LocalType, Revisions
<1>4. Types'
  BY <1>1, <1>2, <1>3 DEF Types, TypeOK, InTable, Statuses, RowType
<1>5. Ordered'
  BY <1>1, <1>2 DEF Ordered, Types, TypeOK, Revisions
<1>6. Reported' = {} /\ Failed' = {}
  BY <1>1 DEF Reported, Failed
<1>7. RunSoFar'
  BY <1>1, <1>2, <1>3, <1>6 DEF RunSoFar, Asked, Elements
<1>8. TableSoFar'
  BY <1>1 DEF TableSoFar
<1>9. StatusTells'
  BY <1>1, <1>2, GapfillRunsAssumption DEF StatusTells
<1> QED BY <1>4, <1>5, <1>7, <1>8, <1>9

(* A run is over, recorded or not.                                         *)
LEMMA OverRuns ==
  ASSUME RunsInv, pc # "idle", pc' = "idle", UNCHANGED <<source, target, tracking, metrics, local>>,
         row' \in {[row EXCEPT !.status = s] : s \in Statuses}, exit' \in {0, 1, Unset}, StatusTells'
  PROVE  RunsInv'
<1> USE DEF RunsInv
<1>1. row' \in RowType /\ row'.since = row.since /\ row'.inv = row.inv /\ row'.status \in Statuses
  BY DEF Types, RowType
<1>2. row'.inv \in Invocations
  BY <1>1 DEF RowType
<1>3. Types'
  BY <1>1, <1>2 DEF Types, TypeOK, InTable
<1>4. Ordered'
  BY <1>1 DEF Ordered
<1> QED BY <1>3, <1>4

(* A run reaches its end, or is disabled.                                  *)
LEMMA EndRuns ==
  ASSUME RunsInv, Disabled \/ Finish
  PROVE  RunsInv'
<1> USE DEF RunsInv
<1>1. PICK status : /\ Ends(status) /\ status \in {"success", "skipped", "failed", "partial"}
                    /\ status # "skipped" =>
                         /\ local.todo = <<>> /\ (status = "success" <=> local.failed = 0)
  BY DEF Disabled, Finish
<1>2. pc = "table" /\ RunSoFar
  BY DEF Disabled, Finish
<1>3. /\ pc' = "idle" /\ UNCHANGED <<source, target, tracking, metrics, local>>
      /\ row' = [row EXCEPT !.status = status]
      /\ exit' = IF status \in {"success", "skipped"} THEN 0 ELSE 1
  BY <1>1 DEF Ends
<1>4. row'.status = status /\ row'.inv = row.inv /\ row'.tables = row.tables /\ row'.since = row.since
  BY <1>3 DEF Types, RowType
<1>5. Asked' = Asked /\ Reported' = Reported /\ Failed' = Failed
  BY <1>3, <1>4 DEF Asked, Reported, Failed
<1>6. status # "skipped" => Asked = Reported
  BY <1>1, <1>2 DEF RunSoFar, Elements
<1>7. status = "success" => Failed = {} /\ (Plain => \A t \in Asked : UpToDate(t))
  BY <1>1, <1>2, <1>6 DEF RunSoFar
<1>8. status \in {"partial", "failed"} => Failed # {}
  BY <1>1, <1>2 DEF RunSoFar
<1>9. StatusTells'
  BY <1>2, <1>3, <1>4, <1>5, <1>6, <1>7, <1>8 DEF StatusTells, RunSoFar, Plain, UpToDate
<1> QED BY <1>1, <1>2, <1>3, <1>9, OverRuns DEF Statuses

(* It ends with a traceback, or is killed.                                 *)
LEMMA BreakRuns ==
  ASSUME RunsInv, RecordFails \/ Kill
  PROVE  RunsInv'
<1> USE DEF RunsInv
<1>1. /\ pc # "idle" /\ pc' = "idle" /\ exit' \in {1, Unset}
      /\ UNCHANGED <<source, target, tracking, row, metrics, local>>
  BY DEF RecordFails, Kill, Breaks
<1>2. row.status = "running" /\ row = [row EXCEPT !.status = row.status] /\ row.status \in Statuses
  BY <1>1 DEF RunSoFar, Types, RowType
<1>3. StatusTells'
  BY <1>1, <1>2, GapfillRunsAssumption DEF StatusTells
<1> QED BY <1>1, <1>2, <1>3, OverRuns

(* A step within a table that writes no table.                             *)
LEMMA WithinRuns ==
  ASSUME RunsInv, pc # "idle", UNCHANGED <<source, target, tracking, row, metrics, exit>>,
         pc' \in InTable, local.todo # <<>>, local' \in LocalType,
         local'.inv = local.inv, local'.todo = local.todo, local'.failed = local.failed, TableSoFar'
  PROVE  RunsInv'
<1> USE DEF RunsInv
<1>1. Types'
  BY DEF Types, TypeOK, InTable
<1>2. Ordered'
  BY DEF Ordered
<1>3. RunSoFar'
  BY DEF RunSoFar, Asked, Reported, Failed, Plain, UpToDate
<1>4. StatusTells'
  <2>1. row'.status = "running" /\ exit' = Unset
    BY <1>3 DEF RunSoFar
  <2> QED BY <2>1, GapfillRunsAssumption DEF StatusTells
<1> QED BY <1>1, <1>2, <1>3, <1>4

(* What is learned of a table before it is written.                        *)
LEMMA ReadRuns ==
  ASSUME RunsInv, ColumnsMissing \/ ReadTracking \/ GetWindow \/ ReadSource \/ TableFails
  PROVE  RunsInv'
<1> USE DEF RunsInv
<1>1. pc # "idle" /\ local.todo # <<>> /\ Table \in Tables /\ local \in LocalType
  <2>1. pc # "idle" /\ local.todo # <<>>
    BY DEF ColumnsMissing, ReadTracking, GetWindow, ReadSource, TableFails, AtTable, Types, InTable, Goto
  <2> QED BY <2>1, TailIs DEF Types, Table
<1>2. /\ tracking[Table] \in Revisions /\ source[Table] \in Revisions /\ target[Table] \in Revisions
      /\ row.since[Table] \in Revisions /\ Revisions \subseteq Nat
      /\ tracking[Table] <= target[Table] /\ target[Table] <= source[Table] /\ row.since[Table] <= source[Table]
  BY <1>1 DEF Types, TypeOK, Ordered, Revisions
<1>3. CASE ColumnsMissing \/ TableFails
  <2>1. pc' = "error" /\ UNCHANGED <<source, target, tracking, row, metrics, local, exit>>
    BY <1>3 DEF ColumnsMissing, TableFails
  <2>2. TableSoFar'
    BY <2>1 DEF TableSoFar
  <2> QED BY <1>1, <2>1, <2>2, WithinRuns DEF InTable
<1>4. CASE ReadTracking
  <2>1. /\ pc' = "window" /\ UNCHANGED <<source, target, tracking, row, metrics, exit>>
        /\ local' = [local EXCEPT !.seen = tracking[Table]]
    BY <1>4 DEF ReadTracking
  <2>2. /\ local' \in LocalType /\ local'.inv = local.inv /\ local'.todo = local.todo
        /\ local'.failed = local.failed /\ local'.seen = tracking[Table]
    BY <1>1, <1>2, <2>1 DEF LocalType
  <2>3. TableSoFar'
    BY <1>2, <2>1, <2>2 DEF TableSoFar, Table
  <2> QED BY <1>1, <2>1, <2>2, <2>3, WithinRuns DEF InTable
<1>5. CASE GetWindow
  <2>1. /\ pc' = "read" /\ UNCHANGED <<source, target, tracking, row, metrics, exit>>
        /\ local' = [local EXCEPT !.max = source[Table]]
    BY <1>5 DEF GetWindow, Goto
  <2>2. /\ local' \in LocalType /\ local'.inv = local.inv /\ local'.todo = local.todo
        /\ local'.failed = local.failed /\ local'.max = source[Table]
    BY <1>1, <1>2, <2>1 DEF LocalType
  <2>3. TableSoFar'
    BY <1>2, <2>1, <2>2 DEF TableSoFar, Table
  <2> QED BY <1>1, <2>1, <2>2, <2>3, WithinRuns DEF InTable
<1>6. CASE ReadSource
  <2>1. /\ pc = "read" /\ pc' = (IF Dry THEN "metrics" ELSE "replace")
        /\ UNCHANGED <<source, target, tracking, row, metrics, exit>>
        /\ local' = [local EXCEPT !.rows = source[Table]]
    BY <1>6 DEF ReadSource, Goto
  <2>2. /\ local' \in LocalType /\ local'.inv = local.inv /\ local'.todo = local.todo
        /\ local'.failed = local.failed /\ local'.rows = source[Table] /\ local'.max = local.max
    BY <1>1, <1>2, <2>1 DEF LocalType
  <2>3. local.max <= source[Table]
    BY <2>1 DEF TableSoFar
  <2>4. TableSoFar'
    BY <1>2, <2>1, <2>2, <2>3 DEF TableSoFar, Table, Plain, Dry
  <2> QED BY <1>1, <2>1, <2>2, <2>4, WithinRuns DEF InTable
<1> QED BY <1>3, <1>4, <1>5, <1>6

(* The target shows the rows that were read.                               *)
LEMMA ReplaceRuns ==
  ASSUME RunsInv, Replace
  PROVE  RunsInv'
<1> USE DEF RunsInv
<1>1. /\ pc = "replace" /\ pc' = (IF ByHand THEN "metrics" ELSE "track")
      /\ UNCHANGED <<source, tracking, row, metrics, local, exit>>
  BY DEF Replace, Goto
<1>2. local.todo # <<>> /\ Table \in Tables /\ Table' = Table
  <2>1. local.todo # <<>>
    BY <1>1 DEF Types, InTable
  <2> QED BY <1>1, <2>1, TailIs DEF Types, Table
<1>3. PICK shown : /\ target' = [target EXCEPT ![Table] = shown]
                   /\ shown = local.rows \/ (ByHand /\ shown = target[Table])
  BY DEF Replace
<1>4. /\ local.rows \in Revisions /\ target \in [Tables -> Revisions] /\ source \in [Tables -> Revisions]
      /\ tracking \in [Tables -> Revisions] /\ row.since \in [Tables -> Revisions]
      /\ Revisions \subseteq Nat /\ local.max \in Revisions
  BY DEF Types, TypeOK, LocalType, Revisions
<1>5. /\ local.max <= local.rows /\ local.rows <= source[Table]
      /\ target[Table] <= local.rows /\ row.since[Table] <= local.rows
  BY <1>1 DEF TableSoFar
<1>6. /\ target' \in [Tables -> Revisions] /\ target'[Table] = shown
      /\ shown \in Revisions /\ target[Table] <= shown /\ shown <= source[Table]
      /\ \A t \in Tables : target[t] <= target'[t] /\ target'[t] <= source[t]
  <2>1. /\ target[Table] \in Nat /\ source[Table] \in Nat /\ local.rows \in Nat
        /\ target[Table] \in Revisions /\ target[Table] <= source[Table]
    BY <1>2, <1>4 DEF Ordered
  <2>2. shown \in Revisions /\ target[Table] <= shown /\ shown <= source[Table]
    BY <1>3, <1>4, <1>5, <2>1
  <2>3. target' \in [Tables -> Revisions] /\ target'[Table] = shown
    BY <1>2, <1>3, <1>4, <2>2
  <2>4. ASSUME NEW t \in Tables PROVE target[t] <= target'[t] /\ target'[t] <= source[t]
    <3>1. CASE t = Table
      BY <2>2, <2>3, <3>1
    <3>2. CASE t # Table
      <4>1. target'[t] = target[t] /\ target[t] \in Nat /\ target[t] <= source[t]
        BY <1>3, <1>4, <3>2 DEF Ordered
      <4> QED BY <4>1
    <3> QED BY <3>1, <3>2
  <2> QED BY <2>2, <2>3, <2>4
<1>7. Types'
  BY <1>1, <1>6 DEF Types, TypeOK, InTable
<1>8. Ordered'
  <2> SUFFICES ASSUME NEW t \in Tables
               PROVE  tracking[t] <= target'[t] /\ target'[t] <= source[t] /\ row.since[t] <= source[t]
    BY <1>1 DEF Ordered
  <2>1. tracking[t] \in Nat /\ target[t] \in Nat /\ target'[t] \in Nat /\ tracking[t] <= target[t]
    BY <1>4, <1>6 DEF Ordered
  <2> QED BY <1>6, <2>1 DEF Ordered
<1>9. RunSoFar'
  <2>1. Reported \subseteq Tables
    BY DEF Types, TypeOK, Reported
  <2>2. ASSUME NEW t \in Reported, UpToDate(t) PROVE UpToDate(t)'
    <3>1. /\ row'.since[t] = row.since[t] /\ row.since[t] \in Nat /\ target[t] \in Nat
          /\ target'[t] \in Nat /\ target[t] <= target'[t]
      BY <1>1, <1>4, <1>6, <2>1
    <3> QED BY <2>2, <3>1 DEF UpToDate
  <2> QED BY <1>1, <2>2 DEF RunSoFar, Asked, Reported, Failed, Plain
<1>10. TableSoFar'
  <2>1. ~ByHand => shown = local.rows
    BY <1>3
  <2>2. Plain => ~ByHand
    BY DEF Plain, ByHand
  <2> QED BY <1>1, <1>2, <1>4, <1>5, <1>6, <2>1, <2>2 DEF TableSoFar, UpToDate, Plain
<1>11. StatusTells'
  <2>1. row'.status = "running" /\ exit' = Unset
    BY <1>9 DEF RunSoFar
  <2> QED BY <2>1, GapfillRunsAssumption DEF StatusTells
<1> QED BY <1>1, <1>7, <1>8, <1>9, <1>10, <1>11

(* The watermark follows.                                                  *)
LEMMA TrackRuns ==
  ASSUME RunsInv, UpdateTracking
  PROVE  RunsInv'
<1> USE DEF RunsInv
<1>1. /\ pc = "track" /\ pc' = "metrics" /\ tracking' = [tracking EXCEPT ![Table] = local.max]
      /\ UNCHANGED <<source, target, row, metrics, local, exit>>
  BY DEF UpdateTracking, Goto
<1>2. local.max \in Revisions /\ local.max <= target[Table] /\ UpToDate(Table)
  BY <1>1 DEF Types, LocalType, TableSoFar
<1>3. Types'
  BY <1>1, <1>2 DEF Types, TypeOK, InTable
<1>4. Ordered'
  BY <1>1, <1>2 DEF Ordered, Types, TypeOK
<1>5. RunSoFar'
  BY <1>1 DEF RunSoFar, Asked, Reported, Failed, Plain, UpToDate
<1>6. TableSoFar'
  BY <1>1, <1>2 DEF TableSoFar, UpToDate, Table
<1>7. StatusTells'
  <2>1. row'.status = "running" /\ exit' = Unset
    BY <1>5 DEF RunSoFar
  <2> QED BY <2>1, GapfillRunsAssumption DEF StatusTells
<1> QED BY <1>1, <1>3, <1>4, <1>5, <1>6, <1>7

(* A table is left behind, with a metric.                                  *)
LEMMA LeaveRuns ==
  ASSUME RunsInv, pc # "idle", pc' = "table", local.todo # <<>>,
         NEW status \in {"skipped_source_missing", "skipped_no_changes", "ok", "error"}, Says(status),
         NEW failed, failed = (IF status = "error" THEN local.failed + 1 ELSE local.failed),
         local' = [local EXCEPT !.failed = failed, !.todo = Tail(@), !.seen = 0, !.max = 0, !.rows = 0],
         UNCHANGED <<source, target, tracking, row, exit>>,
         status # "error" /\ Plain => UpToDate(Table)
  PROVE  RunsInv'
<1> USE DEF RunsInv
<1>1. /\ Table \in Tables /\ Tail(local.todo) \in Seq(Tables) /\ Tail(local.todo) \in Seq(Names)
      /\ Elements(local.todo) = {Table} \cup Elements(Tail(local.todo))
  BY TailIs DEF Types, Table
<1>2. local.failed \in Nat /\ failed \in Nat /\ 0 \in Revisions
  BY GapfillRunsAssumption DEF Types, LocalType, Revisions
<1>3. /\ local' \in LocalType /\ local'.todo = Tail(local.todo) /\ local'.inv = local.inv
      /\ local'.failed = failed
  BY <1>1, <1>2 DEF Types, LocalType
<1>4. Types'
  <2>1. metrics' \subseteq Tables \X {"skipped_source_missing", "skipped_no_changes", "ok", "error"}
    BY <1>1 DEF Types, TypeOK, Says
  <2> QED BY <1>1, <1>3, <2>1 DEF Types, TypeOK, InTable
<1>5. Ordered'
  BY DEF Ordered
<1>6. RunSoFar'
  <2>1. Asked' = Reported' \cup Elements(local'.todo)
    BY <1>1, <1>3, MetricIs DEF RunSoFar, Asked
  <2>2. local'.failed = 0 <=> Failed' = {}
    <3>1. CASE status = "error"
      <4>1. failed # 0
        BY <1>2, <3>1
      <4> QED BY <1>3, <3>1, <4>1, MetricIs
    <3>2. CASE status # "error"
      BY <1>3, <3>2, MetricIs DEF RunSoFar
    <3> QED BY <3>1, <3>2
  <2>3. ASSUME Plain', NEW t \in Reported' \ Failed' PROVE UpToDate(t)'
    <3>1. Plain
      BY <1>3, <2>3 DEF Plain
    <3>2. UpToDate(t)' <=> UpToDate(t)
      BY DEF UpToDate
    <3>3. CASE t \in Reported \ Failed
      BY <3>1, <3>2, <3>3 DEF RunSoFar
    <3>4. CASE t \notin Reported \ Failed
      <4>1. t = Table /\ status # "error"
        BY <2>3, <3>4, MetricIs
      <4> QED BY <3>1, <3>2, <4>1
    <3> QED BY <3>3, <3>4
  <2>4. row'.status = "running" /\ row'.inv = local'.inv /\ exit' = Unset
    BY <1>3 DEF RunSoFar
  <2> QED BY <2>1, <2>2, <2>3, <2>4 DEF RunSoFar
<1>7. TableSoFar'
  BY DEF TableSoFar
<1>8. StatusTells'
  <2>1. row'.status = "running" /\ exit' = Unset
    BY <1>6 DEF RunSoFar
  <2> QED BY <2>1, GapfillRunsAssumption DEF StatusTells
<1> QED BY <1>4, <1>5, <1>6, <1>7, <1>8

(* The ways to leave a table.                                              *)
LEMMA NextTableRuns ==
  ASSUME RunsInv, SourceMissing \/ NoChanges \/ WriteMetrics \/ RecordError
  PROVE  RunsInv'
<1> USE DEF RunsInv
<1>1. local.todo # <<>> /\ pc # "idle"
  BY DEF SourceMissing, NoChanges, WriteMetrics, RecordError, AtTable, Goto, Types, InTable
<1>2. Table \in Tables /\ local \in LocalType
  BY <1>1, TailIs DEF Types, Table
<1>3. /\ source[Table] \in Nat /\ target[Table] \in Nat /\ row.since[Table] \in Nat
      /\ target[Table] <= source[Table] /\ row.since[Table] <= source[Table]
  BY <1>2 DEF Types, TypeOK, Ordered, Revisions
<1>4. local = [local EXCEPT !.failed = local.failed]
  BY <1>2 DEF LocalType
<1> DEFINE left(failed) == [local EXCEPT !.failed = failed, !.todo = Tail(@), !.seen = 0, !.max = 0, !.rows = 0]
<1>5. /\ Advance(local) => local' = left(local.failed)
      /\ Advance([local EXCEPT !.failed = @ + 1]) => local' = left(local.failed + 1)
  BY <1>2 DEF Advance, LocalType
<1>6. CASE SourceMissing
  <2>1. /\ pc' = "table" /\ Says("skipped_source_missing") /\ local' = left(local.failed)
        /\ source[Table] = 0 /\ UNCHANGED <<source, target, tracking, row, exit>>
    BY <1>5, <1>6 DEF SourceMissing, Skip
  <2>2. UpToDate(Table)
    BY <1>3, <2>1 DEF UpToDate
  <2> QED BY <1>1, <2>1, <2>2, LeaveRuns
<1>7. CASE NoChanges
  <2>1. /\ pc = "window" /\ pc' = "table" /\ Says("skipped_no_changes") /\ local' = left(local.failed)
        /\ ByHand \/ source[Table] <= local.seen
        /\ UNCHANGED <<source, target, tracking, row, exit>>
    BY <1>5, <1>7 DEF NoChanges, Skip
  <2>2. local.seen <= target[Table] /\ local.seen \in Nat
    BY <1>2, <2>1 DEF TableSoFar, LocalType, Revisions
  <2>3. Plain => UpToDate(Table)
    BY <1>3, <2>1, <2>2 DEF UpToDate, Plain, ByHand
  <2> QED BY <1>1, <2>1, <2>3, LeaveRuns
<1>8. CASE WriteMetrics
  <2>1. /\ pc = "metrics" /\ pc' = "table" /\ Says("ok") /\ local' = left(local.failed)
        /\ UNCHANGED <<source, target, tracking, row, exit>>
    BY <1>5, <1>8 DEF WriteMetrics, Goto
  <2>2. Plain => UpToDate(Table)
    BY <2>1 DEF TableSoFar
  <2> QED BY <1>1, <2>1, <2>2, LeaveRuns
<1>9. CASE RecordError
  <2>1. /\ pc' = "table" /\ Says("error") /\ local' = left(local.failed + 1)
        /\ UNCHANGED <<source, target, tracking, row, exit>>
    BY <1>5, <1>9 DEF RecordError, Goto
  <2> QED BY <1>1, <2>1, LeaveRuns
<1> QED BY <1>6, <1>7, <1>8, <1>9

(* Every step of the system.                                               *)
LEMMA StepRuns == RunsInv /\ [Next]_vars => RunsInv'
<1> SUFFICES ASSUME RunsInv, [Next]_vars PROVE RunsInv'
  OBVIOUS
<1>1. CASE UNCHANGED vars
  BY <1>1 DEF vars, RunsInv, Types, TypeOK, Ordered, RunSoFar, TableSoFar, StatusTells, Asked, Reported,
              Failed, Plain, UpToDate, Table
<1>2. CASE \E t \in Tables : Revise(t)
  BY <1>2, ReviseRuns
<1>3. CASE \E i \in Invocations : Start(i)
  BY <1>3, StartRuns
<1>4. CASE Step
  BY <1>4, EndRuns, ReadRuns, ReplaceRuns, TrackRuns, NextTableRuns DEF Step
<1>5. CASE Fault
  BY <1>5, ReadRuns, BreakRuns DEF Fault
<1> QED BY <1>1, <1>2, <1>3, <1>4, <1>5 DEF Next

(* The inductive invariant of a run over several tables.                   *)
THEOREM RunsInvariant == Spec => []RunsInv
  BY InitRuns, StepRuns, PTL DEF Spec

(* The variables of GapfillRuns keep their types.                          *)
THEOREM RunsTypes == Spec => []TypeOK
<1>1. RunsInv => TypeOK
  BY DEF RunsInv, Types
<1> QED BY <1>1, RunsInvariant, PTL

(* scripts/lib/gapfiller/db.py: a run recorded as a success that was meant *)
(* to write its tables for good has left each of them at least as new as   *)
(* its source was when the run began, after whatever earlier runs have     *)
(* left; its metrics are of all its tables, an error among them for every  *)
(* other final status; and the exit code is 0 for a success or a skipped   *)
(* run only.                                                               *)
THEOREM RunsAreTold == Spec => []StatusTells
<1>1. RunsInv => StatusTells
  BY DEF RunsInv
<1> QED BY <1>1, RunsInvariant, PTL
=============================================================================
