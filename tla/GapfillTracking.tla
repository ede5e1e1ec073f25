--------------------------- MODULE GapfillTracking ---------------------------
(***************************************************************************)
(* One table of scripts/lib/gapfiller/db.py process_table: which rows of   *)
(* the source a run looks at, how it replaces the window in the target,    *)
(* and how gapfill_tracking moves.  The source is filled package by        *)
(* package by entsoe_fms.                                                  *)
(*                                                                         *)
(* The table has one group of rows at a fixed resolution, the unit of      *)
(* Times, and a gap is a missing row.  A row's content is its UpdateTime;  *)
(* which value a created row gets is not told apart.                       *)
(***************************************************************************)
EXTENDS Integers, FiniteSets

CONSTANTS Last,       \* the source has rows at times 1 .. Last
          MaxClock,   \* a bound on the publisher's revisions
          Revisions,  \* the rows that are revised together: sets of times
          Packages,   \* how the rows are delivered: sets of times
          Scheduled,  \* processes of the script without --start
          Manual,     \* processes with --start and --end
          Ranges,     \* pairs of a start and an end
          Killable,   \* processes that can end at any point
          Lookback, MinPoints

ASSUME GapfillAssumption ==
  /\ Last \in Nat /\ MaxClock \in Nat /\ Lookback \in Nat /\ MinPoints \in Nat
  /\ Packages \subseteq SUBSET (1 .. Last)
  /\ Revisions \subseteq SUBSET (1 .. Last)
  /\ Scheduled \cap Manual = {}
  /\ Ranges \subseteq (1 .. Last) \X (1 .. Last)

Times  == 1 .. Last
Stamps == 0 .. MaxClock
Procs  == Scheduled \cup Manual

VARIABLES
  clock,     \* the publisher's UpdateTime
  published, \* the newest UpdateTime of each row at the publisher, 0 for none
  source,    \* UpdateTime of each row in the source table, 0 for no row
  target,    \* the rows of the target table at each time
  tracking,  \* last_update_time, 0 for NULL
  pc,        \* where each process is
  local,     \* and what it has read
  late,      \* rows whose UpdateTime a run had passed when they were loaded,
             \* and that no run has written since
  mixed      \* times that two runs have replaced at once, and none alone since

sourceVars == <<clock, published, source>>
past == <<late, mixed>>
vars == <<clock, published, source, target, tracking, pc, local, past>>

(* A row of the target: the process that wrote it, and the UpdateTime of   *)
(* the source row, 0 for a row that the gapfiller created.                 *)
Row == [by : Procs, stamp : Stamps]

Least(S)    == CHOOSE t \in S : \A u \in S : t <= u
Greatest(S) == CHOOSE t \in S : \A u \in S : u <= t

(* Of a process: tracking.last_update_time as it was read, the WindowInfo, *)
(* what fill_table returned, the rows that the DELETE saw, and the times   *)
(* that others have replaced since it read its window.                     *)
NoRows   == [t \in Times |-> {}]
NoWindow == [start |-> 1, end |-> 0, max |-> 0]
Nothing  == [seen |-> 0, window |-> NoWindow, rows |-> NoRows, victims |-> NoRows,
             met |-> {}]

Init ==
  /\ clock     = 0
  /\ published = [t \in Times |-> 0]
  /\ source    = [t \in Times |-> 0]
  /\ target    = NoRows
  /\ tracking  = 0
  /\ pc        = [p \in Procs |-> "idle"]
  /\ local     = [p \in Procs |-> Nothing]
  /\ late      = {}
  /\ mixed     = {}

-----------------------------------------------------------------------------
(* The publisher adds or revises rows; the crawler upserts a package.      *)
Publish(S) ==
  /\ clock < MaxClock
  /\ clock'     = clock + 1
  /\ published' = [t \in Times |-> IF t \in S THEN clock + 1 ELSE published[t]]
  /\ UNCHANGED <<source, target, tracking, pc, local, past>>

(* A run has passed the UpdateTime: it has read or written a watermark, or *)
(* will write one, that is not before it.                                  *)
Passed(u) ==
  u <= tracking \/ \E p \in Scheduled : u <= local[p].seen \/ u <= local[p].window.max

Load(P) ==
  /\ source' = [t \in Times |-> IF t \in P THEN published[t] ELSE source[t]]
  /\ late'   = {t \in Times : IF source'[t] = source[t] THEN t \in late
                              ELSE Passed(source'[t])}
  /\ UNCHANGED <<clock, published, target, tracking, pc, local, mixed>>

-----------------------------------------------------------------------------
(* The end of a process, and of what it knew.                              *)
End(p) == pc' = [pc EXCEPT ![p] = "idle"] /\ local' = [local EXCEPT ![p] = Nothing]

(* get_tracking_state.                                                     *)
ReadTracking(p) ==
  /\ pc[p] = "idle"
  /\ pc'    = [pc EXCEPT ![p] = "window"]
  /\ local' = [local EXCEPT ![p].seen = tracking]
  /\ UNCHANGED <<sourceVars, target, tracking, past>>

(* get_processing_window, of the rows C that the query selects.  The first *)
(* run looks at every row; later ones look back from the first change.     *)
Window(C, back) ==
  [start |-> Least(C) - back, end |-> Greatest(C),
   max   |-> Greatest({source[t] : t \in C})]

Found(p, C, back) ==
  /\ pc[p] = "window"
  /\ IF C = {}
     THEN End(p)
     ELSE /\ pc'    = [pc EXCEPT ![p] = "read"]
          /\ local' = [local EXCEPT ![p].window = Window(C, back)]
  /\ UNCHANGED <<sourceVars, target, tracking, past>>

Present == {t \in Times : source[t] # 0}

(* Mutant: an off-by-one in the comparison with the watermark.             *)
ChangedLater(p) == {t \in Present : source[t] > local[p].seen + 1}

Changed(p) == {t \in Present : source[t] > local[p].seen}

GetWindow(p) ==
  IF p \in Scheduled
  THEN Found(p, Changed(p), IF local[p].seen = 0 THEN 0 ELSE Lookback)
  ELSE \E r \in Ranges : Found(p, Present \cap (r[1] .. r[2]), 0)

(* read_source_window and fill_table: a group with enough points gets a    *)
(* row for every time between its first and its last one.                  *)
InWindow(p) == {t \in Times : local[p].window.start <= t /\ t <= local[p].window.end}

Points(p) == Present \cap InWindow(p)

Created(p) ==
  IF Cardinality(Points(p)) < MinPoints THEN {}
  ELSE {t \in Times \ Points(p) : \E a, b \in Points(p) : a < t /\ t < b}

ReadAndFill(p) ==
  /\ pc[p] = "read"
  /\ pc'    = [pc EXCEPT ![p] = "delete"]
  /\ local' = [local EXCEPT ![p].rows = [t \in Times |->
                IF t \in Points(p) THEN {[by |-> p, stamp |-> source[t]]}
                ELSE IF t \in Created(p) THEN {[by |-> p, stamp |-> 0]}
                ELSE {}]]
  /\ UNCHANGED <<sourceVars, target, tracking, past>>

(* replace_target_window: a transaction that deletes the rows it sees in   *)
(* the window and inserts its own.  The database makes a DELETE wait for   *)
(* one that has the same rows and then skips them, but it never sees rows  *)
(* that were inserted meanwhile; so the order of two commits is free here. *)
(* Mutant: the window is half open.                                        *)
DeleteHalfOpen(p) ==
  /\ pc[p] = "delete"
  /\ pc'    = [pc EXCEPT ![p] = "insert"]
  /\ local' = [local EXCEPT ![p].victims = [t \in Times |->
                  IF t \in InWindow(p) /\ t # local[p].window.end THEN target[t] ELSE {}]]
  /\ UNCHANGED <<sourceVars, target, tracking, past>>

Delete(p) ==
  /\ pc[p] = "delete"
  /\ pc'    = [pc EXCEPT ![p] = "insert"]
  /\ local' = [local EXCEPT ![p].victims = [t \in Times |->
                  IF t \in InWindow(p) THEN target[t] ELSE {}]]
  /\ UNCHANGED <<sourceVars, target, tracking, past>>

Replaced(p) == [t \in Times |-> (target[t] \ local[p].victims[t]) \cup local[p].rows[t]]

Stamped(rows) == {r.stamp : r \in rows}

Reading(q) == pc[q] \in {"delete", "insert"}

(* What the processes know when p has committed.                           *)
Committed(p) ==
  [q \in Procs |->
     IF q # p
     THEN IF Reading(q) THEN [local[q] EXCEPT !.met = @ \cup InWindow(p)] ELSE local[q]
     ELSE IF p \in Scheduled
     THEN [local[p] EXCEPT !.rows = NoRows, !.victims = NoRows, !.met = {}]
     ELSE Nothing]

Commit(p) ==
  /\ pc[p] = "insert"
  /\ target' = Replaced(p)
  /\ pc'     = [pc EXCEPT ![p] = IF p \in Scheduled THEN "track" ELSE "idle"]
  /\ local'  = Committed(p)
  /\ late'   = late \ {t \in InWindow(p) : Stamped(local[p].rows[t]) = {source[t]}}
  /\ mixed'  = (mixed \ InWindow(p)) \cup (InWindow(p) \cap local[p].met)
  /\ UNCHANGED <<sourceVars, tracking>>

(* update_tracking_state, in a transaction of its own.                     *)
(* Mutant: the watermark is read when it is written.                       *)
TrackNow(p) ==
  /\ pc[p] = "track"
  /\ End(p)
  /\ tracking' = Greatest({source[t] : t \in Times})
  /\ UNCHANGED <<sourceVars, target, past>>

Track(p) ==
  /\ pc[p] = "track"
  /\ End(p)
  /\ tracking' = local[p].window.max
  /\ UNCHANGED <<sourceVars, target, past>>

(* The process is killed, or a statement fails: open transactions are      *)
(* rolled back.                                                            *)
Kill(p) ==
  /\ p \in Killable /\ pc[p] # "idle"
  /\ End(p)
  /\ UNCHANGED <<sourceVars, target, tracking, past>>

-----------------------------------------------------------------------------
Step(p) == ReadTracking(p) \/ GetWindow(p) \/ ReadAndFill(p) \/ Delete(p)
             \/ Commit(p) \/ Track(p)

Next ==
  \/ \E S \in Revisions : Publish(S)
  \/ \E P \in Packages : Load(P)
  \/ \E p \in Procs : Step(p) \/ Kill(p)

Spec == Init /\ [][Next]_vars

(* The script is run after every crawl and comes to its end: it is not     *)
(* killed for ever, though it may be killed any number of times.  (A run   *)
(* that finds no change also ends, and that is no kill.)                   *)
FairSpec ==
  /\ Spec
  /\ \A p \in Scheduled : SF_vars(ReadTracking(p))
  /\ \A p \in Procs : WF_vars(pc[p] # "idle" /\ Step(p))
  /\ <>[][\A p \in Procs : Kill(p) => Step(p)]_vars

-----------------------------------------------------------------------------
RowsByTime == [Times -> SUBSET Row]

Knowledge == [seen : Stamps, window : [start : Int, end : Int, max : Stamps],
              rows : RowsByTime, victims : RowsByTime, met : SUBSET Times]

TypeOK ==
  /\ clock \in Stamps
  /\ published \in [Times -> Stamps] /\ source \in [Times -> Stamps]
  /\ target \in RowsByTime
  /\ tracking \in Stamps
  /\ pc \in [Procs -> {"idle", "window", "read", "delete", "insert", "track"}]
  /\ local \in [Procs -> Knowledge]
  /\ late \subseteq Times /\ mixed \subseteq Times

(* No revision is passed over: what the watermark covers is in the target  *)
(* table as the source has it, wherever a run ends, whatever is loaded and *)
(* whichever runs come between.  But for a row that was loaded behind the  *)
(* watermark, and for a time that two runs have replaced at once, which no *)
(* later run looks at unless another change brings it there.               *)
NoRevisionLost ==
  \A t \in Present \ (late \cup mixed) :
     source[t] <= tracking => Stamped(target[t]) = {source[t]}

(* docs/source/post_run_scripts.md: a run does not duplicate output rows.  *)
(* A time has two rows only where two runs have replaced it at once, until *)
(* a run replaces it alone.                                                *)
NoDuplicates == \A t \in Times \ mixed : Cardinality(target[t]) <= 1

(* Why they hold.  A row is settled when the target has it, and no run     *)
(* that has read an older one will replace it alone.                       *)
Settled(t) ==
  /\ t \in mixed \/ Stamped(target[t]) = {source[t]}
  /\ \A q \in Procs :
        Reading(q) /\ t \in InWindow(q) \ local[q].met
        => Stamped(local[q].rows[t]) = {source[t]}

SettledUpTo(u) == \A t \in Present \ late : source[t] <= u => Settled(t)

(* What is settled when p has found its window, has read it, has seen it   *)
(* when it deletes, and has committed.                                     *)
WindowCovers(p) ==
  p \in Scheduled /\ pc[p] \in {"read", "delete", "insert"} =>
    \A t \in Present \ late :
       source[t] <= local[p].window.max => t \in InWindow(p) \/ Settled(t)

RowsCurrent(p) ==
  Reading(p) =>
    \A t \in Times :
       /\ local[p].rows[t] = {} \/ \E r \in Row : local[p].rows[t] = {r}
       /\ local[p].rows[t] # {} => t \in InWindow(p)
       /\ p \in Scheduled /\ t \in InWindow(p) \cap (Present \ (late \cup local[p].met))
            /\ source[t] <= local[p].window.max
            => Stamped(local[p].rows[t]) = {source[t]}

VictimsCurrent(p) ==
  pc[p] = "insert" =>
    \A t \in Times :
       IF t \in InWindow(p) THEN t \in local[p].met \/ local[p].victims[t] = target[t]
       ELSE local[p].victims[t] = {}

RunInv(p) ==
  /\ p \in Scheduled /\ pc[p] = "window" => SettledUpTo(local[p].seen)
  /\ WindowCovers(p) /\ RowsCurrent(p) /\ VictimsCurrent(p)
  /\ pc[p] = "track" => p \in Scheduled /\ SettledUpTo(local[p].window.max)
  /\ p \in Scheduled /\ pc[p] \notin {"idle", "window"} => local[p].seen < local[p].window.max

GapfillInv ==
  /\ TypeOK /\ SettledUpTo(tracking)
  /\ \A t \in Times \ mixed : target[t] = {} \/ \E r \in Row : target[t] = {r}
  /\ \A p \in Procs : RunInv(p)

(* docs/source/crawler_admin.md: a historical backfill cannot move the     *)
(* watermark of the post-run script backwards; nor can its own runs, but   *)
(* one that another run has overtaken.                                     *)
WatermarkMonotone ==
  [][tracking' < tracking =>
       \E p \in Scheduled : pc[p] = "track" /\ local[p].seen # tracking]_tracking

(* docs/source/crawlers/entsoe_fms.md: tracking by UpdateTime is there for *)
(* records that are revised later.  Every revision reaches the target,     *)
(* unless it is revised again, or for the two reasons above.               *)
RevisionArrives ==
  \A u \in Stamps \ {0} :
     (\E t \in Times : source[t] = u) ~>
     (\A t \in Times \ (late \cup mixed) :
         source[t] = u => \E r \in target[t] : r.stamp = u)

=============================================================================
