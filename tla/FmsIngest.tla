------------------------------ MODULE FmsIngest ------------------------------
(***************************************************************************)
(* One table of crawler/entsoe_fms.py and the runs that load it: package   *)
(* refreshes and incremental runs (_download_files_and_write_into_database)*)
(* and historical backfills (_update_data_file).  The scheduler runs one   *)
(* at a time, and so does the admin service, but nothing keeps a run of    *)
(* the one apart from a run of the other, and both keep the package they   *)
(* are loading in crawler/data, under the same name.                       *)
(*                                                                         *)
(* A package is a month.  A line stands for the rows of one chunk of its   *)
(* file, and its content is its UpdateTime.                                *)
(***************************************************************************)
EXTENDS Integers, Sequences

CONSTANTS Months,    \* the packages, numbered
          Recent,    \* those that start within the last 90 days
          Lines,     \* the number of lines of each package
          MaxClock,  \* a bound on the publisher's revisions
          Procs,     \* the services that start runs
          Tasks,     \* the runs that each can start
          Sweeper,   \* the service that runs the scheduled jobs
          None       \* no file

Modes  == {"full", "incremental", "backfill"}
Task   == [mode : Modes, months : SUBSET Months]
Stamps == 0 .. MaxClock
Rows   == UNION {{m} \X (1 .. Lines[m]) : m \in Months}

ASSUME FmsAssumption ==
  /\ Months \subseteq Nat /\ Recent \subseteq Months
  /\ Lines \in [Months -> Nat] /\ MaxClock \in Nat
  /\ Sweeper \in Procs /\ Tasks \in [Procs -> SUBSET Task]
  /\ None \notin Seq(Nat)

VARIABLES
  clock,      \* the publisher's UpdateTime
  published,  \* the newest UpdateTime of each row, 0 for no row
  exists,     \* the table has been created
  keyed,      \* and with its unique key
  table,      \* UpdateTime of each row of the table, 0 for no row
  disk,       \* the files in crawler/data
  pc,         \* where the run of each service is
  local       \* and what it knows

vars == <<clock, published, exists, keyed, table, disk, pc, local>>

MaxStamp == CHOOSE u \in Stamps : /\ \A r \in Rows : table[r] <= u
                                  /\ u = 0 \/ \E r \in Rows : table[r] = u

(* Of a run: its task, the packages it still has to load, the package it   *)
(* loads, what the service answered, the open file and whether crawler/data *)
(* still has a name for it, the next line, and the table state.  Then      *)
(* whether no other run was under way since the package was fetched.       *)
Fresh(t) ==
  [task |-> t, todo |-> t.months, month |-> 0, fetched |-> <<>>,
   held |-> <<>>, linked |-> FALSE, next |-> 1,
   last |-> 0, create |-> FALSE, alone |-> FALSE]

NoTask == [mode |-> "full", months |-> {}]

Init ==
  /\ clock = 0
  /\ published = [r \in Rows |-> 0]
  /\ exists = FALSE /\ keyed = FALSE
  /\ table = [r \in Rows |-> 0]
  /\ disk = [m \in Months |-> None]
  /\ pc = [p \in Procs |-> "idle"]
  /\ local = [p \in Procs |-> Fresh(NoTask)]

Goto(p, from, to) == pc[p] = from /\ pc' = [pc EXCEPT ![p] = to]
Mode(p) == local[p].task.mode
Month(p) == local[p].month

-----------------------------------------------------------------------------
(* The publisher adds or revises rows of any packages.                     *)
Publish(S) ==
  /\ clock < MaxClock
  /\ clock' = clock + 1
  /\ published' = [r \in Rows |-> IF r \in S THEN clock + 1 ELSE published[r]]
  /\ UNCHANGED <<exists, keyed, table, disk, pc, local>>

(* A scheduled job or a manual run begins and lists the packages.  An      *)
(* incremental run of a table with rows leaves out those that start more   *)
(* than update_interval ago, whatever its own window is, unless the state  *)
(* of the table could not be read.                                         *)
Listed(t) ==
  IF t.mode = "incremental" /\ MaxStamp # 0 THEN {t.months, Recent} ELSE {t.months}

Begin(p, t, todo) ==
  /\ Goto(p, "idle", "fetch")
  /\ local' = [q \in Procs |-> IF q = p THEN [Fresh(t) EXCEPT !.todo = todo]
                               ELSE [local[q] EXCEPT !.alone = FALSE]]
  /\ UNCHANGED <<clock, published, exists, keyed, table, disk>>

Start(p, t) == \E todo \in Listed(t) : Begin(p, t, todo)

ListFails(p) == \E t \in Tasks[p] : Begin(p, t, {})

(* _download_file: the answer is complete when the file is opened, which   *)
(* truncates it; then it is written.                                       *)
Content(m) == [i \in 1 .. Lines[m] |-> published[<<m, i>>]]

IsNext(p, m) == m \in local[p].todo /\ \A n \in local[p].todo : m <= n

(* Mutant: a file that is there and not empty is not downloaded again.     *)
FetchReusesFile(p) ==
  \E m \in Months :
    LET there == disk[m] \notin {None, <<>>} IN
    /\ pc[p] = "fetch" /\ IsNext(p, m)
    /\ pc' = [pc EXCEPT ![p] = IF there THEN "open" ELSE "store"]
    /\ disk' = IF there THEN disk ELSE [disk EXCEPT ![m] = <<>>]
    /\ local' = [local EXCEPT ![p].month = m, ![p].todo = @ \ {m},
         ![p].fetched = Content(m), ![p].linked = ~there,
         ![p].alone = \A q \in Procs \ {p} : pc[q] = "idle"]
    /\ UNCHANGED <<clock, published, exists, keyed, table>>

Fetch(p) ==
  /\ Goto(p, "fetch", "store")
  /\ \E m \in Months :
       /\ IsNext(p, m)
       /\ disk' = [disk EXCEPT ![m] = <<>>]
       /\ local' = [local EXCEPT ![p].month = m, ![p].todo = @ \ {m},
            ![p].fetched = Content(m), ![p].linked = TRUE,
            ![p].alone = \A q \in Procs \ {p} : pc[q] = "idle"]
  /\ UNCHANGED <<clock, published, exists, keyed, table>>

Store(p) ==
  /\ Goto(p, "store", "open")
  /\ disk' = IF local[p].linked THEN [disk EXCEPT ![Month(p)] = local[p].fetched] ELSE disk
  /\ local' = [local EXCEPT ![p].linked = FALSE]
  /\ UNCHANGED <<clock, published, exists, keyed, table>>

(* _get_table_state, _create_table_with_unique_constraint: for every       *)
(* package again, but a table is created once for a data item, and create  *)
(* stays set.  That it failed is logged, and a refresh goes on; a backfill *)
(* looks again and raises, see LoadFails.  The file is opened; one that is *)
(* gone raises.  A backfill reads the file before it looks at the table,   *)
(* and reads it at once.                                                   *)
Prepare(p, works) ==
  LET gone    == disk[Month(p)] = None
      batch   == Mode(p) = "backfill"
      creates == ~exists /\ ~local[p].create
  IN /\ pc[p] = "open" /\ ~(gone /\ batch)
     /\ ~works => creates /\ ~batch
     /\ pc' = [pc EXCEPT ![p] = IF gone THEN "gone" ELSE "line"]
     /\ exists' = (exists \/ (creates /\ works))
     /\ keyed' = (keyed \/ (creates /\ works))
     /\ local' = [local EXCEPT ![p].create = @ \/ ~exists, ![p].last = MaxStamp,
          ![p].held = IF batch THEN disk[Month(p)] ELSE <<>>,
          ![p].linked = ~gone /\ ~batch]
     /\ UNCHANGED <<clock, published, table, disk>>

Open(p) == Prepare(p, TRUE)

CreateFails(p) == Prepare(p, FALSE)

(* What an open file holds: what its name holds, until the name is gone.   *)
View(p) == IF local[p].linked THEN disk[Month(p)] ELSE local[p].held

(* Mutant: the watermark filters a package refresh too.                    *)
SelectsNewOnly(p, u) == local[p].create \/ local[p].last = 0 \/ u > local[p].last

(* Which lines are written: _split_package_refresh_chunk and               *)
(* _split_incremental_chunk; a table without rows takes every line.        *)
Selects(p, u) ==
  \/ local[p].create \/ local[p].last = 0 \/ Mode(p) = "full"
  \/ Mode(p) = "incremental" /\ u > local[p].last

(* A backfill compares the watermark of a table that has rows, from which  *)
(* it has stripped the time zone, with times of the file that have one:    *)
(* that raises, before anything is written.                                *)
Comparable(p) == Mode(p) = "backfill" => local[p].create \/ local[p].last = 0

(* An upsert names the unique key, and fails when the table has none.      *)
Upserts(p) == ~local[p].create

CanWrite(p) == Upserts(p) => keyed

Line(p) == View(p)[local[p].next]

WritesLine(p) == Line(p) # 0 /\ Selects(p, Line(p))

(* The next line is written to a row, if it is to be written at all.  An   *)
(* insert falls back to an upsert; one that finds no table creates it,     *)
(* without its key.  An upsert overwrites a row whatever its UpdateTime.   *)
Put(p, row, writes) ==
  /\ pc[p] = "line" /\ local[p].next <= Len(View(p))
  /\ Comparable(p) /\ (writes => CanWrite(p))
  /\ table' = IF writes THEN [table EXCEPT ![row] = Line(p)] ELSE table
  /\ exists' = (exists \/ writes)
  /\ local' = [local EXCEPT ![p].next = @ + 1]
  /\ UNCHANGED <<clock, published, keyed, disk, pc>>

(* Mutant: the state of the table is read again for every chunk.           *)
LoadLineRereads(p) ==
  /\ pc[p] = "line" /\ local[p].next <= Len(View(p))
  /\ Put(p, <<Month(p), local[p].next>>,
         WritesLine(p) /\ (Mode(p) = "incremental" => Line(p) > MaxStamp))

LoadLine(p) ==
  /\ pc[p] = "line" /\ local[p].next <= Len(View(p))
  /\ Put(p, <<Month(p), local[p].next>>, WritesLine(p))

(* The finally clause: the file loses its name; who has it open keeps it.  *)
CloseFile(p, m, todo) ==
  /\ pc' = [pc EXCEPT ![p] = "fetch"]
  /\ disk' = [disk EXCEPT ![m] = None]
  /\ local' = [q \in Procs |->
       IF q = p
       THEN [Fresh(local[p].task) EXCEPT !.todo = todo,
               !.create = local[p].create /\ Mode(p) # "backfill"]
       ELSE IF local[q].linked /\ Month(q) = m
       THEN [local[q] EXCEPT !.held = disk[m], !.linked = FALSE]
       ELSE local[q]]
  /\ UNCHANGED <<clock, published, exists, keyed, table>>

Close(p, todo) == CloseFile(p, Month(p), todo)

AtEnd(p) == pc[p] = "line" /\ local[p].next > Len(View(p))

EndOfFile(p) == AtEnd(p) /\ Comparable(p) /\ Close(p, local[p].todo)

-----------------------------------------------------------------------------
(* An HTTP error of the download: a refresh goes on with the next package. *)
SkipPackage(p) ==
  /\ Mode(p) # "backfill"
  /\ Goto(p, "fetch", "fetch")
  /\ \E m \in Months : IsNext(p, m) /\ local' = [local EXCEPT ![p].todo = @ \ {m}]
  /\ UNCHANGED <<clock, published, exists, keyed, table, disk>>

(* An exception while a package is loaded: a refresh logs it and goes on   *)
(* with the next package; a backfill ends.  That holds for its downloads   *)
(* too, and a file of that name goes, whoever has stored it.               *)
LoadFails(p) ==
  \/ /\ pc[p] \in {"open", "gone", "line"} /\ Mode(p) # "backfill"
     /\ Close(p, local[p].todo)
  \/ pc[p] \in {"store", "open", "line"} /\ Mode(p) = "backfill" /\ Close(p, {})
  \/ /\ pc[p] = "fetch" /\ Mode(p) = "backfill"
     /\ \E m \in Months : IsNext(p, m) /\ CloseFile(p, m, {})

(* Any other exception ends a refresh; run() logs it and returns.  The     *)
(* first request for a token is one of these, and every later one that     *)
(* gets no answer at all.                                                  *)
Aborts(p, t) ==
  /\ t.mode # "backfill"
  /\ pc' = [pc EXCEPT ![p] = "post"]
  /\ local' = [local EXCEPT ![p] = Fresh(t)]
  /\ UNCHANGED <<clock, published, exists, keyed, table, disk>>

AuthenticateFails(p) == pc[p] = "idle" /\ \E t \in Tasks[p] : Aborts(p, t)

Abort(p) == pc[p] \in {"fetch", "store"} /\ Aborts(p, local[p].task)

End(p) ==
  /\ pc' = [pc EXCEPT ![p] = "idle"]
  /\ local' = [local EXCEPT ![p] = Fresh(NoTask)]
  /\ UNCHANGED <<clock, published, exists, keyed, table, disk>>

(* The caller of run() executes the post-run scripts; a backfill has none. *)
Done(p) ==
  /\ pc[p] = "fetch" /\ local[p].todo = {}
  /\ IF Mode(p) = "backfill" THEN End(p)
     ELSE /\ pc' = [pc EXCEPT ![p] = "post"]
          /\ local' = [local EXCEPT ![p] = Fresh(local[p].task)]
          /\ UNCHANGED <<clock, published, exists, keyed, table, disk>>

PostRun(p) == pc[p] = "post" /\ End(p)

(* The service is killed; the file stays.                                  *)
Kill(p) == pc[p] # "idle" /\ End(p)

-----------------------------------------------------------------------------
Step(p) ==
  Fetch(p) \/ Store(p) \/ Open(p) \/ LoadLine(p) \/ EndOfFile(p) \/ Done(p) \/ PostRun(p)

Fault(p) ==
  \/ AuthenticateFails(p) \/ ListFails(p) \/ SkipPackage(p) \/ CreateFails(p)
  \/ LoadFails(p) \/ Abort(p) \/ Kill(p)

Next ==
  \/ \E S \in (SUBSET Rows) \ {{}} : Publish(S)
  \/ \E p \in Procs :
       \/ \E t \in Tasks[p] : Start(p, t)
       \/ Step(p) \/ Fault(p)

Spec == Init /\ [][Next]_vars

(* Runs go on, and one that finds its file or the key gone fails, as does  *)
(* a backfill of a table with rows; every scheduled job is started again   *)
(* and again; and in the end nothing else fails and nobody else starts     *)
(* runs.                                                                   *)
MustFail(p) ==
  \/ pc[p] = "gone"
  \/ pc[p] = "open" /\ Mode(p) = "backfill" /\ disk[Month(p)] = None
  \/ pc[p] = "line" /\ ~Comparable(p)
  \/ pc[p] = "line" /\ local[p].next <= Len(View(p)) /\ WritesLine(p) /\ ~CanWrite(p)

FairSpec ==
  /\ Spec
  /\ \A p \in Procs : WF_vars(Step(p) \/ (MustFail(p) /\ LoadFails(p)))
  /\ \A t \in Tasks[Sweeper] : SF_vars(Start(Sweeper, t))
  /\ <>[][\A p \in Procs :
            /\ Fault(p) => Step(p) \/ MustFail(p)
            /\ \A t \in Tasks[p] : Start(p, t) => p = Sweeper]_vars

-----------------------------------------------------------------------------
Contents == {<<>>} \cup UNION {[1 .. Lines[m] -> Stamps] : m \in Months}

TypeOK ==
  /\ clock \in Stamps /\ published \in [Rows -> Stamps]
  /\ exists \in BOOLEAN /\ keyed \in BOOLEAN /\ table \in [Rows -> Stamps]
  /\ disk \in [Months -> Contents \cup {None}]
  /\ pc \in [Procs -> {"idle", "fetch", "store", "open", "gone", "line", "post"}]
  /\ local \in [Procs -> [task : Task, todo : SUBSET Months, month : Months \cup {0},
       fetched : Contents, held : Contents, linked : BOOLEAN, next : Nat,
       last : Stamps, create : BOOLEAN, alone : BOOLEAN]]

(* A package that is loaded while nobody else loads one is loaded whole:   *)
(* at the end of its file every line that the run selects is in the table  *)
(* as it was fetched, whatever files earlier runs have left in             *)
(* crawler/data and wherever they were killed.                             *)
LoadedWhole ==
  \A p \in Procs : local[p].alone /\ AtEnd(p) =>
    \A i \in 1 .. Lines[Month(p)] :
       LET u == local[p].fetched[i] IN
       u # 0 /\ Selects(p, u) => table[<<Month(p), i>>] = u

Writes(p) == pc[p] = "line" /\ local'[p].next # local[p].next /\ table' # table

(* An upsert overwrites a row whatever its UpdateTime.  That puts no older *)
(* revision in the place of a newer one as long as no other run is under   *)
(* way from the time that the package was fetched: what is written then is *)
(* what was fetched, and neither a file that a killed run has left in      *)
(* crawler/data nor one that is still open elsewhere.                      *)
NoRevisionUndone ==
  [][\A p \in Procs :
       Writes(p) /\ local[p].alone => \A r \in Rows : table'[r] >= table[r]]_vars

(* docs/source/crawlers/entsoe_fms.md: package refreshes upsert every row  *)
(* instead of relying on one watermark.  Whatever other runs, kills and    *)
(* failures have done, the packages of the scheduled windows agree with    *)
(* the publisher in the end.  One failure is excepted: a table that could  *)
(* not be created with its key is created by the first insert without it,  *)
(* and never written again once the run has ended.                         *)
Swept == UNION {t.months : t \in Tasks[Sweeper]}

Agrees == \A m \in Swept : \A i \in 1 .. Lines[m] : table[<<m, i>>] = published[<<m, i>>]

Converges == <>[](keyed \/ ~exists => Agrees)

=============================================================================
