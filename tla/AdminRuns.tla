------------------------------ MODULE AdminRuns ------------------------------
(***************************************************************************)
(* CrawlerRunService of crawler_admin/runtime_service.py: manual runs with *)
(* a row in runs.sqlite3, the in-memory lock per crawler, one daemon       *)
(* thread per run, and the process-wide state that every run changes while *)
(* it executes: sys.stdout, the root logger's level and its handlers.      *)
(*                                                                         *)
(* sys.stderr is redirected together with sys.stdout and is left out.      *)
(***************************************************************************)
EXTENDS Naturals

CONSTANTS Crawlers,
          Runs,      \* run ids; a bound on the rows of the table
          Console,   \* what sys.stdout is when the service starts
          None,      \* no run, no crawler
          Faults     \* whether sqlite and the log files can fail

ASSUME RunsAssumption ==
  /\ None \notin Runs \cup Crawlers
  /\ Console \notin Runs
  /\ Faults \in BOOLEAN

VARIABLES
  up,          \* the admin process serves requests
  status,      \* the status column
  crawler,     \* the crawler_name column
  activeRuns,  \* _active_runs
  pc,          \* where the thread of each run is
  result,      \* its local variable status
  stdout,      \* sys.stdout: Console, or the run whose writer it is
  oldTarget,   \* what redirect_stdout will restore
  level,       \* the root logger's level
  prevLevel,   \* the local variable previous_level
  handlers     \* runs with a handler on the root logger

tableVars  == <<status, crawler>>
streamVars == <<stdout, oldTarget>>
logVars    == <<level, prevLevel, handlers>>
vars == <<up, status, crawler, activeRuns, pc, result, stdout, oldTarget,
          level, prevLevel, handlers>>

Active   == {"queued", "running"}
Terminal == {"succeeded", "failed", "interrupted"}

Init ==
  /\ up         = TRUE
  /\ status     = [r \in Runs |-> "none"]
  /\ crawler    = [r \in Runs |-> None]
  /\ activeRuns = [c \in Crawlers |-> None]
  /\ pc         = [r \in Runs |-> "none"]
  /\ result     = [r \in Runs |-> "succeeded"]
  /\ stdout     = Console
  /\ oldTarget  = [r \in Runs |-> Console]
  /\ level      = "warning"
  /\ prevLevel  = [r \in Runs |-> "warning"]
  /\ handlers   = {}

Goto(r, from, to) == up /\ pc[r] = from /\ pc' = [pc EXCEPT ![r] = to]

-----------------------------------------------------------------------------

(* start_action, under _guard: LockError when the crawler has a run, else  *)
(* a queued row, the lock, and a thread.                                   *)
StartAction(c, r) ==
  /\ activeRuns[c] = None
  /\ status[r] = "none"
  /\ Goto(r, "none", "mark")
  /\ status'     = [status EXCEPT ![r] = "queued"]
  /\ crawler'    = [crawler EXCEPT ![r] = c]
  /\ activeRuns' = [activeRuns EXCEPT ![c] = r]
  /\ UNCHANGED <<up, result, streamVars, logVars>>

(* _execute_run.                                                           *)
MarkRunning(r) ==
  /\ Goto(r, "mark", "open")
  /\ status' = [status EXCEPT ![r] = "running"]
  /\ UNCHANGED <<up, crawler, activeRuns, result, streamVars, logVars>>

(* The row cannot be updated, or the log cannot be opened: both come       *)
(* before the try block, so the thread ends and nothing is given back.     *)
BeginFails(r) ==
  /\ Faults
  /\ (Goto(r, "mark", "dead") \/ Goto(r, "open", "dead"))
  /\ UNCHANGED <<up, tableVars, activeRuns, result, streamVars, logVars>>

ReadLevel(r) ==
  /\ Goto(r, "open", "level")
  /\ prevLevel' = [prevLevel EXCEPT ![r] = level]
  /\ UNCHANGED <<up, tableVars, activeRuns, result, streamVars, level, handlers>>

SetLevel(r) ==
  /\ Goto(r, "level", "redirect")
  /\ level'    = IF prevLevel[r] = "warning" THEN "info" ELSE level
  /\ handlers' = handlers \cup {r}
  /\ UNCHANGED <<up, tableVars, activeRuns, result, streamVars, prevLevel>>

Redirect(r) ==
  /\ Goto(r, "redirect", "execute")
  /\ oldTarget' = [oldTarget EXCEPT ![r] = stdout]
  /\ stdout'    = r
  /\ UNCHANGED <<up, tableVars, activeRuns, result, logVars>>

(* The crawler or a post-run script returns or raises; the redirection is  *)
(* undone in any case.                                                     *)
Execute(r, how) ==
  /\ Goto(r, "execute", "restore")
  /\ result' = [result EXCEPT ![r] = how]
  /\ stdout' = oldTarget[r]
  /\ UNCHANGED <<up, tableVars, activeRuns, oldTarget, logVars>>

(* The finally block.                                                      *)
(* Mutant: the level is put back even by a run that did not change it.     *)
RestoreLevelAlways(r) ==
  /\ Goto(r, "restore", "save")
  /\ handlers' = handlers \ {r}
  /\ level'    = prevLevel[r]
  /\ UNCHANGED <<up, tableVars, activeRuns, result, streamVars, prevLevel>>

(* Mutant: the lock is given back before the row is updated.               *)
RestoreLevelAndRelease(r) ==
  /\ Goto(r, "restore", "save")
  /\ handlers'   = handlers \ {r}
  /\ level'      = IF prevLevel[r] = "warning" THEN "warning" ELSE level
  /\ activeRuns' = [activeRuns EXCEPT ![crawler[r]] = None]
  /\ UNCHANGED <<up, tableVars, result, streamVars, prevLevel>>

(* Mutant: the status is left for the next start to settle.                *)
RestoreLevelToEnd(r) ==
  /\ Goto(r, "restore", "release")
  /\ handlers' = handlers \ {r}
  /\ level'    = IF prevLevel[r] = "warning" THEN "warning" ELSE level
  /\ UNCHANGED <<up, tableVars, activeRuns, result, streamVars, prevLevel>>

RestoreLevel(r) ==
  /\ Goto(r, "restore", "save")
  /\ handlers' = handlers \ {r}
  /\ level'    = IF prevLevel[r] = "warning" THEN "warning" ELSE level
  /\ UNCHANGED <<up, tableVars, activeRuns, result, streamVars, prevLevel>>

Save(r) ==
  /\ Goto(r, "save", "release")
  /\ status' = [status EXCEPT ![r] = result[r]]
  /\ UNCHANGED <<up, crawler, activeRuns, result, streamVars, logVars>>

SaveFails(r) ==
  /\ Faults
  /\ Goto(r, "save", "dead")
  /\ UNCHANGED <<up, tableVars, activeRuns, result, streamVars, logVars>>

Release(r) ==
  /\ Goto(r, "release", "ended")
  /\ activeRuns' = [activeRuns EXCEPT ![crawler[r]] = None]
  /\ UNCHANGED <<up, tableVars, result, streamVars, logVars>>

-----------------------------------------------------------------------------
(* The process stops, at any point of any run; its daemon threads go with  *)
(* it.                                                                     *)
Stop ==
  /\ up
  /\ up'         = FALSE
  /\ activeRuns' = [c \in Crawlers |-> None]
  /\ pc'         = [r \in Runs |-> IF pc[r] = "none" THEN "none" ELSE "ended"]
  /\ stdout'     = Console
  /\ level'      = "warning"
  /\ handlers'   = {}
  /\ UNCHANGED <<tableVars, result, oldTarget, prevLevel>>

(* __init__: _init_db and _mark_interrupted_runs.                          *)
Start ==
  /\ ~up
  /\ up'     = TRUE
  /\ status' = [r \in Runs |-> IF status[r] \in Active THEN "interrupted"
                                                       ELSE status[r]]
  /\ UNCHANGED <<crawler, activeRuns, pc, result, streamVars, logVars>>

-----------------------------------------------------------------------------
RunStep(r) ==
  \/ MarkRunning(r) \/ ReadLevel(r) \/ SetLevel(r) \/ Redirect(r)
  \/ Execute(r, "succeeded") \/ Execute(r, "failed")
  \/ RestoreLevel(r) \/ Save(r) \/ Release(r)

Next ==
  \/ Stop \/ Start
  \/ \E r \in Runs :
       \/ RunStep(r) \/ BeginFails(r) \/ SaveFails(r)
       \/ \E c \in Crawlers : StartAction(c, r)

Spec == Init /\ [][Next]_vars

(* Threads run, crawlers return, and a stopped service is started again.   *)
FairSpec == Spec /\ WF_vars(Start) /\ \A r \in Runs : WF_vars(RunStep(r))

-----------------------------------------------------------------------------
Places == {"none", "mark", "open", "level", "redirect", "execute", "restore",
           "save", "release", "ended", "dead"}

TypeOK ==
  /\ up \in BOOLEAN
  /\ status \in [Runs -> {"none"} \cup Active \cup Terminal]
  /\ crawler \in [Runs -> Crawlers \cup {None}]
  /\ \A r \in Runs : crawler[r] = None <=> status[r] = "none"
  /\ activeRuns \in [Crawlers -> Runs \cup {None}]
  /\ pc \in [Runs -> Places]
  /\ result \in [Runs -> Terminal]
  /\ stdout \in Runs \cup {Console}
  /\ oldTarget \in [Runs -> Runs \cup {Console}]
  /\ level \in {"info", "warning"}
  /\ prevLevel \in [Runs -> {"info", "warning"}]
  /\ handlers \subseteq Runs

(* The table never shows two active runs of one crawler, in any order of   *)
(* requests, failures and restarts.                                        *)
OneActiveRow ==
  \A r, s \in Runs :
     r # s /\ status[r] \in Active /\ status[s] \in Active
       => crawler[r] # crawler[s]

(* The lock in memory and the status in the table agree: a run that the    *)
(* table shows as active is the one that locks its crawler, and a locked   *)
(* crawler has an active run, or one whose result was just saved.  This is *)
(* also what keeps a crawler locked when its run's thread died early.      *)
LockMatchesTable ==
  up => /\ \A r \in Runs : status[r] \in Active => activeRuns[crawler[r]] = r
        /\ \A c \in Crawlers : activeRuns[c] # None =>
              \E r \in Runs : /\ activeRuns[c] = r /\ crawler[r] = c
                             /\ (status[r] \in Active \/ pc[r] = "release")

(* When no run executes, the root logger has its level back, although the  *)
(* runs that changed it ended in any order.                                *)
Logging(r) == pc[r] \in {"level", "redirect", "execute", "restore"}

LevelRestored == (\A r \in Runs : ~Logging(r)) => level = "warning" /\ handlers = {}

(* A run's final status is final.                                          *)
TerminalStaysTerminal ==
  [][\A r \in Runs : status[r] \in Terminal => status'[r] = status[r]]_vars

(* Every run that was accepted gets a final status, across restarts of the *)
(* service, unless a fault of sqlite or of the file system has ended its   *)
(* thread: that one waits for the next start of the service.               *)
RunsSettle ==
  \A r \in Runs : status[r] \in Active ~> status[r] \in Terminal \/ pc[r] = "dead"

-----------------------------------------------------------------------------
(* The inductive invariant: where a thread is tells the status of its row, *)
(* the lock it holds, and who owes the root logger its level.              *)
Holding == {"mark", "open", "level", "redirect", "execute", "restore", "save",
            "release", "dead"}

RowFollowsThread ==
  \A r \in Runs :
     /\ pc[r] = "none" <=> status[r] = "none"
     /\ pc[r] = "release" => status[r] \in Terminal
     /\ up /\ pc[r] = "ended" => status[r] \in Terminal
     /\ pc[r] \in Holding \ {"release"} => status[r] \in Active

LockFollowsThread ==
  /\ \A r \in Runs : pc[r] \in Holding => up /\ activeRuns[crawler[r]] = r
  /\ \A c \in Crawlers : activeRuns[c] # None =>
        pc[activeRuns[c]] \in Holding /\ crawler[activeRuns[c]] = c

LevelOwed ==
  /\ handlers = {r \in Runs : pc[r] \in {"redirect", "execute", "restore"}}
  /\ level = "info" => \E r \in handlers : prevLevel[r] = "warning"

AdminInv ==
  TypeOK /\ RowFollowsThread /\ LockFollowsThread /\ LevelOwed /\ OneActiveRow

=============================================================================
