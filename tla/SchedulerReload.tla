--------------------------- MODULE SchedulerReload ---------------------------
(***************************************************************************)
(* The life of the crawler_scheduler.py process: the main loop that starts *)
(* one SchedulerThread after another, the watchdog handler that sets       *)
(* configChanged, the threads of each generation with a queue of their     *)
(* own, the signal handler, and the editors of CRAWLER_CONFIG.yml.         *)
(*                                                                         *)
(* A pop and the starts that follow it are one step here; JobDispatch      *)
(* takes them apart.  A generation's place is used again once none of its  *)
(* threads is alive, so Gens bounds only how many generations overlap.     *)
(***************************************************************************)
EXTENDS CrawlerJobQueue

CONSTANTS Gens,      \* places for SchedulerThread objects with live jobs
          Versions,  \* contents of CRAWLER_CONFIG.yml
          Enabled,   \* the enabled jobs of each version
          None,      \* no configuration: nothing loaded, or an empty file
          Fragile    \* jobs whose thread can die before it reaches on_finish

ReloadAssumption ==
  /\ Enabled \in [Versions -> SUBSET Jobs]
  /\ None \notin Versions /\ None \notin Gens
  /\ Fragile \subseteq Jobs

VARIABLES
  file,     \* what a reader of CRAWLER_CONFIG.yml sees, None while truncated
  writing,  \* the version an in-place save is writing, None if there is none
  notice,   \* a watchdog event that on_any_event has not handled yet
  changed,  \* the global configChanged
  main,     \* where the main thread is
  current,  \* the generation in scheduler_thread, None before the first
  loaded,   \* the configuration each generation was built from
  thread,   \* where each generation's SchedulerThread is
  due,      \* jobs of each generation with next_run_time <= now
  queue,    \* job_queue of each generation
  running   \* jobs with a job thread, by the generation that started them

fileVars == <<file, writing>>
genVars  == <<loaded, thread, due, queue, running>>
vars     == <<file, writing, notice, changed, main, current,
              loaded, thread, due, queue, running>>

Init ==
  /\ file \in Versions
  /\ writing = None
  /\ notice  = FALSE
  /\ changed = FALSE
  /\ main    = "load"
  /\ current = None
  /\ loaded  = [g \in Gens |-> None]
  /\ thread  = [g \in Gens |-> "ended"]
  /\ due     = [g \in Gens |-> {}]
  /\ queue   = [g \in Gens |-> EmptyQueue]
  /\ running = [g \in Gens |-> {}]

-----------------------------------------------------------------------------
(* Saves of the file: os.replace, or, where the file is a bind mount, open *)
(* for writing, which truncates it, and then write.  The observer reports  *)
(* every change of the file.                                               *)

SaveReplace(v) ==
  /\ writing = None
  /\ file'   = v
  /\ notice' = TRUE
  /\ UNCHANGED <<writing, changed, main, current, genVars>>

SaveTruncate(v) ==
  /\ writing = None
  /\ file'    = None
  /\ writing' = v
  /\ notice'  = TRUE
  /\ UNCHANGED <<changed, main, current, genVars>>

SaveWrite ==
  /\ writing # None
  /\ file'    = writing
  /\ writing' = None
  /\ notice'  = TRUE
  /\ UNCHANGED <<changed, main, current, genVars>>

Edit == SaveWrite \/ \E v \in Versions \ {file} : SaveReplace(v) \/ SaveTruncate(v)

OnAnyEvent ==
  /\ notice
  /\ notice'  = FALSE
  /\ changed' = TRUE
  /\ UNCHANGED <<fileVars, main, current, genVars>>

-----------------------------------------------------------------------------
(* The main loop.  SchedulerThread() reads the configuration and ends the  *)
(* process when there is none.                                             *)

IsFree(g) == thread[g] = "ended" /\ running[g] = {}

Load(g) ==
  /\ main = "load" /\ file # None /\ IsFree(g)
  /\ loaded'  = [loaded EXCEPT ![g] = file]
  /\ queue'   = [queue EXCEPT ![g] = EmptyQueue]
  /\ current' = g
  /\ main'    = "build"
  /\ UNCHANGED <<fileVars, notice, changed, thread, due, running>>

(* Mutant: the flag is cleared only once the new thread has been built.    *)
StartThenClear ==
  /\ main = "build"
  /\ thread'  = [thread EXCEPT ![current] = "wait"]
  /\ main'    = "watch"
  /\ changed' = FALSE
  /\ UNCHANGED <<fileVars, notice, current, loaded, due, queue, running>>

(* The crawlers are imported, the jobs get their next_run_time from the    *)
(* clock, and the thread is started.                                       *)
StartThread ==
  /\ main = "build"
  /\ thread' = [thread EXCEPT ![current] = "wait"]
  /\ main'   = "watch"
  /\ UNCHANGED <<fileVars, notice, changed, current, loaded, due, queue, running>>

LoadFails ==
  /\ main = "load" /\ file = None
  /\ main' = "exiting"
  /\ UNCHANGED <<fileVars, notice, changed, current, genVars>>

(* The scheduler thread is no longer alive.                                *)
Reset ==
  /\ main = "watch" /\ thread[current] = "ended"
  /\ main'    = IF changed THEN "load" ELSE "exiting"
  /\ changed' = FALSE
  /\ UNCHANGED <<fileVars, notice, current, genVars>>

(* SIGINT or SIGTERM: stop_event is set, then SystemExit.                  *)
Signal ==
  /\ main \in {"load", "build", "watch"}
  /\ main' = "exiting"
  /\ UNCHANGED <<fileVars, notice, changed, current, genVars>>

(* The interpreter waits for threads that are not daemons.                 *)
Exit ==
  /\ main = "exiting"
  /\ \A g \in Gens : IsFree(g)
  /\ main' = "exited"
  /\ UNCHANGED <<fileVars, notice, changed, current, genVars>>

(* The process is killed, with all its threads.                            *)
Kill ==
  /\ main # "exited"
  /\ main' = "exited"
  /\ thread'  = [g \in Gens |-> "ended"]
  /\ due'     = [g \in Gens |-> {}]
  /\ queue'   = [g \in Gens |-> EmptyQueue]
  /\ running' = [g \in Gens |-> {}]
  /\ UNCHANGED <<fileVars, notice, changed, current, loaded>>

(* The container's restart policy, or an operator.                         *)
Restart ==
  /\ main = "exited"
  /\ main'    = "load"
  /\ current' = None
  /\ notice'  = FALSE
  /\ changed' = FALSE
  /\ queue'   = [g \in Gens |-> EmptyQueue]
  /\ loaded'  = [g \in Gens |-> None]
  /\ UNCHANGED <<fileVars, thread, due, running>>

-----------------------------------------------------------------------------
(* SchedulerThread.run of generation g.                                    *)

Stopping == main = "exiting"

(* A slot of the job's schedule passes while the thread waits.             *)
FallDue(g, j) ==
  /\ thread[g] = "wait" /\ j \in Enabled[loaded[g]] \ due[g]
  /\ due' = [due EXCEPT ![g] = @ \cup {j}]
  /\ UNCHANGED <<fileVars, notice, changed, main, current, loaded, thread,
                 queue, running>>

(* Mutant: the stop event only cuts the wait short.                        *)
ReturnOnChange(g) ==
  /\ thread[g] = "wait" /\ changed
  /\ thread' = [thread EXCEPT ![g] = "ended"]
  /\ due'    = [due EXCEPT ![g] = {}]
  /\ UNCHANGED <<fileVars, notice, changed, main, current, loaded, queue,
                 running>>

(* A wait slice ends with the stop event set or a changed configuration:   *)
(* the thread returns, and whatever fell due in the slice is not queued.   *)
Return(g) ==
  /\ thread[g] = "wait" /\ (Stopping \/ changed)
  /\ thread' = [thread EXCEPT ![g] = "ended"]
  /\ due'    = [due EXCEPT ![g] = {}]
  /\ UNCHANGED <<fileVars, notice, changed, main, current, loaded, queue,
                 running>>

(* A slice ends, or none is waited for because a job was due already when  *)
(* the loop came round; configChanged is looked at only after a slice.     *)
Wake(g) ==
  /\ thread[g] = "wait" /\ ~Stopping /\ (~changed \/ due[g] # {})
  /\ thread' = [thread EXCEPT ![g] = "enqueue"]
  /\ UNCHANGED <<fileVars, notice, changed, main, current, loaded, due,
                 queue, running>>

EnqueueDue(g, j) ==
  /\ thread[g] = "enqueue" /\ j \in due[g]
  /\ queue' = [queue EXCEPT ![g] = Enqueue(@, j)]
  /\ due'   = [due EXCEPT ![g] = @ \ {j}]
  /\ UNCHANGED <<fileVars, notice, changed, main, current, loaded, thread,
                 running>>

(* _dispatch_ready_jobs on the queue q of generation g, whose running jobs *)
(* are R.                                                                  *)
DispatchReady(g, q, R) ==
  \E P \in Takes(q) : \E f \in Enumerations(DOMAIN q.pending \ P) :
     /\ queue'   = [queue EXCEPT ![g] = PopReady(q, P, f)]
     /\ running' = [running EXCEPT ![g] = R \cup JobsAt(q, P)]

Dispatch(g) ==
  /\ thread[g] = "enqueue" /\ due[g] = {}
  /\ DispatchReady(g, queue[g], running[g])
  /\ thread' = [thread EXCEPT ![g] = "wait"]
  /\ UNCHANGED <<fileVars, notice, changed, main, current, loaded, due>>

(* _on_job_finished: also after the generation's own thread has ended.     *)
(* Mutant: the old generation's job threads do not dispatch any more.      *)
FinishCurrentOnly(g, j) ==
  /\ j \in running[g]
  /\ IF thread[g] = "ended"
     THEN /\ queue'   = [queue EXCEPT ![g] = MarkFinished(@, j)]
          /\ running' = [running EXCEPT ![g] = @ \ {j}]
     ELSE DispatchReady(g, MarkFinished(queue[g], j), running[g] \ {j})
  /\ UNCHANGED <<fileVars, notice, changed, main, current, loaded, thread, due>>

Finish(g, j) ==
  /\ j \in running[g]
  /\ DispatchReady(g, MarkFinished(queue[g], j), running[g] \ {j})
  /\ UNCHANGED <<fileVars, notice, changed, main, current, loaded, thread, due>>

(* subprocess.run of a post-run script raises outside the try block: the   *)
(* thread ends without on_finish, and its id and keys stay taken.          *)
Die(g, j) ==
  /\ j \in running[g] \cap Fragile
  /\ running' = [running EXCEPT ![g] = @ \ {j}]
  /\ UNCHANGED <<fileVars, notice, changed, main, current, loaded, thread, due,
                 queue>>

(* The jobs that a queue takes for running although no thread runs them.   *)
Lost(g) == queue[g].activeIds \ running[g]

-----------------------------------------------------------------------------
ThreadStep(g) ==
  Return(g) \/ Wake(g) \/ (\E j \in Jobs : EnqueueDue(g, j)) \/ Dispatch(g)

MainStep == (\E g \in Gens : Load(g)) \/ LoadFails \/ StartThread \/ Reset \/ Exit

Next ==
  \/ Edit \/ OnAnyEvent
  \/ MainStep \/ Signal \/ Kill \/ Restart
  \/ \E g \in Gens :
       \/ ThreadStep(g)
       \/ \E j \in Jobs : FallDue(g, j) \/ Finish(g, j) \/ Die(g, j)

Spec == Init /\ [][Next]_vars

(* Threads run, crawler runs end, a save that has begun is completed, and  *)
(* the observer delivers its events.  A scheduler thread is not for ever   *)
(* behind its schedule, so it comes to the end of a slice again and again. *)
(* No thread has to die.                                                   *)
(* A place for a generation is a bound of the model: Load gets strong      *)
(* fairness.  Nothing is assumed of the clock, of editors, of signals or   *)
(* of the restart policy.                                                  *)
Fairness ==
  /\ WF_vars(OnAnyEvent) /\ WF_vars(SaveWrite)
  /\ WF_vars(LoadFails \/ StartThread \/ Reset \/ Exit) /\ SF_vars(\E g \in Gens : Load(g))
  /\ \A g \in Gens :
       /\ WF_vars(ThreadStep(g)) /\ SF_vars(Return(g))
       /\ \A j \in Jobs : WF_vars(Finish(g, j))

FairSpec == Spec /\ Fairness

-----------------------------------------------------------------------------
TypeOK ==
  /\ file \in Versions \cup {None}
  /\ writing \in Versions \cup {None}
  /\ notice \in BOOLEAN /\ changed \in BOOLEAN
  /\ main \in {"load", "build", "watch", "exiting", "exited"}
  /\ current \in Gens \cup {None}
  /\ loaded \in [Gens -> Versions \cup {None}]
  /\ thread \in [Gens -> {"wait", "enqueue", "ended"}]
  /\ \A g \in Gens : thread[g] # "ended" => loaded[g] \in Versions
  /\ due \in [Gens -> SUBSET Jobs]
  /\ queue \in [Gens -> QueueType]
  /\ running \in [Gens -> SUBSET Jobs]

(* No edit is lost: while a scheduler thread works with a configuration    *)
(* that is not the one in the file, an event is on its way or the flag is  *)
(* set.  This needs the flag to be cleared before the file is read, and    *)
(* the observer to be started before the first read.                       *)
NoLostEdit ==
  main = "watch" /\ thread[current] # "ended" /\ loaded[current] # file
    => notice \/ changed

(* docs/source/crawler_config.md: a job is not enqueued again while it is  *)
(* running, and jobs that touch the same tables wait for each other.  Every *)
(* generation has a queue of its own, so this fails across a reload.       *)
DocumentedExclusion ==
  \A g, h \in Gens : \A i \in running[g], j \in running[h] :
     Conflict(i, j) => g = h /\ i = j

(* The configuration in the file is loaded in the end, unless it is edited *)
(* again or the process ends.                                              *)
EditTakesEffect ==
  \A v \in Versions :
     file = v ~> \/ file # v
                \/ main \in {"exiting", "exited"}
                \/ (main = "watch" /\ loaded[current] = v)

(* A queue left behind by a reload is worked off, but for the jobs that    *)
(* share a table with one whose thread died: nothing dispatches them.      *)
OldQueueDrains ==
  \A g \in Gens, j \in Jobs :
     thread[g] = "ended" /\ j \in queue[g].pendingIds
       ~> \/ j \notin queue[g].pendingIds
          \/ \E i \in Lost(g) : Conflict(i, j)

(* A process that was told to stop ends once its jobs have.                *)
StopCompletes == main = "exiting" ~> main = "exited"

=============================================================================
