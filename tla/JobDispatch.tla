---------------------------- MODULE JobDispatch ----------------------------
(***************************************************************************)
(* One SchedulerThread of crawler_scheduler.py with its CrawlerJobQueue    *)
(* and the job threads it starts.  The scheduler thread enqueues the jobs  *)
(* that are due and dispatches; every job thread that ends marks its job   *)
(* as finished and dispatches too, so several threads pop the same queue.  *)
(* Each critical section of the queue is a step of its own, and so is each *)
(* start of a thread.                                                      *)
(*                                                                         *)
(* Bound: Slots limits how many job threads exist at once.                 *)
(***************************************************************************)
EXTENDS CrawlerJobQueue

CONSTANTS Main,     \* the SchedulerThread
          Slots,    \* job threads
          Fragile   \* jobs whose thread can die before it reaches on_finish

ASSUME DispatchAssumption == Main \notin Slots /\ Fragile \subseteq Jobs

VARIABLES
  queue,   \* self.job_queue
  due,     \* due jobs that the scheduler thread has still to enqueue
  pc,      \* where each thread is
  ready,   \* jobs popped by a thread whose threads it has still to start
  job,     \* the job of each job thread, {} or a singleton
  leaked   \* jobs whose thread died without calling on_finish

vars == <<queue, due, pc, ready, job, leaked>>

Threads == Slots \cup {Main}

Init ==
  /\ queue  = EmptyQueue
  /\ due    = {}
  /\ pc     = [t \in Threads |-> IF t = Main THEN "wait" ELSE "idle"]
  /\ ready  = [t \in Threads |-> {}]
  /\ job    = [s \in Slots |-> {}]
  /\ leaked = {}

-----------------------------------------------------------------------------
(* SchedulerThread.run.  A wait slice ends: with no job due the thread     *)
(* only dispatches, otherwise it first enqueues each job that is due.      *)

Wake(D) ==
  /\ pc[Main] = "wait"
  /\ due' = D
  /\ pc'  = [pc EXCEPT ![Main] = "enqueue"]
  /\ UNCHANGED <<queue, ready, job, leaked>>

EnqueueDue(j) ==
  /\ pc[Main] = "enqueue"
  /\ j \in due
  /\ queue' = Enqueue(queue, j)
  /\ due'   = due \ {j}
  /\ UNCHANGED <<pc, ready, job, leaked>>

(* The thread returns on a stop event or a changed configuration.          *)
Return ==
  /\ pc[Main] = "wait"
  /\ pc' = [pc EXCEPT ![Main] = "ended"]
  /\ UNCHANGED <<queue, due, ready, job, leaked>>

-----------------------------------------------------------------------------
(* _dispatch_ready_jobs: pop_ready_jobs under the lock, then one thread    *)
(* for each job it returned.                                               *)

AtPop(t) == pc[t] = "pop" \/ (t = Main /\ pc[t] = "enqueue" /\ due = {})

Pop(t) ==
  /\ AtPop(t)
  /\ \E P \in Takes(queue) :
       /\ \E f \in Enumerations(DOMAIN queue.pending \ P) :
             queue' = PopReady(queue, P, f)
       /\ ready' = [ready EXCEPT ![t] = JobsAt(queue, P)]
  /\ pc' = [pc EXCEPT ![t] = "start"]
  /\ UNCHANGED <<due, job, leaked>>

Start(t, s) ==
  /\ pc[t] = "start"
  /\ pc[s] = "idle"
  /\ \E j \in ready[t] :
       /\ ready' = [ready EXCEPT ![t] = @ \ {j}]
       /\ job'   = [job EXCEPT ![s] = {j}]
  /\ pc' = [pc EXCEPT ![s] = "run"]
  /\ UNCHANGED <<queue, due, leaked>>

Dispatched(t) ==
  /\ pc[t] = "start"
  /\ ready[t] = {}
  /\ pc' = [pc EXCEPT ![t] = IF t = Main THEN "wait" ELSE "idle"]
  /\ UNCHANGED <<queue, due, ready, job, leaked>>

-----------------------------------------------------------------------------
(* thread_func of a job.  A crawler that fails is caught and the thread    *)
(* goes on to on_finish: mark_finished, then a dispatch of its own.        *)

(* Mutant: the job thread ends without a dispatch.                         *)
FinishWithoutDispatch(s) ==
  /\ pc[s] = "run"
  /\ \E j \in job[s] : queue' = MarkFinished(queue, j)
  /\ job' = [job EXCEPT ![s] = {}]
  /\ pc'  = [pc EXCEPT ![s] = "idle"]
  /\ UNCHANGED <<due, ready, leaked>>

Finish(s) ==
  /\ pc[s] = "run"
  /\ \E j \in job[s] : queue' = MarkFinished(queue, j)
  /\ job' = [job EXCEPT ![s] = {}]
  /\ pc'  = [pc EXCEPT ![s] = "pop"]
  /\ UNCHANGED <<due, ready, leaked>>

(* subprocess.run of a post-run script raises: that call is outside the    *)
(* try block, so the thread ends and on_finish is never called.            *)
Die(s) ==
  /\ pc[s] = "run"
  /\ job[s] \subseteq Fragile
  /\ leaked' = leaked \cup job[s]
  /\ job'    = [job EXCEPT ![s] = {}]
  /\ pc'     = [pc EXCEPT ![s] = "idle"]
  /\ UNCHANGED <<queue, due, ready>>

-----------------------------------------------------------------------------
StartOne(t) == \E s \in Slots : Start(t, s)

SlotStep(s) == Pop(s) \/ Dispatched(s) \/ Finish(s)

MainStep == (\E j \in Jobs : EnqueueDue(j)) \/ Pop(Main) \/ Dispatched(Main)

Next ==
  \/ \E D \in SUBSET Jobs : Wake(D)
  \/ Return
  \/ MainStep
  \/ \E t \in Threads : StartOne(t)
  \/ \E s \in Slots : SlotStep(s) \/ Die(s)

Spec == Init /\ [][Next]_vars

(* The operating system runs every thread, and a crawler run that has      *)
(* started ends.  Nothing is assumed of the clock: jobs need not fall due. *)
(* In the program starting a thread never waits for another one; here it   *)
(* waits for a free slot, so it gets strong fairness.                      *)
Fairness ==
  /\ WF_vars(MainStep)
  /\ \A s \in Slots : WF_vars(SlotStep(s))
  /\ \A t \in Threads : SF_vars(StartOne(t))

FairSpec == Spec /\ Fairness

-----------------------------------------------------------------------------
TypeOK ==
  /\ queue \in QueueType
  /\ due \in SUBSET Jobs
  /\ pc \in [Threads -> {"wait", "enqueue", "pop", "start", "ended", "idle", "run"}]
  /\ ready \in [Threads -> SUBSET Jobs]
  /\ job \in [Slots -> SUBSET Jobs]
  /\ leaked \in SUBSET Jobs

Running(j) == \E s \in Slots : pc[s] = "run" /\ j \in job[s]

(* Two job threads that run at once never write the same table: they run   *)
(* different jobs and their lock keys are disjoint.  (pop_ready_jobs and   *)
(* mark_finished, interleaved over all the threads that dispatch.)         *)
RunsExclude ==
  \A s, u \in Slots : s # u /\ pc[s] = "run" /\ pc[u] = "run" =>
     \A i \in job[s], j \in job[u] : i # j /\ ~Conflict(i, j)

(* No wakeup is lost: a job that stays in the deque is blocked by a job    *)
(* that holds one of its keys, or some thread is on its way to pop.  This  *)
(* is why each job thread dispatches after mark_finished.                  *)
NoLostWakeup ==
  \A j \in queue.pendingIds :
     \/ \E i \in queue.activeIds : Conflict(i, j)
     \/ \E t \in Threads : pc[t] = "pop"
     \/ pc[Main] = "enqueue"

Popped == UNION {ready[t] : t \in Threads}
Held   == UNION {job[s] : s \in Slots}

(* The ids marked as running are exactly the jobs somebody is about to     *)
(* start, the jobs that run, and the jobs whose thread died early: a key   *)
(* is kept for ever only by a thread that never reached on_finish.         *)
ActiveAccounted ==
  /\ queue.activeIds = leaked \cup Popped \cup Held
  /\ queue.activeKeys = UNION {LockKeys[j] : j \in queue.activeIds}

(* A job is never taken while another one that needs no key beyond its own *)
(* stands ahead of it: jobs with equal keys run in the order in which they *)
(* were enqueued, although the scan lets other jobs pass a blocked one.    *)
Ahead(i, j) ==
  \E a, b \in DOMAIN queue.pending :
     a < b /\ queue.pending[a] = i /\ queue.pending[b] = j

FifoPerKeys ==
  [][\A i, j \in queue.pendingIds :
        Ahead(i, j) /\ LockKeys[i] \subseteq LockKeys[j]
        => j \notin queue'.activeIds]_vars

(* Every queued job is started in the end, when every run ends: unless     *)
(* another job can take a part of the keys it waits for, or a thread that  *)
(* died early keeps one of them.                                           *)
NeverPassed(j) == \A i \in Jobs : Conflict(i, j) => LockKeys[j] \subseteq LockKeys[i]

QueuedJobRuns ==
  \A j \in Jobs : NeverPassed(j) =>
     (j \in queue.pendingIds ~> Running(j) \/ \E i \in leaked : Conflict(i, j))

(* The queue keeps the promise of the documentation.                       *)
Admission == INSTANCE JobAdmission
               WITH waiting <- queue.pendingIds, holding <- queue.activeIds
ImplementsAdmission == Admission!AdmissionSpec

-----------------------------------------------------------------------------
(* The inductive invariant behind the properties above: the queue's parts  *)
(* agree, every active job is in exactly one place, a thread holds popped  *)
(* jobs only while it starts them and a job only while it runs it.         *)
OnePlaceEach ==
  /\ \A t, u \in Threads : t # u => ready[t] \cap ready[u] = {}
  /\ \A s, u \in Slots : s # u => job[s] \cap job[u] = {}
  /\ \A t \in Threads, s \in Slots : ready[t] \cap job[s] = {}
  /\ \A t \in Threads : leaked \cap ready[t] = {}
  /\ \A s \in Slots : leaked \cap job[s] = {}

HeldWhere ==
  /\ \A t \in Threads : pc[t] # "start" => ready[t] = {}
  /\ \A s \in Slots : pc[s] = "run" => \E j \in Jobs : job[s] = {j}
  /\ \A s \in Slots : pc[s] # "run" => job[s] = {}

DispatchInv ==
  /\ TypeOK
  /\ QueueInv(queue)
  /\ ActiveAccounted
  /\ OnePlaceEach
  /\ HeldWhere
  /\ NoLostWakeup

=============================================================================
