--------------------------- MODULE SchedulerProofs ---------------------------
(***************************************************************************)
(* Proofs about the scheduler, for any jobs, lock keys and threads: what   *)
(* the operations of CrawlerJobQueue preserve; that DispatchInv is         *)
(* inductive, from which the safety properties of JobDispatch and the      *)
(* refinement of JobAdmission follow; and, for any versions of the         *)
(* configuration and number of generations alive, that SchedulerReload     *)
(* loses no edit, that one SchedulerThread enqueues at a time, and that    *)
(* whatever waits in a queue that a reload left behind waits for a job     *)
(* that runs or whose thread died.                                         *)
(***************************************************************************)
EXTENDS MCScheduler, FiniteSetTheorems, TLAPS

(* The empty queue of CrawlerJobQueue.__init__ is well formed.             *)
LEMMA EmptyQueueInv == EmptyQueue \in QueueType /\ QueueInv(EmptyQueue)
<1>1. EmptyQueue \in QueueType
  BY DEF EmptyQueue, QueueType
<1>2. DequeAgrees(EmptyQueue)
  BY DEF EmptyQueue, DequeAgrees
<1>3. LocksAgree(EmptyQueue) /\ ActiveExclude(EmptyQueue)
  BY DEF EmptyQueue, LocksAgree, ActiveExclude
<1>4. QED
  BY <1>1, <1>2, <1>3 DEF QueueInv

(* enqueue keeps the queue well formed and adds the job unless it is known. *)
LEMMA EnqueueInv ==
  ASSUME NEW q \in QueueType, QueueInv(q), NEW j \in Jobs
  PROVE  /\ Enqueue(q, j) \in QueueType
         /\ QueueInv(Enqueue(q, j))
         /\ Enqueue(q, j).activeIds = q.activeIds
         /\ Enqueue(q, j).activeKeys = q.activeKeys
         /\ Enqueue(q, j).pendingIds =
              IF IsKnown(q, j) THEN q.pendingIds ELSE q.pendingIds \cup {j}
<1>1. CASE IsKnown(q, j)
  BY <1>1 DEF Enqueue
<1>2. CASE ~IsKnown(q, j)
  <2> DEFINE r == Enqueue(q, j)
  <2>1. r = [q EXCEPT !.pending    = Append(q.pending, j),
                      !.pendingIds = q.pendingIds \cup {j}]
    BY <1>2 DEF Enqueue
  <2>2. /\ r.pending = Append(q.pending, j)
        /\ r.pendingIds = q.pendingIds \cup {j}
        /\ r.activeIds = q.activeIds
        /\ r.activeLocks = q.activeLocks
        /\ r.activeKeys = q.activeKeys
    BY <2>1 DEF QueueType
  <2>3. q.pending \in Seq(Jobs)
    BY DEF QueueType
  <2>4. r \in QueueType
    <3>1. Append(q.pending, j) \in Seq(Jobs)
      BY <2>3
    <3>2. q.pendingIds \cup {j} \in SUBSET Jobs
      BY DEF QueueType
    <3>3. QED
      BY <2>1, <3>1, <3>2 DEF QueueType
  <2>5. DequeAgrees(r)
    <3> HIDE DEF r
    <3>1. j \notin q.pendingIds /\ j \notin q.activeIds /\ DequeAgrees(q)
      BY <1>2 DEF IsKnown, QueueInv
    <3>2. /\ DOMAIN r.pending = DOMAIN q.pending \cup {Len(q.pending) + 1}
          /\ Len(q.pending) + 1 \notin DOMAIN q.pending
          /\ \A i \in DOMAIN q.pending : r.pending[i] = q.pending[i]
          /\ r.pending[Len(q.pending) + 1] = j
      BY <2>2, <2>3
    <3>3. r.pendingIds = {r.pending[i] : i \in DOMAIN r.pending}
      BY <3>1, <3>2, <2>2 DEF DequeAgrees
    <3>4. ASSUME NEW i \in DOMAIN r.pending, NEW k \in DOMAIN r.pending, i # k
          PROVE  r.pending[i] # r.pending[k]
      BY <3>1, <3>2, <3>4 DEF DequeAgrees
    <3>5. r.pendingIds \cap r.activeIds = {}
      BY <3>1, <2>2 DEF DequeAgrees
    <3>6. QED
      BY <3>3, <3>4, <3>5 DEF DequeAgrees
  <2>6. LocksAgree(r) /\ ActiveExclude(r)
    <3> HIDE DEF r
    <3> QED  BY <2>2 DEF QueueInv, LocksAgree, ActiveExclude
  <2>7. QED
    BY <1>2, <2>2, <2>4, <2>5, <2>6 DEF QueueInv
<1>3. QED
  BY <1>1, <1>2

(* pop_ready_jobs: the queue stays well formed; the jobs taken move from   *)
(* pending to active, and every job left behind needs an active key.       *)
LEMMA PopReadyInv ==
  ASSUME NEW q \in QueueType, QueueInv(q),
         NEW P \in Takes(q), NEW f \in Enumerations(DOMAIN q.pending \ P)
  PROVE  /\ PopReady(q, P, f) \in QueueType
         /\ QueueInv(PopReady(q, P, f))
         /\ JobsAt(q, P) \subseteq q.pendingIds
         /\ \A j \in q.pendingIds \ JobsAt(q, P) :
               \E i \in q.activeIds \cup JobsAt(q, P) : Conflict(i, j)
<1> DEFINE r == PopReady(q, P, f)
           G == JobsAt(q, P)
           R == DOMAIN q.pending \ P
<1>1. /\ r.pending = [i \in DOMAIN f |-> q.pending[f[i]]]
      /\ r.pendingIds = q.pendingIds \ G
      /\ r.activeIds = q.activeIds \cup G
      /\ r.activeLocks = [j \in Jobs |-> IF j \in G THEN LockKeys[j]
                                         ELSE q.activeLocks[j]]
      /\ r.activeKeys = q.activeKeys \cup KeysAt(q, P)
  BY DEF PopReady
<1>2. /\ q.pending \in Seq(Jobs)
      /\ q.pendingIds \in SUBSET Jobs
      /\ q.activeIds \in SUBSET Jobs
      /\ q.activeLocks \in [Jobs -> SUBSET Keys]
      /\ q.activeKeys \in SUBSET Keys
  BY DEF QueueType
<1>3. P \subseteq DOMAIN q.pending /\ TakesExactly(q, P)
  BY DEF Takes
<1>4. DOMAIN q.pending = 1..Len(q.pending) /\ Len(q.pending) \in Nat
  BY <1>2
<1>5. Cardinality(R) \in Nat
  <2>1. IsFiniteSet(DOMAIN q.pending)
    BY <1>4, FS_Interval
  <2>2. IsFiniteSet(R)
    BY <2>1, FS_Subset
  <2>3. QED
    BY <2>2, FS_CardinalityType
<1> DEFINE n == Cardinality(R)
<1>6. /\ n \in Nat
      /\ f \in [1..n -> R]
      /\ \A a, b \in 1..n : a < b => f[a] < f[b]
      /\ \A p \in R : \E a \in 1..n : f[a] = p
  BY <1>5 DEF Enumerations
<1> HIDE DEF n
<1>7. /\ DequeAgrees(q)
      /\ LocksAgree(q)
      /\ ActiveExclude(q)
  BY DEF QueueInv
<1>8. G \subseteq q.pendingIds
  BY <1>3, <1>7 DEF JobsAt, DequeAgrees
<1>9. KeysAt(q, P) = UNION {LockKeys[j] : j \in G}
  BY DEF KeysAt, JobsAt
<1>10. \A i \in R : q.pending[i] \notin G
  BY <1>3, <1>7 DEF JobsAt, DequeAgrees
<1> HIDE DEF r, G
<1>11. r \in QueueType
  <2>1. r.pending \in Seq(Jobs)
    <3>1. \A i \in 1..n : f[i] \in DOMAIN q.pending
      BY <1>6
    <3>2. \A i \in 1..n : q.pending[f[i]] \in Jobs
      BY <1>2, <3>1
    <3>3. r.pending = [i \in 1..n |-> q.pending[f[i]]]
      BY <1>1, <1>6
    <3>4. QED
      BY <1>6, <3>2, <3>3
  <2>2. /\ r.pendingIds \in SUBSET Jobs
        /\ r.activeIds \in SUBSET Jobs
    BY <1>1, <1>2, <1>8
  <2>3. r.activeLocks \in [Jobs -> SUBSET Keys]
    BY <1>1, <1>2, LockKeysAssumption
  <2>4. r.activeKeys \in SUBSET Keys
    BY <1>1, <1>2, <1>8, <1>9, LockKeysAssumption
  <2>5. QED
    BY <2>1, <2>2, <2>3, <2>4 DEF QueueType, r, PopReady
<1>12. DequeAgrees(r)
  <2>1. /\ DOMAIN r.pending = 1..n
        /\ \A i \in 1..n : r.pending[i] = q.pending[f[i]]
        /\ \A i \in 1..n : f[i] \in R
    BY <1>1, <1>6
  <2>2. q.pendingIds \ G = {q.pending[p] : p \in R}
    BY <1>3, <1>7, <1>10 DEF DequeAgrees, G, JobsAt
  <2>3. \A p \in R : \E i \in DOMAIN r.pending : r.pending[i] = q.pending[p]
    BY <1>6, <2>1
  <2>4. \A i \in DOMAIN r.pending : \E p \in R : r.pending[i] = q.pending[p]
    BY <2>1
  <2>5. r.pendingIds = {r.pending[i] : i \in DOMAIN r.pending}
    BY <1>1, <2>2, <2>3, <2>4
  <2>6. ASSUME NEW i \in DOMAIN r.pending, NEW k \in DOMAIN r.pending, i # k
        PROVE  r.pending[i] # r.pending[k]
    <3>1. i \in 1..n /\ k \in 1..n
      BY <2>1
    <3>2. i < k \/ k < i
      BY <1>6, <2>6, <3>1
    <3>3. f[i] \in Nat /\ f[k] \in Nat /\ f[i] \in R /\ f[k] \in R
      BY <1>4, <2>1, <3>1
    <3>4. f[i] # f[k]
      BY <1>6, <3>1, <3>2, <3>3
    <3>5. QED
      BY <1>7, <2>1, <3>1, <3>3, <3>4 DEF DequeAgrees
  <2>7. r.pendingIds \cap r.activeIds = {}
    BY <1>1, <1>7 DEF DequeAgrees
  <2>8. QED
    BY <2>5, <2>6, <2>7 DEF DequeAgrees
<1>13. LocksAgree(r)
  <2>1. \A j \in Jobs :
           r.activeLocks[j] = IF j \in r.activeIds THEN LockKeys[j] ELSE {}
    BY <1>1, <1>7 DEF LocksAgree
  <2>2. r.activeKeys = UNION {LockKeys[j] : j \in r.activeIds}
    BY <1>1, <1>7, <1>9 DEF LocksAgree
  <2>3. QED
    BY <2>1, <2>2 DEF LocksAgree
<1>14. ActiveExclude(r)
  <2>1. ASSUME NEW a \in P, NEW i \in q.activeIds
        PROVE  ~Conflict(i, q.pending[a])
    <3>1. LockKeys[q.pending[a]] \cap q.activeKeys = {}
      BY <1>3 DEF TakesExactly
    <3>2. LockKeys[i] \subseteq q.activeKeys
      BY <1>7 DEF LocksAgree
    <3>3. QED
      BY <3>1, <3>2 DEF Conflict
  <2>2. ASSUME NEW a \in P, NEW b \in P, a < b
        PROVE  ~Conflict(q.pending[a], q.pending[b])
    <3>1. LockKeys[q.pending[b]] \cap KeysAt(q, {k \in P : k < b}) = {}
      BY <1>3 DEF TakesExactly
    <3>2. LockKeys[q.pending[a]] \subseteq KeysAt(q, {k \in P : k < b})
      BY <2>2 DEF KeysAt
    <3>3. QED
      BY <3>1, <3>2 DEF Conflict
  <2>3. \A i, j : Conflict(i, j) <=> Conflict(j, i)
    BY DEF Conflict
  <2>4. ASSUME NEW i \in r.activeIds, NEW j \in r.activeIds, i # j
        PROVE  ~Conflict(i, j)
    <3>1. CASE i \in q.activeIds /\ j \in q.activeIds
      BY <1>7, <2>4, <3>1 DEF ActiveExclude
    <3>2. CASE i \in q.activeIds /\ j \in G
      BY <2>1, <3>2 DEF G, JobsAt
    <3>3. CASE i \in G /\ j \in q.activeIds
      BY <2>1, <2>3, <3>3 DEF G, JobsAt
    <3>4. CASE i \in G /\ j \in G
      <4>1. PICK a \in P, b \in P : i = q.pending[a] /\ j = q.pending[b]
        BY <3>4 DEF G, JobsAt
      <4>2. a < b \/ b < a
        BY <1>3, <1>4, <2>4, <4>1
      <4>3. QED
        BY <2>2, <2>3, <4>1, <4>2
    <3>5. QED
      BY <1>1, <3>1, <3>2, <3>3, <3>4
  <2>5. QED
    BY <2>4 DEF ActiveExclude
<1>15. ASSUME NEW j \in q.pendingIds \ G
       PROVE  \E i \in q.activeIds \cup G : Conflict(i, j)
  <2>1. PICK p \in R : j = q.pending[p]
    BY <1>7, <1>3 DEF DequeAgrees, G, JobsAt
  <2>2. LockKeys[j] \cap (q.activeKeys \cup KeysAt(q, {k \in P : k < p})) # {}
    BY <1>3, <2>1 DEF TakesExactly
  <2>3. KeysAt(q, {k \in P : k < p}) \subseteq KeysAt(q, P)
    BY DEF KeysAt
  <2>4. PICK x \in LockKeys[j] : x \in q.activeKeys \/ x \in KeysAt(q, P)
    BY <2>2, <2>3
  <2>5. \/ x \in UNION {LockKeys[i] : i \in q.activeIds}
        \/ x \in UNION {LockKeys[i] : i \in G}
    BY <1>7, <1>9, <2>4 DEF LocksAgree
  <2>6. PICK i \in q.activeIds \cup G : x \in LockKeys[i]
    BY <2>5
  <2>7. QED
    BY <2>4, <2>6 DEF Conflict
<1>16. QED
  BY <1>8, <1>11, <1>12, <1>13, <1>14, <1>15 DEF QueueInv, r, G

(* mark_finished of a running job keeps the queue well formed.             *)
LEMMA MarkFinishedInv ==
  ASSUME NEW q \in QueueType, QueueInv(q), NEW j \in q.activeIds
  PROVE  /\ MarkFinished(q, j) \in QueueType
         /\ QueueInv(MarkFinished(q, j))
         /\ MarkFinished(q, j).pending = q.pending
         /\ MarkFinished(q, j).pendingIds = q.pendingIds
         /\ MarkFinished(q, j).activeIds = q.activeIds \ {j}
<1> DEFINE r == MarkFinished(q, j)
<1>1. /\ r.pending = q.pending
      /\ r.pendingIds = q.pendingIds
      /\ r.activeIds = q.activeIds \ {j}
      /\ r.activeLocks = [q.activeLocks EXCEPT ![j] = {}]
      /\ r.activeKeys = q.activeKeys \ q.activeLocks[j]
  BY DEF MarkFinished, QueueType
<1>2. /\ q.activeIds \in SUBSET Jobs
      /\ q.activeLocks \in [Jobs -> SUBSET Keys]
  BY DEF QueueType
<1>3. r \in QueueType
  BY <1>2 DEF MarkFinished, QueueType
<1>4. DequeAgrees(q) /\ LocksAgree(q) /\ ActiveExclude(q)
  BY DEF QueueInv
<1> HIDE DEF r
<1>5. DequeAgrees(r)
  BY <1>1, <1>4 DEF DequeAgrees
<1>6. ActiveExclude(r)
  BY <1>1, <1>4 DEF ActiveExclude
<1>7. \A i \in Jobs :
         r.activeLocks[i] = IF i \in r.activeIds THEN LockKeys[i] ELSE {}
  BY <1>1, <1>2, <1>4 DEF LocksAgree
<1>8. r.activeKeys = UNION {LockKeys[i] : i \in r.activeIds}
  <2>1. q.activeLocks[j] = LockKeys[j]
    BY <1>2, <1>4 DEF LocksAgree
  <2>2. \A i \in r.activeIds : LockKeys[i] \cap LockKeys[j] = {}
    BY <1>1, <1>4 DEF ActiveExclude, Conflict
  <2>3. QED
    BY <1>1, <1>4, <2>1, <2>2 DEF LocksAgree
<1>9. QED
  BY <1>1, <1>3, <1>5, <1>6, <1>7, <1>8 DEF QueueInv, LocksAgree, r

-----------------------------------------------------------------------------
(* An empty queue and waiting threads satisfy the invariant.               *)
LEMMA InitInv == Init => DispatchInv
<1> SUFFICES ASSUME Init PROVE DispatchInv
  OBVIOUS
<1> USE DEF Init
<1>1. queue \in QueueType /\ QueueInv(queue)
  BY EmptyQueueInv
<1>2. queue.pendingIds = {} /\ queue.activeIds = {} /\ queue.activeKeys = {}
  BY DEF EmptyQueue
<1>3. TypeOK
  BY <1>1, DispatchAssumption DEF TypeOK, Threads
<1>4. ActiveAccounted
  <2>1. Popped = {}
    BY DEF Popped, Threads
  <2>2. Held = {}
    BY DEF Held
  <2>3. QED
    BY <1>2, <2>1, <2>2 DEF ActiveAccounted
<1>5. OnePlaceEach
  BY DEF OnePlaceEach, Threads
<1>6. HeldWhere
  BY DispatchAssumption DEF HeldWhere, Threads
<1>7. NoLostWakeup
  BY <1>2 DEF NoLostWakeup
<1>8. QED
  BY <1>1, <1>3, <1>4, <1>5, <1>6, <1>7 DEF DispatchInv

(* The places in which an active job can be, one by one.                   *)
LEMMA AccountedPointwise ==
  ActiveAccounted <=>
    /\ \A j : j \in queue.activeIds <=>
                \/ j \in leaked
                \/ \E t \in Threads : j \in ready[t]
                \/ \E s \in Slots : j \in job[s]
    /\ queue.activeKeys = UNION {LockKeys[j] : j \in queue.activeIds}
<1>1. \A j : j \in Popped <=> \E t \in Threads : j \in ready[t]
  BY DEF Popped
<1>2. \A j : j \in Held <=> \E s \in Slots : j \in job[s]
  BY DEF Held
<1>3. queue.activeIds = leaked \cup Popped \cup Held <=>
        \A j : j \in queue.activeIds <=>
                 \/ j \in leaked \/ j \in Popped \/ j \in Held
  OBVIOUS
<1>4. QED
  BY <1>1, <1>2, <1>3 DEF ActiveAccounted

-----------------------------------------------------------------------------
(* Each action preserves the invariant; one lemma per action that changes  *)
(* the queue or moves a job from one place to another.                     *)

(* The actions that only move the program counter.                         *)
LEMMA ControlStepInv ==
  ASSUME DispatchInv,
         (\E D \in SUBSET Jobs : Wake(D)) \/ Return
           \/ (\E t \in Threads : Dispatched(t)) \/ UNCHANGED vars
  PROVE  DispatchInv'
<1> USE DEF DispatchInv
<1>1. UNCHANGED <<queue, ready, job, leaked>>
  BY DEF Wake, Return, Dispatched, vars
<1>2. TypeOK'
  BY <1>1 DEF TypeOK, Wake, Return, Dispatched, vars, Threads
<1>3. QueueInv(queue)' /\ ActiveAccounted' /\ OnePlaceEach'
  <2>1. QueueInv(queue)'
    BY <1>1
  <2>2. ActiveAccounted'
    BY <1>1 DEF ActiveAccounted, Popped, Held
  <2>3. OnePlaceEach'
    BY <1>1 DEF OnePlaceEach
  <2>4. QED
    BY <2>1, <2>2, <2>3
<1>4. HeldWhere'
  BY <1>1, DispatchAssumption
  DEF HeldWhere, TypeOK, Wake, Return, Dispatched, vars, Threads
<1>5. NoLostWakeup'
  <2>1. CASE \E D \in SUBSET Jobs : Wake(D)
    BY <1>1, <2>1 DEF NoLostWakeup, TypeOK, Wake, Threads
  <2>2. CASE Return
    BY <1>1, <2>2 DEF NoLostWakeup, TypeOK, Return, Threads
  <2>3. CASE \E t \in Threads : Dispatched(t)
    BY <1>1, <2>3 DEF NoLostWakeup, TypeOK, Dispatched, Threads
  <2>4. CASE UNCHANGED vars
    BY <2>4 DEF NoLostWakeup, vars
  <2>5. QED
    BY <2>1, <2>2, <2>3, <2>4
<1>6. QED
  BY <1>2, <1>3, <1>4, <1>5

LEMMA EnqueueDueInv ==
  ASSUME DispatchInv, NEW j \in Jobs, EnqueueDue(j)
  PROVE  DispatchInv'
<1> USE DEF DispatchInv
<1>1. /\ pc[Main] = "enqueue"
      /\ queue' = Enqueue(queue, j)
      /\ due' = due \ {j}
      /\ UNCHANGED <<pc, ready, job, leaked>>
  BY DEF EnqueueDue
<1>2. queue \in QueueType
  BY DEF TypeOK
<1>3. /\ queue' \in QueueType
      /\ QueueInv(queue')
      /\ queue'.activeIds = queue.activeIds
      /\ queue'.activeKeys = queue.activeKeys
  BY <1>1, <1>2, EnqueueInv
<1>4. TypeOK'
  BY <1>1, <1>3 DEF TypeOK
<1>5. ActiveAccounted'
  BY <1>1, <1>3 DEF ActiveAccounted, Popped, Held
<1>6. OnePlaceEach' /\ HeldWhere'
  BY <1>1 DEF OnePlaceEach, HeldWhere
<1>7. NoLostWakeup'
  BY <1>1 DEF NoLostWakeup
<1>8. QED
  BY <1>3, <1>4, <1>5, <1>6, <1>7

LEMMA PopInv ==
  ASSUME DispatchInv, NEW t \in Threads, Pop(t)
  PROVE  DispatchInv'
<1> USE DEF DispatchInv
<1>1. PICK P \in Takes(queue) :
        /\ \E f \in Enumerations(DOMAIN queue.pending \ P) :
              queue' = PopReady(queue, P, f)
        /\ ready' = [ready EXCEPT ![t] = JobsAt(queue, P)]
  BY DEF Pop
<1>2. PICK f \in Enumerations(DOMAIN queue.pending \ P) :
        queue' = PopReady(queue, P, f)
  BY <1>1
<1> DEFINE G == JobsAt(queue, P)
<1>3. /\ queue'.pendingIds = queue.pendingIds \ G
      /\ queue'.activeIds = queue.activeIds \cup G
  BY <1>2 DEF PopReady
<1>4. /\ queue' \in QueueType
      /\ QueueInv(queue')
      /\ G \subseteq queue.pendingIds
      /\ \A j \in queue.pendingIds \ G :
            \E i \in queue.activeIds \cup G : Conflict(i, j)
  BY <1>2, PopReadyInv DEF TypeOK
<1>5. /\ UNCHANGED <<due, job, leaked>>
      /\ pc' = [pc EXCEPT ![t] = "start"]
      /\ ready' = [ready EXCEPT ![t] = G]
  BY <1>1 DEF Pop
<1>6. /\ G \cap queue.activeIds = {}
      /\ G \subseteq Jobs
  BY <1>4 DEF QueueInv, DequeAgrees, TypeOK, QueueType
<1> HIDE DEF G
<1>7. ready[t] = {}
  BY DispatchAssumption DEF Pop, AtPop, HeldWhere, Threads
<1>8. /\ pc \in [Threads -> {"wait", "enqueue", "pop", "start", "ended", "idle", "run"}]
      /\ ready \in [Threads -> SUBSET Jobs]
      /\ job \in [Slots -> SUBSET Jobs]
  BY DEF TypeOK
<1>9. TypeOK'
  BY <1>4, <1>5, <1>6, <1>8 DEF TypeOK
<1>10. ActiveAccounted'
  <2>1. \A j : j \in queue.activeIds <=>
                 \/ j \in leaked
                 \/ \E u \in Threads : j \in ready[u]
                 \/ \E s \in Slots : j \in job[s]
    BY AccountedPointwise
  <2>2. \A j : (\E u \in Threads : j \in ready'[u]) <=>
                 j \in G \/ \E u \in Threads : j \in ready[u]
    BY <1>5, <1>7, <1>8
  <2>3. Popped' = Popped \cup G
    BY <2>2 DEF Popped
  <2>4. Held' = Held
    BY <1>5 DEF Held
  <2>5. queue'.activeKeys = UNION {LockKeys[j] : j \in queue'.activeIds}
    BY <1>4 DEF QueueInv, LocksAgree
  <2>6. QED
    BY <1>3, <1>5, <2>3, <2>4, <2>5 DEF ActiveAccounted
<1>11. OnePlaceEach'
  <2>1. \A u \in Threads : ready[u] \subseteq queue.activeIds
    BY AccountedPointwise
  <2>2. \A s \in Slots : job[s] \subseteq queue.activeIds
    BY AccountedPointwise
  <2>3. leaked \subseteq queue.activeIds
    BY AccountedPointwise
  <2>4. \A u \in Threads : ready'[u] = IF u = t THEN G ELSE ready[u]
    BY <1>5, <1>8
  <2>5. QED
    BY <1>5, <1>6, <2>1, <2>2, <2>3, <2>4 DEF OnePlaceEach
<1>12. HeldWhere'
  BY <1>5, <1>8, DispatchAssumption DEF HeldWhere, Pop, AtPop, Threads
<1>13. NoLostWakeup'
  BY <1>3, <1>4 DEF NoLostWakeup
<1>14. QED
  BY <1>4, <1>9, <1>10, <1>11, <1>12, <1>13

LEMMA StartInv ==
  ASSUME DispatchInv, NEW t \in Threads, NEW s \in Slots, Start(t, s)
  PROVE  DispatchInv'
<1> USE DEF DispatchInv
<1>1. PICK j \in ready[t] :
        /\ ready' = [ready EXCEPT ![t] = @ \ {j}]
        /\ job' = [job EXCEPT ![s] = {j}]
  BY DEF Start
<1>2. /\ pc[t] = "start"
      /\ pc[s] = "idle"
      /\ pc' = [pc EXCEPT ![s] = "run"]
      /\ UNCHANGED <<queue, due, leaked>>
  BY DEF Start
<1>3. /\ pc \in [Threads -> {"wait", "enqueue", "pop", "start", "ended", "idle", "run"}]
      /\ ready \in [Threads -> SUBSET Jobs]
      /\ job \in [Slots -> SUBSET Jobs]
      /\ s \in Threads
      /\ s # t
      /\ job[s] = {}
      /\ ready[s] = {}
  BY <1>2 DEF TypeOK, Threads, HeldWhere
<1>4. /\ \A u \in Threads : ready'[u] = IF u = t THEN ready[t] \ {j} ELSE ready[u]
      /\ \A u \in Slots : job'[u] = IF u = s THEN {j} ELSE job[u]
      /\ \A u \in Threads : pc'[u] = IF u = s THEN "run" ELSE pc[u]
  BY <1>1, <1>2, <1>3
<1>5. TypeOK'
  BY <1>1, <1>2, <1>3 DEF TypeOK
<1>6. ActiveAccounted'
  <2>1. \A i : (\E u \in Threads : i \in ready[u]) \/ (\E u \in Slots : i \in job[u])
             <=> (\E u \in Threads : i \in ready'[u]) \/ (\E u \in Slots : i \in job'[u])
    <3>1. ASSUME NEW i, NEW u \in Threads, i \in ready[u]
          PROVE  (\E w \in Threads : i \in ready'[w]) \/ (\E w \in Slots : i \in job'[w])
      BY <1>4, <3>1
    <3>2. ASSUME NEW i, NEW u \in Slots, i \in job[u]
          PROVE  \E w \in Slots : i \in job'[w]
      BY <1>3, <1>4, <3>2
    <3>3. ASSUME NEW i, NEW u \in Threads, i \in ready'[u]
          PROVE  \E w \in Threads : i \in ready[w]
      BY <1>4, <3>3
    <3>4. ASSUME NEW i, NEW u \in Slots, i \in job'[u]
          PROVE  (\E w \in Threads : i \in ready[w]) \/ (\E w \in Slots : i \in job[w])
      BY <1>1, <1>4, <3>4
    <3>5. QED
      BY <3>1, <3>2, <3>3, <3>4
  <2>2. Popped \cup Held = Popped' \cup Held'
    BY <2>1 DEF Popped, Held
  <2>3. QED
    BY <1>2, <2>2 DEF ActiveAccounted
<1>7. OnePlaceEach'
  BY <1>1, <1>2, <1>3, <1>4 DEF OnePlaceEach
<1>8. HeldWhere'
  BY <1>1, <1>2, <1>3, <1>4 DEF HeldWhere, Threads
<1>9. NoLostWakeup'
  BY <1>2, <1>3, <1>4, DispatchAssumption DEF NoLostWakeup, Threads
<1>10. QED
  BY <1>2, <1>5, <1>6, <1>7, <1>8, <1>9

LEMMA FinishInv ==
  ASSUME DispatchInv, NEW s \in Slots, Finish(s)
  PROVE  DispatchInv'
<1> USE DEF DispatchInv
<1>1. PICK j \in Jobs : job[s] = {j}
  BY DEF Finish, HeldWhere
<1>2. /\ pc[s] = "run"
      /\ queue' = MarkFinished(queue, j)
      /\ job' = [job EXCEPT ![s] = {}]
      /\ pc' = [pc EXCEPT ![s] = "pop"]
      /\ UNCHANGED <<due, ready, leaked>>
  BY <1>1 DEF Finish
<1>3. j \in queue.activeIds
  BY <1>1, AccountedPointwise
<1>4. /\ queue' \in QueueType
      /\ QueueInv(queue')
      /\ queue'.activeIds = queue.activeIds \ {j}
  BY <1>2, <1>3, MarkFinishedInv DEF TypeOK
<1>5. /\ pc \in [Threads -> {"wait", "enqueue", "pop", "start", "ended", "idle", "run"}]
      /\ job \in [Slots -> SUBSET Jobs]
      /\ s \in Threads
  BY DEF TypeOK, Threads
<1>6. /\ \A u \in Slots : job'[u] = IF u = s THEN {} ELSE job[u]
      /\ \A u \in Threads : pc'[u] = IF u = s THEN "pop" ELSE pc[u]
  BY <1>2, <1>5
<1>7. TypeOK'
  BY <1>2, <1>4, <1>5 DEF TypeOK
<1>8. ActiveAccounted'
  <2>1. j \notin leaked /\ j \notin Popped
    BY <1>1 DEF OnePlaceEach, Popped
  <2>2. Popped' = Popped
    BY <1>2 DEF Popped
  <2>3. \A i : (\E u \in Slots : i \in job'[u]) <=>
               i # j /\ \E u \in Slots : i \in job[u]
    BY <1>1, <1>6 DEF OnePlaceEach
  <2>4. Held' = Held \ {j}
    BY <2>3 DEF Held
  <2>5. queue'.activeKeys = UNION {LockKeys[i] : i \in queue'.activeIds}
    BY <1>4 DEF QueueInv, LocksAgree
  <2>6. QED
    BY <1>2, <1>4, <2>1, <2>2, <2>4, <2>5 DEF ActiveAccounted
<1>9. OnePlaceEach'
  BY <1>2, <1>6 DEF OnePlaceEach
<1>10. HeldWhere'
  BY <1>2, <1>5, <1>6 DEF HeldWhere, Threads
<1>11. NoLostWakeup'
  BY <1>5, <1>6 DEF NoLostWakeup
<1>12. QED
  BY <1>4, <1>7, <1>8, <1>9, <1>10, <1>11

LEMMA DieInv ==
  ASSUME DispatchInv, NEW s \in Slots, Die(s)
  PROVE  DispatchInv'
<1> USE DEF DispatchInv
<1>1. /\ pc[s] = "run"
      /\ leaked' = leaked \cup job[s]
      /\ job' = [job EXCEPT ![s] = {}]
      /\ pc' = [pc EXCEPT ![s] = "idle"]
      /\ UNCHANGED <<queue, due, ready>>
  BY DEF Die
<1>2. /\ pc \in [Threads -> {"wait", "enqueue", "pop", "start", "ended", "idle", "run"}]
      /\ job \in [Slots -> SUBSET Jobs]
      /\ s \in Threads
      /\ s # Main
  BY DispatchAssumption DEF TypeOK, Threads
<1>3. /\ \A u \in Slots : job'[u] = IF u = s THEN {} ELSE job[u]
      /\ \A u \in Threads : pc'[u] = IF u = s THEN "idle" ELSE pc[u]
  BY <1>1, <1>2
<1>4. TypeOK'
  BY <1>1, <1>2 DEF TypeOK
<1>5. ActiveAccounted'
  <2>1. \A i : (\E u \in Slots : i \in job[u]) <=>
               (\E u \in Slots : i \in job'[u]) \/ i \in job[s]
    BY <1>3
  <2>2. Held = Held' \cup job[s]
    BY <2>1 DEF Held
  <2>3. Popped' = Popped
    BY <1>1 DEF Popped
  <2>4. leaked \cup Popped \cup Held = leaked' \cup Popped' \cup Held'
    BY <1>1, <2>2, <2>3
  <2>5. QED
    BY <1>1, <2>4 DEF ActiveAccounted
<1>6. OnePlaceEach'
  BY <1>1, <1>3 DEF OnePlaceEach
<1>7. HeldWhere'
  BY <1>1, <1>2, <1>3 DEF HeldWhere, Threads
<1>8. NoLostWakeup'
  BY <1>1, <1>2, <1>3, DispatchAssumption DEF NoLostWakeup, Threads
<1>9. QED
  BY <1>1, <1>4, <1>5, <1>6, <1>7, <1>8

(* Every step preserves the invariant.                                     *)
LEMMA StepInv == DispatchInv /\ [Next]_vars => DispatchInv'
<1> SUFFICES ASSUME DispatchInv, [Next]_vars PROVE DispatchInv'
  OBVIOUS
<1> USE DEF Threads
<1>1. CASE \E D \in SUBSET Jobs : Wake(D)
  BY <1>1, ControlStepInv
<1>2. CASE Return
  BY <1>2, ControlStepInv
<1>3. CASE MainStep
  BY <1>3, EnqueueDueInv, PopInv, ControlStepInv DEF MainStep
<1>4. CASE \E t \in Threads : StartOne(t)
  BY <1>4, StartInv DEF StartOne
<1>5. CASE \E s \in Slots : SlotStep(s) \/ Die(s)
  BY <1>5, PopInv, ControlStepInv, FinishInv, DieInv DEF SlotStep
<1>6. CASE UNCHANGED vars
  BY <1>6, ControlStepInv
<1>7. QED
  BY <1>1, <1>2, <1>3, <1>4, <1>5, <1>6 DEF Next

(* DispatchInv holds in every state of a scheduler thread and its jobs.    *)
THEOREM DispatchInvariant == Spec => []DispatchInv
<1>1. Init => DispatchInv
  BY InitInv
<1>2. DispatchInv /\ [Next]_vars => DispatchInv'
  BY StepInv
<1>3. QED
  BY <1>1, <1>2, PTL DEF Spec

-----------------------------------------------------------------------------
(* The variables keep their types.                                         *)
THEOREM TypeCorrect == Spec => []TypeOK
<1>1. DispatchInv => TypeOK
  BY DEF DispatchInv
<1>2. QED
  BY <1>1, DispatchInvariant, PTL

(* No two job threads ever run the same job, or jobs that share a key.     *)
THEOREM Exclusion == Spec => []RunsExclude
<1>1. DispatchInv => RunsExclude
  <2> SUFFICES ASSUME DispatchInv,
                      NEW s \in Slots, NEW u \in Slots, s # u,
                      NEW i \in job[s], NEW j \in job[u]
               PROVE  i # j /\ ~Conflict(i, j)
    BY DEF RunsExclude
  <2>1. i # j
    BY DEF DispatchInv, OnePlaceEach
  <2>2. i \in queue.activeIds /\ j \in queue.activeIds
    BY AccountedPointwise DEF DispatchInv
  <2>3. QED
    BY <2>1, <2>2 DEF DispatchInv, QueueInv, ActiveExclude
<1>2. QED
  BY <1>1, DispatchInvariant, PTL

(* A job that is left in the deque is blocked by a running job, or a       *)
(* dispatch is on its way.                                                 *)
THEOREM WakeupKept == Spec => []NoLostWakeup
<1>1. DispatchInv => NoLostWakeup
  BY DEF DispatchInv
<1>2. QED
  BY <1>1, DispatchInvariant, PTL

(* Ids and keys are held only for jobs that are being started, run, or     *)
(* were lost with their thread.                                            *)
THEOREM Accounting == Spec => []ActiveAccounted
<1>1. DispatchInv => ActiveAccounted
  BY DEF DispatchInv
<1>2. QED
  BY <1>1, DispatchInvariant, PTL

-----------------------------------------------------------------------------
(* The four ways in which a step can treat the queue.                      *)
LEMMA QueueSteps ==
  ASSUME DispatchInv, [Next]_vars
  PROVE  \/ UNCHANGED queue
         \/ \E j \in Jobs : queue' = Enqueue(queue, j)
         \/ \E P \in Takes(queue) :
              \E f \in Enumerations(DOMAIN queue.pending \ P) :
                 queue' = PopReady(queue, P, f)
         \/ \E j \in queue.activeIds : queue' = MarkFinished(queue, j)
<1>1. ASSUME NEW t \in Threads, Pop(t)
      PROVE  \E P \in Takes(queue) :
               \E f \in Enumerations(DOMAIN queue.pending \ P) :
                  queue' = PopReady(queue, P, f)
  BY <1>1 DEF Pop
<1>2. ASSUME NEW s \in Slots, Finish(s)
      PROVE  \E j \in queue.activeIds : queue' = MarkFinished(queue, j)
  BY <1>2, AccountedPointwise DEF Finish, DispatchInv
<1>3. CASE Return \/ (\E D \in SUBSET Jobs : Wake(D)) \/ UNCHANGED vars
  BY <1>3 DEF Return, Wake, vars
<1>4. CASE MainStep
  BY <1>1, <1>4 DEF MainStep, EnqueueDue, Dispatched, Threads
<1>5. CASE \E t \in Threads : StartOne(t)
  BY <1>5 DEF StartOne, Start
<1>6. CASE \E s \in Slots : SlotStep(s) \/ Die(s)
  BY <1>1, <1>2, <1>6 DEF SlotStep, Dispatched, Die, Threads
<1>7. QED
  BY <1>3, <1>4, <1>5, <1>6 DEF Next

(* A job is not taken past one that stands ahead and whose keys it needs.  *)
LEMMA TakesInOrder ==
  ASSUME DispatchInv, NEW P \in Takes(queue),
         NEW a \in DOMAIN queue.pending, NEW b \in DOMAIN queue.pending, a < b,
         LockKeys[queue.pending[a]] \subseteq LockKeys[queue.pending[b]]
  PROVE  b \notin P
<1> SUFFICES ASSUME b \in P PROVE FALSE
  OBVIOUS
<1> DEFINE i == queue.pending[a]
           j == queue.pending[b]
<1>1. P \subseteq DOMAIN queue.pending /\ TakesExactly(queue, P)
  BY DEF Takes
<1>2. DOMAIN queue.pending = 1..Len(queue.pending) /\ i \in Jobs
  BY DEF DispatchInv, TypeOK, QueueType
<1>3. LockKeys[j] \cap (queue.activeKeys \cup KeysAt(queue, {k \in P : k < b})) = {}
  BY <1>1 DEF TakesExactly
<1>4. CASE a \in P
  <2>1. LockKeys[i] \subseteq KeysAt(queue, {k \in P : k < b})
    BY <1>4 DEF KeysAt
  <2>2. LockKeys[i] # {}
    BY <1>2, LockKeysAssumption
  <2>3. QED
    BY <1>3, <2>1, <2>2
<1>5. CASE a \notin P
  <2>1. LockKeys[i] \cap (queue.activeKeys \cup KeysAt(queue, {k \in P : k < a})) # {}
    BY <1>1, <1>5 DEF TakesExactly
  <2>2. KeysAt(queue, {k \in P : k < a}) \subseteq KeysAt(queue, {k \in P : k < b})
    BY <1>1, <1>2 DEF KeysAt
  <2>3. QED
    BY <1>3, <2>1, <2>2
<1>6. QED
  BY <1>4, <1>5

(* Jobs that need the same keys start in the order in which they were      *)
(* queued.                                                                 *)
THEOREM FifoOrder == Spec => FifoPerKeys
<1> DEFINE Ordered ==
      \A i, j \in queue.pendingIds :
         Ahead(i, j) /\ LockKeys[i] \subseteq LockKeys[j]
         => j \notin queue'.activeIds
<1>1. DispatchInv /\ [Next]_vars => [Ordered]_vars
  <2> SUFFICES ASSUME DispatchInv, [Next]_vars,
                      NEW i \in queue.pendingIds, NEW j \in queue.pendingIds,
                      Ahead(i, j), LockKeys[i] \subseteq LockKeys[j]
               PROVE  j \notin queue'.activeIds
    OBVIOUS
  <2>1. /\ queue \in QueueType
        /\ QueueInv(queue)
        /\ DequeAgrees(queue)
    BY DEF DispatchInv, TypeOK, QueueInv
  <2>2. j \notin queue.activeIds
    BY <2>1 DEF DequeAgrees
  <2>3. CASE UNCHANGED queue
    BY <2>2, <2>3
  <2>4. CASE \E k \in Jobs : queue' = Enqueue(queue, k)
    BY <2>1, <2>2, <2>4, EnqueueInv
  <2>5. CASE \E P \in Takes(queue) :
               \E f \in Enumerations(DOMAIN queue.pending \ P) :
                  queue' = PopReady(queue, P, f)
    <3>1. PICK P \in Takes(queue) :
            \E f \in Enumerations(DOMAIN queue.pending \ P) :
               queue' = PopReady(queue, P, f)
      BY <2>5
    <3>2. queue'.activeIds = queue.activeIds \cup JobsAt(queue, P)
      BY <3>1 DEF PopReady
    <3>3. PICK a \in DOMAIN queue.pending, b \in DOMAIN queue.pending :
            a < b /\ queue.pending[a] = i /\ queue.pending[b] = j
      BY DEF Ahead
    <3>4. b \notin P
      BY <3>3, TakesInOrder
    <3>5. j \notin JobsAt(queue, P)
      BY <2>1, <3>3, <3>4 DEF JobsAt, DequeAgrees, Takes
    <3>6. QED
      BY <2>2, <3>2, <3>5
  <2>6. CASE \E k \in queue.activeIds : queue' = MarkFinished(queue, k)
    BY <2>1, <2>2, <2>6, MarkFinishedInv
  <2>7. QED
    BY <2>3, <2>4, <2>5, <2>6, QueueSteps
<1>2. QED
  BY <1>1, DispatchInvariant, PTL DEF Spec, FifoPerKeys

-----------------------------------------------------------------------------
(* The scheduler thread keeps the documented promise: what it does to the  *)
(* queue is a behaviour of JobAdmission.                                   *)
THEOREM Refinement == Spec => ImplementsAdmission
<1>1. Init => Admission!AdmissionInit
  BY DEF Init, EmptyQueue, Admission!AdmissionInit
<1>2. DispatchInv /\ [Next]_vars
        => [Admission!AdmissionNext]_(Admission!admissionVars)
  <2> SUFFICES ASSUME DispatchInv, [Next]_vars
               PROVE  [Admission!AdmissionNext]_(Admission!admissionVars)
    OBVIOUS
  <2> USE DEF Admission!AdmissionNext, Admission!admissionVars
  <2>1. /\ queue \in QueueType
        /\ QueueInv(queue)
        /\ queue.activeIds \subseteq Jobs
    BY DEF DispatchInv, TypeOK, QueueType
  <2>2. CASE UNCHANGED queue
    BY <2>2
  <2>3. ASSUME NEW j \in Jobs, queue' = Enqueue(queue, j)
        PROVE  [Admission!AdmissionNext]_(Admission!admissionVars)
    BY <2>1, <2>3, EnqueueInv DEF Admission!Request, IsKnown
  <2>4. ASSUME NEW P \in Takes(queue),
               NEW f \in Enumerations(DOMAIN queue.pending \ P),
               queue' = PopReady(queue, P, f)
        PROVE  [Admission!AdmissionNext]_(Admission!admissionVars)
    <3> DEFINE G == JobsAt(queue, P)
    <3>1. /\ queue'.pendingIds = queue.pendingIds \ G
          /\ queue'.activeIds = queue.activeIds \cup G
      BY <2>4 DEF PopReady
    <3>2. /\ QueueInv(queue')
          /\ G \subseteq queue.pendingIds
          /\ \A j \in queue.pendingIds \ G :
                \E i \in queue.activeIds \cup G : Conflict(i, j)
      BY <2>1, <2>4, PopReadyInv
    <3> HIDE DEF G
    <3>3. CASE G = {}
      BY <3>1, <3>3
    <3>4. CASE G # {}
      <4>1. \A g \in G, h \in queue.activeIds \cup G :
               g # h => ~Admission!Clash(g, h)
        BY <3>1, <3>2 DEF QueueInv, ActiveExclude, Conflict, Admission!Clash
      <4>2. \A w \in queue.pendingIds \ G :
               \E h \in queue.activeIds \cup G : Admission!Clash(w, h)
        BY <3>2 DEF Conflict, Admission!Clash
      <4>3. Admission!Grant(G)
        BY <3>1, <3>4, <4>1, <4>2 DEF Admission!Grant
      <4>4. QED
        BY <3>2, <4>3
    <3>5. QED
      BY <3>3, <3>4
  <2>5. ASSUME NEW j \in queue.activeIds, queue' = MarkFinished(queue, j)
        PROVE  [Admission!AdmissionNext]_(Admission!admissionVars)
    BY <2>1, <2>5, MarkFinishedInv DEF Admission!Release
  <2>6. QED
    BY <2>2, <2>3, <2>4, <2>5, QueueSteps
<1>3. QED
  BY <1>1, <1>2, DispatchInvariant, PTL
  DEF Spec, ImplementsAdmission, Admission!AdmissionSpec

-----------------------------------------------------------------------------
(* SchedulerReload works on the same queues.                               *)
LEMMA SameQueue ==
  /\ Reload!EmptyQueue = EmptyQueue /\ Reload!QueueType = QueueType
  /\ \A q, j : /\ Reload!Enqueue(q, j) = Enqueue(q, j)
               /\ Reload!MarkFinished(q, j) = MarkFinished(q, j)
  /\ \A q, P : Reload!JobsAt(q, P) = JobsAt(q, P)
  /\ \A q, P, f : Reload!PopReady(q, P, f) = PopReady(q, P, f)
  /\ \A q : Reload!Takes(q) = Takes(q)
  /\ \A P : Reload!Enumerations(P) = Enumerations(P)
<1>1. Reload!EmptyQueue = EmptyQueue /\ Reload!QueueType = QueueType
  BY DEF Reload!EmptyQueue, EmptyQueue, Reload!QueueType, QueueType
<1>2. \A q, j : /\ Reload!Enqueue(q, j) = Enqueue(q, j)
               /\ Reload!MarkFinished(q, j) = MarkFinished(q, j)
  BY DEF Reload!Enqueue, Enqueue, Reload!IsKnown, IsKnown, Reload!MarkFinished, MarkFinished
<1>3. \A q, P : Reload!JobsAt(q, P) = JobsAt(q, P) /\ Reload!KeysAt(q, P) = KeysAt(q, P)
  BY DEF Reload!JobsAt, JobsAt, Reload!KeysAt, KeysAt
<1>4. \A q, P, f : Reload!PopReady(q, P, f) = PopReady(q, P, f)
  BY <1>3 DEF Reload!PopReady, PopReady
<1>5. \A q : Reload!Takes(q) = Takes(q)
  BY <1>3 DEF Reload!Takes, Takes, Reload!TakesExactly, TakesExactly
<1>6. \A P : Reload!Enumerations(P) = Enumerations(P)
  <2>1. \A P : Reload!Cardinality(P) = Cardinality(P)
    BY Zenon DEF Reload!Cardinality, Cardinality
  <2> QED BY <2>1 DEF Reload!Enumerations, Enumerations
<1> QED BY <1>1, <1>2, <1>3, <1>4, <1>5, <1>6

USE ReloadConstants DEF Reload!ReloadAssumption

(* A thread that is alive is the main loop's current one.                  *)
OneSchedulerThread ==
  \A g \in Gens : thread[g] # "ended" => main \in {"watch", "exiting"} /\ g = current

(* Every queue is well formed, and what it takes for running are the jobs  *)
(* that its generation runs and those whose thread died.                   *)
QueuesAgree ==
  \A g \in Gens : /\ QueueInv(queueOf[g])
                  /\ running[g] \subseteq queueOf[g].activeIds
                  /\ Reload!Lost(g) \subseteq Fragile

(* Unless it is being filled, what waits in a queue waits for a job that   *)
(* this queue has started: its end, if it comes, will dispatch again.      *)
QueueDriven ==
  \A g \in Gens :
     thread[g] # "enqueue" =>
       \A j \in queueOf[g].pendingIds : \E i \in queueOf[g].activeIds : Conflict(i, j)

(* Jobs of one generation never overlap on their tables.                   *)
ExclusionInGeneration ==
  \A g \in Gens : \A i, j \in running[g] : i # j => ~Conflict(i, j)

(* Where the main loop is tells which generation there is.                 *)
MainAgrees ==
  /\ main \in {"build", "watch"} => current \in Gens
  /\ main = "build" => loaded[current] \in Versions
  /\ main = "exited" => \A g \in Gens : Reload!IsFree(g)

(* What is loaded is in the file, or news of the file is on its way.  The  *)
(* flag is cleared before the file is read.                                *)
EditNoticed ==
  main \in {"build", "watch"} => loaded[current] = file \/ notice \/ changed

ReloadInv ==
  /\ Reload!TypeOK /\ OneSchedulerThread /\ QueuesAgree /\ QueueDriven /\ MainAgrees /\ EditNoticed

-----------------------------------------------------------------------------
LEMMA InitReload == Reload!Init => ReloadInv
<1> SUFFICES ASSUME Reload!Init PROVE ReloadInv
  OBVIOUS
<1> USE SameQueue
<1>1. EmptyQueue \in QueueType /\ QueueInv(EmptyQueue)
  BY EmptyQueueInv
<1>2. EmptyQueue.activeIds = {} /\ EmptyQueue.pendingIds = {}
  BY DEF EmptyQueue
<1>3. Reload!TypeOK
  BY <1>1 DEF Reload!Init, Reload!TypeOK
<1> QED BY <1>1, <1>2, <1>3 DEF Reload!Init, ReloadInv, OneSchedulerThread, QueuesAgree, QueueDriven,
                                MainAgrees, EditNoticed, Reload!Lost

(* A dispatch of a well-formed queue leaves a well-formed one, in which    *)
(* every job waits for one that has been started.                          *)
LEMMA DispatchReadyInv ==
  ASSUME Reload!TypeOK, NEW g \in Gens, NEW q \in QueueType, QueueInv(q),
         NEW R, R \subseteq q.activeIds, q.activeIds \ R \subseteq Fragile,
         Reload!DispatchReady(g, q, R)
  PROVE  /\ queueOf' \in [Gens -> QueueType] /\ running' \in [Gens -> SUBSET Jobs]
         /\ QueueInv(queueOf'[g]) /\ running'[g] \subseteq queueOf'[g].activeIds
         /\ queueOf'[g].activeIds \ running'[g] \subseteq Fragile
         /\ \A j \in queueOf'[g].pendingIds : \E i \in queueOf'[g].activeIds : Conflict(i, j)
         /\ \A h \in Gens \ {g} : queueOf'[h] = queueOf[h] /\ running'[h] = running[h]
<1> USE SameQueue
<1>1. PICK P \in Takes(q) : \E f \in Enumerations(DOMAIN q.pending \ P) :
        /\ queueOf'   = [queueOf EXCEPT ![g] = PopReady(q, P, f)]
        /\ running' = [running EXCEPT ![g] = R \cup JobsAt(q, P)]
  BY DEF Reload!DispatchReady
<1>2. PICK f \in Enumerations(DOMAIN q.pending \ P) :
        /\ queueOf'   = [queueOf EXCEPT ![g] = PopReady(q, P, f)]
        /\ running' = [running EXCEPT ![g] = R \cup JobsAt(q, P)]
  BY <1>1
<1> DEFINE r == PopReady(q, P, f)
<1>3. /\ r \in QueueType /\ QueueInv(r)
      /\ \A j \in q.pendingIds \ JobsAt(q, P) :
            \E i \in q.activeIds \cup JobsAt(q, P) : Conflict(i, j)
  BY PopReadyInv
<1>4. r.activeIds = q.activeIds \cup JobsAt(q, P) /\ r.pendingIds = q.pendingIds \ JobsAt(q, P)
  BY DEF PopReady
<1> DEFINE A == R \cup JobsAt(q, P)
<1>5. A \subseteq r.activeIds /\ r.activeIds \subseteq Jobs /\ r.activeIds \ A \subseteq Fragile
  BY <1>3, <1>4 DEF QueueType
<1>6. /\ queueOf' = [queueOf EXCEPT ![g] = r]
      /\ running' = [running EXCEPT ![g] = A]
  BY <1>2
<1>7. \A j \in r.pendingIds : \E i \in r.activeIds : Conflict(i, j)
  BY <1>3, <1>4
<1> HIDE DEF r, A
<1> QED BY <1>3, <1>5, <1>6, <1>7 DEF Reload!TypeOK

LEMMA StepReload == ReloadInv /\ [Reload!Next]_(Reload!vars) => ReloadInv'
<1> SUFFICES ASSUME ReloadInv, [Reload!Next]_(Reload!vars) PROVE ReloadInv'
  OBVIOUS
<1> USE SameQueue DEF Reload!fileVars, Reload!genVars, Reload!Lost
<1>0. /\ EmptyQueue \in QueueType /\ QueueInv(EmptyQueue)
      /\ EmptyQueue.activeIds = {} /\ EmptyQueue.pendingIds = {}
  BY EmptyQueueInv DEF EmptyQueue
<1>1. CASE Reload!Edit
  BY <1>1 DEF Reload!Edit, Reload!SaveWrite, Reload!SaveReplace, Reload!SaveTruncate, ReloadInv, Reload!TypeOK, OneSchedulerThread,
              QueuesAgree, QueueDriven, MainAgrees, Reload!IsFree, EditNoticed
<1>2. CASE Reload!OnAnyEvent
  BY <1>2 DEF Reload!OnAnyEvent, ReloadInv, Reload!TypeOK, OneSchedulerThread, QueuesAgree, QueueDriven,
              MainAgrees, Reload!IsFree, EditNoticed
<1>3. ASSUME NEW g \in Gens, Reload!Load(g) PROVE ReloadInv'
  <2>1. /\ loaded' = [loaded EXCEPT ![g] = file] /\ queueOf' = [queueOf EXCEPT ![g] = EmptyQueue]
        /\ running[g] = {} /\ file \in Versions /\ current' = g /\ main' = "build"
    BY <1>3 DEF Reload!Load, Reload!IsFree, ReloadInv, Reload!TypeOK
  <2>2. \A h \in Gens : thread[h] = "ended"
    BY <1>3 DEF Reload!Load, ReloadInv, OneSchedulerThread
  <2>3. Reload!TypeOK'
    BY <1>0, <1>3, <2>1, <2>2 DEF Reload!Load, ReloadInv, Reload!TypeOK
  <2>4. QueuesAgree' /\ QueueDriven'
    BY <1>0, <1>3, <2>1, <2>2 DEF Reload!Load, ReloadInv, Reload!TypeOK, QueuesAgree, QueueDriven
  <2> QED BY <1>3, <2>1, <2>2, <2>3, <2>4
          DEF Reload!Load, ReloadInv, Reload!TypeOK, OneSchedulerThread, MainAgrees, EditNoticed
<1>4. CASE Reload!LoadFails \/ Reload!Signal
  BY <1>4 DEF Reload!LoadFails, Reload!Signal, ReloadInv, Reload!TypeOK, OneSchedulerThread, QueuesAgree, QueueDriven,
              MainAgrees, EditNoticed
<1>5. CASE Reload!StartThread
  <2>1. /\ current \in Gens /\ loaded[current] \in Versions /\ main' = "watch"
        /\ thread' = [thread EXCEPT ![current] = "wait"]
        /\ UNCHANGED <<Reload!fileVars, notice, changed, current, loaded, dueOf, queueOf, running>>
    BY <1>5 DEF Reload!StartThread, ReloadInv, MainAgrees
  <2>2. \A g \in Gens : thread[g] = "ended"
    BY <1>5 DEF Reload!StartThread, ReloadInv, OneSchedulerThread
  <2>3. Reload!TypeOK'
    BY <2>1, <2>2 DEF ReloadInv, Reload!TypeOK
  <2>4. OneSchedulerThread' /\ QueuesAgree' /\ QueueDriven'
    BY <2>1, <2>2 DEF ReloadInv, Reload!TypeOK, OneSchedulerThread, QueuesAgree, QueueDriven
  <2> QED BY <1>5, <2>1, <2>3, <2>4 DEF Reload!StartThread, ReloadInv, MainAgrees, EditNoticed
<1>6. CASE Reload!Reset
  BY <1>6 DEF Reload!Reset, ReloadInv, Reload!TypeOK, OneSchedulerThread, QueuesAgree, QueueDriven,
              MainAgrees, EditNoticed
<1>7. CASE Reload!Exit
  BY <1>7 DEF Reload!Exit, Reload!IsFree, ReloadInv, Reload!TypeOK, OneSchedulerThread, QueuesAgree, QueueDriven,
              MainAgrees, EditNoticed
<1>8. CASE Reload!Kill
  BY <1>0, <1>8 DEF Reload!Kill, Reload!IsFree, ReloadInv, Reload!TypeOK, OneSchedulerThread, QueuesAgree, QueueDriven,
                    MainAgrees, EditNoticed
<1>9. CASE Reload!Restart
  BY <1>0, <1>9 DEF Reload!Restart, Reload!IsFree, ReloadInv, Reload!TypeOK, OneSchedulerThread, QueuesAgree, QueueDriven,
                    MainAgrees, EditNoticed
<1>10. ASSUME NEW g \in Gens, NEW j \in Jobs, Reload!FallDue(g, j) PROVE ReloadInv'
  BY <1>10 DEF Reload!FallDue, Reload!IsFree, ReloadInv, Reload!TypeOK, OneSchedulerThread, QueuesAgree, QueueDriven,
               MainAgrees, EditNoticed
<1>11. ASSUME NEW g \in Gens, Reload!Return(g) PROVE ReloadInv'
  BY <1>11 DEF Reload!Return, Reload!IsFree, ReloadInv, Reload!TypeOK, OneSchedulerThread, QueuesAgree, QueueDriven,
               MainAgrees, EditNoticed
<1>12. ASSUME NEW g \in Gens, Reload!Wake(g) PROVE ReloadInv'
  BY <1>12 DEF Reload!Wake, Reload!IsFree, ReloadInv, Reload!TypeOK, OneSchedulerThread, QueuesAgree, QueueDriven,
               MainAgrees, EditNoticed
<1>13. ASSUME NEW g \in Gens, NEW j \in Jobs, Reload!EnqueueDue(g, j) PROVE ReloadInv'
  <2>1. /\ Enqueue(queueOf[g], j) \in QueueType /\ QueueInv(Enqueue(queueOf[g], j))
        /\ Enqueue(queueOf[g], j).activeIds = queueOf[g].activeIds
    BY EnqueueInv DEF ReloadInv, Reload!TypeOK, QueuesAgree
  <2>2. /\ queueOf' = [queueOf EXCEPT ![g] = Enqueue(queueOf[g], j)] /\ dueOf' = [dueOf EXCEPT ![g] = dueOf[g] \ {j}]
        /\ thread[g] = "enqueue"
    BY <1>13 DEF Reload!EnqueueDue
  <2>3. Reload!TypeOK'
    BY <1>13, <2>1, <2>2 DEF Reload!EnqueueDue, ReloadInv, Reload!TypeOK
  <2>4. QueuesAgree' /\ QueueDriven'
    BY <1>13, <2>1, <2>2 DEF Reload!EnqueueDue, ReloadInv, Reload!TypeOK, QueuesAgree, QueueDriven
  <2> QED BY <1>13, <2>3, <2>4 DEF Reload!EnqueueDue, Reload!IsFree, ReloadInv, OneSchedulerThread, MainAgrees, EditNoticed
<1>14. ASSUME NEW g \in Gens, Reload!Dispatch(g) PROVE ReloadInv'
  <2>1. /\ queueOf[g] \in QueueType /\ QueueInv(queueOf[g])
        /\ running[g] \subseteq queueOf[g].activeIds /\ queueOf[g].activeIds \ running[g] \subseteq Fragile
    BY DEF ReloadInv, Reload!TypeOK, QueuesAgree
  <2>2. /\ queueOf' \in [Gens -> QueueType] /\ running' \in [Gens -> SUBSET Jobs]
        /\ QueueInv(queueOf'[g]) /\ running'[g] \subseteq queueOf'[g].activeIds
        /\ queueOf'[g].activeIds \ running'[g] \subseteq Fragile
        /\ \A j \in queueOf'[g].pendingIds : \E i \in queueOf'[g].activeIds : Conflict(i, j)
        /\ \A h \in Gens \ {g} : queueOf'[h] = queueOf[h] /\ running'[h] = running[h]
    BY <1>14, <2>1, DispatchReadyInv DEF Reload!Dispatch, ReloadInv
  <2>3. /\ thread' = [thread EXCEPT ![g] = "wait"] /\ thread[g] = "enqueue"
        /\ UNCHANGED <<Reload!fileVars, notice, changed, main, current, loaded, dueOf>>
    BY <1>14 DEF Reload!Dispatch
  <2>4. Reload!TypeOK'
    BY <2>2, <2>3 DEF ReloadInv, Reload!TypeOK
  <2>5. QueuesAgree' /\ QueueDriven'
    BY <2>2, <2>3 DEF ReloadInv, Reload!TypeOK, QueuesAgree, QueueDriven
  <2>6. main # "exited"
    BY <2>3 DEF ReloadInv, MainAgrees, Reload!IsFree
  <2> QED BY <2>3, <2>4, <2>5, <2>6 DEF ReloadInv, Reload!TypeOK, OneSchedulerThread, MainAgrees, EditNoticed
<1>15. ASSUME NEW g \in Gens, NEW j \in Jobs, Reload!Finish(g, j) PROVE ReloadInv'
  <2>1. /\ queueOf[g] \in QueueType /\ QueueInv(queueOf[g])
        /\ running[g] \subseteq queueOf[g].activeIds /\ queueOf[g].activeIds \ running[g] \subseteq Fragile
        /\ j \in running[g]
    BY <1>15 DEF ReloadInv, Reload!TypeOK, QueuesAgree, Reload!Finish
  <2>2. /\ MarkFinished(queueOf[g], j) \in QueueType /\ QueueInv(MarkFinished(queueOf[g], j))
        /\ MarkFinished(queueOf[g], j).activeIds = queueOf[g].activeIds \ {j}
    BY <2>1, MarkFinishedInv
  <2>3. /\ queueOf' \in [Gens -> QueueType] /\ running' \in [Gens -> SUBSET Jobs]
        /\ QueueInv(queueOf'[g]) /\ running'[g] \subseteq queueOf'[g].activeIds
        /\ queueOf'[g].activeIds \ running'[g] \subseteq Fragile
        /\ \A i \in queueOf'[g].pendingIds : \E k \in queueOf'[g].activeIds : Conflict(k, i)
        /\ \A h \in Gens \ {g} : queueOf'[h] = queueOf[h] /\ running'[h] = running[h]
    <3> DEFINE q == MarkFinished(queueOf[g], j)
               R == running[g] \ {j}
    <3>1. q \in QueueType /\ QueueInv(q) /\ R \subseteq q.activeIds /\ q.activeIds \ R \subseteq Fragile
      BY <2>1, <2>2
    <3>2. Reload!DispatchReady(g, q, R)
      BY <1>15 DEF Reload!Finish
    <3> HIDE DEF q, R
    <3> QED BY <3>1, <3>2, DispatchReadyInv DEF ReloadInv
  <2>4. UNCHANGED <<Reload!fileVars, notice, changed, main, current, loaded, thread, dueOf>>
    BY <1>15 DEF Reload!Finish
  <2>5. Reload!TypeOK'
    BY <2>3, <2>4 DEF ReloadInv, Reload!TypeOK
  <2>6. QueuesAgree' /\ QueueDriven'
    BY <2>3, <2>4 DEF ReloadInv, Reload!TypeOK, QueuesAgree, QueueDriven
  <2>7. main # "exited"
    BY <2>1 DEF ReloadInv, MainAgrees, Reload!IsFree
  <2> QED BY <2>4, <2>5, <2>6, <2>7 DEF ReloadInv, OneSchedulerThread, MainAgrees, EditNoticed
<1>16. ASSUME NEW g \in Gens, NEW j \in Jobs, Reload!Die(g, j) PROVE ReloadInv'
  <2>1. /\ running' = [running EXCEPT ![g] = running[g] \ {j}] /\ j \in running[g] /\ j \in Fragile
        /\ UNCHANGED <<Reload!fileVars, notice, changed, main, current, loaded, thread, dueOf, queueOf>>
    BY <1>16 DEF Reload!Die
  <2>2. Reload!TypeOK'
    BY <2>1 DEF ReloadInv, Reload!TypeOK
  <2>3. QueuesAgree' /\ QueueDriven'
    BY <2>1 DEF ReloadInv, Reload!TypeOK, QueuesAgree, QueueDriven
  <2>4. main # "exited"
    BY <2>1 DEF ReloadInv, MainAgrees, Reload!IsFree
  <2> QED BY <2>1, <2>2, <2>3, <2>4 DEF ReloadInv, OneSchedulerThread, MainAgrees, EditNoticed
<1>17. CASE UNCHANGED Reload!vars
  BY <1>17 DEF Reload!vars, Reload!IsFree, ReloadInv, Reload!TypeOK, OneSchedulerThread, QueuesAgree, QueueDriven,
               MainAgrees, EditNoticed
<1> QED BY <1>1, <1>2, <1>3, <1>4, <1>5, <1>6, <1>7, <1>8, <1>9, <1>10, <1>11, <1>12, <1>13, <1>14,
           <1>15, <1>16, <1>17 DEF Reload!Next, Reload!MainStep, Reload!ThreadStep

(* The invariant in every reachable state.                                 *)
THEOREM ReloadInvariant == Reload!Spec => []ReloadInv
  BY InitReload, StepReload, PTL DEF Reload!Spec

-----------------------------------------------------------------------------
(* The variables of the process keep their types.                          *)
THEOREM ReloadTypes == Reload!Spec => []Reload!TypeOK
<1>1. ReloadInv => Reload!TypeOK
  BY DEF ReloadInv
<1> QED BY <1>1, ReloadInvariant, PTL

(* While a thread works with a configuration that is not the one in the    *)
(* file, an event of the observer is on its way or configChanged is set.   *)
THEOREM EditsKept == Reload!Spec => []NoLostEdit
<1>1. ReloadInv => NoLostEdit
  BY DEF ReloadInv, EditNoticed, NoLostEdit, Reload!NoLostEdit
<1> QED BY <1>1, ReloadInvariant, PTL

(* However many generations are alive, one SchedulerThread enqueues jobs.  *)
THEOREM OneThread == Reload!Spec => []OneSchedulerThread
<1>1. ReloadInv => OneSchedulerThread
  BY DEF ReloadInv
<1> QED BY <1>1, ReloadInvariant, PTL

(* Within a generation jobs on the same tables never overlap; across       *)
(* generations they do (DocumentedExclusion).                              *)
THEOREM GenerationExcludes == Reload!Spec => []ExclusionInGeneration
<1>1. ReloadInv => ExclusionInGeneration
  BY DEF ReloadInv, QueuesAgree, ExclusionInGeneration, QueueInv, ActiveExclude
<1> QED BY <1>1, ReloadInvariant, PTL

(* What waits in a queue that a reload left behind waits for a job that    *)
(* runs, whose end works it off, or for one whose thread died.             *)
THEOREM OldQueueDriven ==
  Reload!Spec =>
    [](\A g \in Gens : thread[g] = "ended" =>
         \A j \in queueOf[g].pendingIds :
            \/ \E i \in running[g] : Conflict(i, j)
            \/ \E i \in Reload!Lost(g) \cap Fragile : Conflict(i, j))
<1>1. ReloadInv
        => \A g \in Gens : thread[g] = "ended" =>
             \A j \in queueOf[g].pendingIds :
                \/ \E i \in running[g] : Conflict(i, j)
                \/ \E i \in Reload!Lost(g) \cap Fragile : Conflict(i, j)
  BY DEF ReloadInv, QueueDriven, QueuesAgree, Reload!Lost
<1> QED BY <1>1, ReloadInvariant, PTL

=============================================================================
