--------------------------- MODULE CrawlerJobQueue ---------------------------
(***************************************************************************)
(* The class CrawlerJobQueue of crawler_scheduler.py as a record and the   *)
(* three operations on it.  Each operation runs under the queue's _lock,   *)
(* so each one is a single step of whoever calls it.                       *)
(*                                                                         *)
(*   pending      the deque _pending, front first                          *)
(*   pendingIds   _pending_job_ids                                         *)
(*   activeIds    _active_job_ids                                          *)
(*   activeLocks  _active_job_locks; a job without an entry has {}, which  *)
(*                is the default that mark_finished pops                   *)
(*   activeKeys   _active_lock_keys                                        *)
(*                                                                         *)
(* A job stands for its job_id (crawler_name:job_name).                    *)
(***************************************************************************)
EXTENDS Naturals, Sequences, FiniteSets

CONSTANTS Jobs,      \* the job ids of the enabled crawler jobs
          Keys,      \* lock keys: "crawler:<name>" or "entsoe_fms:<table>"
          LockKeys   \* get_job_lock_keys of each job

(* get_job_lock_keys never returns the empty set: it falls back to the     *)
(* crawler's own key.                                                      *)
ASSUME LockKeysAssumption == LockKeys \in [Jobs -> (SUBSET Keys) \ {{}}]

Conflict(i, j) == LockKeys[i] \cap LockKeys[j] # {}

EmptyQueue ==
  [pending     |-> <<>>,
   pendingIds  |-> {},
   activeIds   |-> {},
   activeLocks |-> [j \in Jobs |-> {}],
   activeKeys  |-> {}]

QueueType ==
  [pending     : Seq(Jobs),
   pendingIds  : SUBSET Jobs,
   activeIds   : SUBSET Jobs,
   activeLocks : [Jobs -> SUBSET Keys],
   activeKeys  : SUBSET Keys]

-----------------------------------------------------------------------------
(* enqueue: a job that is queued or running is skipped.                    *)

IsKnown(q, j) == j \in q.pendingIds \/ j \in q.activeIds

(* Mutant: a running job is not recognised.                                *)
EnqueueWhileRunning(q, j) ==
  IF j \in q.pendingIds
  THEN q
  ELSE [q EXCEPT !.pending    = Append(q.pending, j),
                 !.pendingIds = q.pendingIds \cup {j}]

Enqueue(q, j) ==
  IF IsKnown(q, j)
  THEN q
  ELSE [q EXCEPT !.pending    = Append(q.pending, j),
                 !.pendingIds = q.pendingIds \cup {j}]

-----------------------------------------------------------------------------
(* pop_ready_jobs scans the deque from the front; a job is taken when its  *)
(* keys meet neither the active keys nor those of the jobs taken earlier   *)
(* in the same scan, and is kept, in order, otherwise.  The positions that *)
(* the scan takes are the only set of positions with this property.        *)

KeysAt(q, P) == UNION {LockKeys[q.pending[i]] : i \in P}

(* Mutant: the keys of the jobs taken in this scan are forgotten.          *)
TakesAgainstOldKeys(q, P) ==
  \A i \in DOMAIN q.pending :
     i \in P <=> LockKeys[q.pending[i]] \cap q.activeKeys = {}

(* Mutant: the deque is scanned from its back.                             *)
TakesFromBack(q, P) ==
  \A i \in DOMAIN q.pending :
     i \in P <=> LockKeys[q.pending[i]]
                   \cap (q.activeKeys \cup KeysAt(q, {k \in P : k > i})) = {}

TakesExactly(q, P) ==
  \A i \in DOMAIN q.pending :
     i \in P <=> LockKeys[q.pending[i]]
                   \cap (q.activeKeys \cup KeysAt(q, {k \in P : k < i})) = {}

Takes(q) == {P \in SUBSET DOMAIN q.pending : TakesExactly(q, P)}

(* The increasing enumeration of a finite set of positions.                *)
Enumerations(P) ==
  {f \in [1..Cardinality(P) -> P] :
     /\ \A a, b \in 1..Cardinality(P) : a < b => f[a] < f[b]
     /\ \A p \in P : \E a \in 1..Cardinality(P) : f[a] = p}

JobsAt(q, P) == {q.pending[i] : i \in P}

(* The queue after a scan that took the positions P and kept those that f  *)
(* enumerates.                                                             *)
PopReady(q, P, f) ==
  [pending     |-> [i \in DOMAIN f |-> q.pending[f[i]]],
   pendingIds  |-> q.pendingIds \ JobsAt(q, P),
   activeIds   |-> q.activeIds \cup JobsAt(q, P),
   activeLocks |-> [j \in Jobs |-> IF j \in JobsAt(q, P)
                                   THEN LockKeys[j] ELSE q.activeLocks[j]],
   activeKeys  |-> q.activeKeys \cup KeysAt(q, P)]

-----------------------------------------------------------------------------
(* mark_finished: gives back the keys recorded for the job, if any.        *)

MarkFinished(q, j) ==
  [q EXCEPT !.activeIds   = q.activeIds \ {j},
            !.activeLocks = [q.activeLocks EXCEPT ![j] = {}],
            !.activeKeys  = q.activeKeys \ q.activeLocks[j]]

-----------------------------------------------------------------------------
(* What the three operations keep true of the queue.                       *)

(* The deque holds every pending id once, and no running job.              *)
DequeAgrees(q) ==
  /\ q.pendingIds = {q.pending[i] : i \in DOMAIN q.pending}
  /\ \A i, k \in DOMAIN q.pending : i # k => q.pending[i] # q.pending[k]
  /\ q.pendingIds \cap q.activeIds = {}

LocksAgree(q) ==
  /\ \A j \in Jobs :
        q.activeLocks[j] = IF j \in q.activeIds THEN LockKeys[j] ELSE {}
  /\ q.activeKeys = UNION {LockKeys[j] : j \in q.activeIds}

ActiveExclude(q) == \A i, j \in q.activeIds : i # j => ~Conflict(i, j)

QueueInv(q) == DequeAgrees(q) /\ LocksAgree(q) /\ ActiveExclude(q)

=============================================================================
