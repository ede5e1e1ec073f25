---------------------------- MODULE MCScheduler ----------------------------
(* Small instances of the scheduler, for two kinds of runs.  In the first, *)
(* a behaviour is one SchedulerThread and its job threads, JobDispatch,    *)
(* while the process around them is not looked at; in the second, it is    *)
(* the life of the process, SchedulerReload.                               *)
EXTENDS JobDispatch, TLC

CONSTANTS Gens, Versions, Enabled, None,   \* of SchedulerReload
          j1, j2, j3, k1, k2, v1, v2

VARIABLES file, writing, notice, changed, main, current,
          loaded, thread, dueOf, queueOf, running

process == <<file, writing, notice, changed, main, current,
             loaded, thread, dueOf, queueOf, running>>

Reload == INSTANCE SchedulerReload WITH due <- dueOf, queue <- queueOf

ASSUME ReloadConstants == Reload!ReloadAssumption

-----------------------------------------------------------------------------
(* The first run: FairSpec of JobDispatch.  j3 overlaps both others, which *)
(* do not overlap each other: the shape of three entsoe_fms jobs with      *)
(* different target_data_items.                                            *)
ThreeJobs == {j1, j2, j3}
TwoKeys   == {k1, k2}
OverlappingKeys == j1 :> {k1} @@ j2 :> {k2} @@ j3 :> {k1, k2}
OneConfig == v1 :> ThreeJobs

SchedulerInit == Init /\ Reload!Init

DispatchSpec ==
  /\ SchedulerInit
  /\ [][Next /\ UNCHANGED process]_<<vars, process>>
  /\ Fairness

-----------------------------------------------------------------------------
(* The other runs: FairSpec and Spec of SchedulerReload, for two jobs of   *)
(* one crawler with the same target tables, of which an edit disables one. *)
TwoJobs    == {j1, j2}
OneKey     == {k1}
SameTables == [j \in TwoJobs |-> {k1}]
TwoConfigs == v1 :> {j1, j2} @@ v2 :> {j1}

GenSymmetry == Permutations(Gens)

ReloadSteps ==
  /\ SchedulerInit
  /\ [][Reload!Next /\ UNCHANGED vars]_<<vars, process>>

ReloadSpec == ReloadSteps /\ Reload!Fairness

(* No edit is lost: while a scheduler thread works with a configuration    *)
(* that is not the one in the file, an event is on its way or the flag is  *)
(* set.                                                                    *)
NoLostEdit == Reload!NoLostEdit

(* The configuration in the file is loaded in the end, unless it is edited *)
(* again or the process ends.                                              *)
EditTakesEffect == Reload!EditTakesEffect

(* A queue left behind by a reload is worked off, but for the jobs that    *)
(* share a table with one whose thread died.                               *)
OldQueueDrains == Reload!OldQueueDrains

(* A process that was told to stop ends once its jobs have.                *)
StopCompletes == Reload!StopCompletes

(* docs/source/crawler_config.md: jobs that touch the same tables wait for *)
(* each other.  This fails across a reload.                                *)
DocumentedExclusion == Reload!DocumentedExclusion

=============================================================================
