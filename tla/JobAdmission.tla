---------------------------- MODULE JobAdmission ----------------------------
(***************************************************************************)
(* What docs/source/crawler_config.md promises of the scheduler's queue:   *)
(* a job is not enqueued again while it is queued or running, jobs that    *)
(* touch the same tables wait for each other, and jobs that do not can run *)
(* in parallel.  Each grant is maximal: it leaves no job waiting that      *)
(* could have run beside the holders.                                      *)
(***************************************************************************)
CONSTANTS Jobs, Keys, LockKeys

VARIABLES waiting, holding

admissionVars == <<waiting, holding>>

Clash(i, j) == LockKeys[i] \cap LockKeys[j] # {}

AdmissionInit == waiting = {} /\ holding = {}

Request(j) ==
  /\ j \notin waiting \cup holding
  /\ waiting' = waiting \cup {j}
  /\ UNCHANGED holding

Grant(G) ==
  /\ G # {}
  /\ \A g \in G, h \in holding \cup G : g # h => ~Clash(g, h)
  /\ \A w \in waiting \ G : \E h \in holding \cup G : Clash(w, h)
  /\ waiting' = waiting \ G
  /\ holding' = holding \cup G

Release(j) ==
  /\ j \in holding
  /\ holding' = holding \ {j}
  /\ UNCHANGED waiting

AdmissionNext ==
  \/ \E j \in Jobs : Request(j) \/ Release(j)
  \/ \E G \in SUBSET waiting : Grant(G)

AdmissionSpec == AdmissionInit /\ [][AdmissionNext]_admissionVars

=============================================================================
