------------------------- MODULE MCGapfillTracking --------------------------
(* Small instances of GapfillTracking and of GapfillMethods, side by side: *)
(* a behaviour is runs over a table that is loaded meanwhile, where step   *)
(* stays "none", or one group of rows that is filled, while no row is      *)
(* published.                                                              *)
EXTENDS GapfillTracking

CONSTANTS LastRow, MinRows, MaxGap, Context, Period, Radius, HalfWindow

VARIABLES config, truth, held, rows, step, frequency, series, cells, filled, metric, verdict

group == <<config, truth, held, rows, step, frequency, series, cells, filled, metric, verdict>>

(* Synthetic data is longer than the gaps that are filled: 12 rows for the *)
(* gaps of up to 6, 72 and more for those of up to 24.                     *)
ASSUME MethodsAssumption ==
  /\ {LastRow, MinRows, MaxGap} \subseteq Nat
  /\ MaxGap + 3 <= LastRow /\ MinRows <= LastRow + 1 - MaxGap

(* Manual runs of the whole table, and of the end of it.                   *)
WholeAndEnd == {<<1, Last>>, <<2, Last>>}

Methods == INSTANCE GapfillMethods WITH Last <- LastRow, MinPoints <- MinRows, source <- rows

(* One package with the first and the last row, and one with the others.   *)
TwoPackages == {{1, Last}, 2 .. Last - 1}

MCInit ==
  /\ Init
  /\ \/ /\ step = "none" /\ config = 0 /\ truth = 0 /\ held = 0 /\ rows = 0 /\ frequency = 0
        /\ series = 0 /\ cells = 0 /\ filled = 0 /\ metric = 0 /\ verdict = 0
     \/ Methods!Init

Tracks(A) == step = "none" /\ A

MCNext ==
  \/ Tracks(Next) /\ UNCHANGED group
  \/ step # "none" /\ Methods!Next /\ UNCHANGED vars

(* FairSpec of GapfillTracking.                                            *)
MCSpec ==
  /\ MCInit /\ [][MCNext]_<<vars, group>>
  /\ \A p \in Scheduled : SF_vars(Tracks(ReadTracking(p)))
  /\ \A p \in Procs : WF_vars(Tracks(pc[p] # "idle" /\ Step(p)))
  /\ <>[][\A p \in Procs : Kill(p) => Step(p)]_vars

(* The invariants of GapfillMethods, where a group is filled.  What is not *)
(* listed as filled is as in the source.                                   *)
UnlistedIsUntouched == step # "none" => Methods!UnlistedIsUntouched

(* What is filled in comes from values that were observed.                 *)
FillsFromObservations == step # "none" => Methods!FillsFromObservations

(* A test that has passed has compared what it removed.                    *)
HoldoutHonest == step # "none" => Methods!HoldoutHonest

=============================================================================
