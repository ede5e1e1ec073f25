----------------------- MODULE GapfillTrackingProofs -----------------------
(***************************************************************************)
(* Proofs about GapfillTracking, for any number of times, revisions,       *)
(* packages and processes, that overlap as they like.  Below, about        *)
(* GapfillMethods, as its run checks it.                                   *)
(***************************************************************************)
EXTENDS MCGapfillTracking, FiniteSetTheorems, WellFoundedInduction, TLAPS

USE GapfillAssumption

(* A nonempty set of times or of stamps has a least and a greatest member. *)
LEMMA LeastNat ==
  ASSUME NEW S \in SUBSET Nat, S # {}
  PROVE  \E x \in S : \A y \in S : x <= y
<1>1. PICK x \in S : \A y \in S : ~(<<y, x>> \in OpToRel(<, Nat))
  BY NatLessThanWellFounded, WFMin
<1>2. \A y \in S : ~(y < x)
  BY <1>1 DEF OpToRel
<1> QED
  BY <1>2

LEMMA GreatestNat ==
  ASSUME NEW N \in Nat, NEW S \in SUBSET (0 .. N), S # {}
  PROVE  \E x \in S : \A y \in S : y <= x
<1> DEFINE T == {N - y : y \in S}
<1>1. T \in SUBSET Nat /\ T # {}
  <2>1. \A y \in S : y \in 0 .. N
    OBVIOUS
  <2>2. \A y \in S : N - y \in Nat
    BY <2>1
  <2> QED
    BY <2>2
<1>2. PICK x \in T : \A y \in T : x <= y
  BY <1>1, LeastNat
<1>3. PICK s \in S : x = N - s
  BY <1>2
<1>4. ASSUME NEW y \in S PROVE y <= s
  <2>1. x <= N - y
    BY <1>2
  <2> QED
    BY <2>1, <1>3
<1> QED
  BY <1>4

(* What get_processing_window returns encloses the rows it selected.       *)
LEMMA WindowEncloses ==
  ASSUME TypeOK, NEW C \in SUBSET Times, C # {}, NEW back \in Nat
  PROVE  /\ Window(C, back) \in [start : Int, end : Int, max : Stamps]
         /\ \A t \in C : /\ Window(C, back).start <= t /\ t <= Window(C, back).end
                         /\ source[t] <= Window(C, back).max
         /\ \E t \in C : Window(C, back).max = source[t]
<1>1. Least(C) \in C /\ \A t \in C : Least(C) <= t
  <2>1. \E t \in C : \A u \in C : t <= u
    BY LeastNat DEF Times
  <2> QED
    BY <2>1 DEF Least
<1>2. Greatest(C) \in C /\ \A t \in C : t <= Greatest(C)
  <2>1. C \in SUBSET (0 .. Last)
    BY DEF Times
  <2>2. \E t \in C : \A u \in C : u <= t
    BY <2>1, GreatestNat
  <2> QED
    BY <2>2 DEF Greatest
<1>3. /\ Greatest({source[t] : t \in C}) \in {source[t] : t \in C}
      /\ \A t \in C : source[t] <= Greatest({source[u] : u \in C})
  <2> DEFINE S == {source[t] : t \in C}
  <2>1. S \in SUBSET (0 .. MaxClock) /\ S # {}
    BY DEF TypeOK, Stamps
  <2>2. \E x \in S : \A y \in S : y <= x
    BY <2>1, GreatestNat
  <2>3. Greatest(S) \in S /\ \A y \in S : y <= Greatest(S)
    BY <2>2 DEF Greatest
  <2> QED
    BY <2>3
<1>4. \A t \in C : t \in Int
  BY DEF Times
<1>5. Greatest({source[t] : t \in C}) \in Stamps
  BY <1>3 DEF TypeOK
<1>6. PICK l \in C : Least(C) = l
  BY <1>1
<1>7. PICK g \in C : Greatest(C) = g
  BY <1>2
<1>8. PICK m \in Stamps : Greatest({source[t] : t \in C}) = m
  BY <1>5
<1>9. Window(C, back) = [start |-> l - back, end |-> g, max |-> m]
  BY <1>6, <1>7, <1>8 DEF Window
<1>10. \A t \in C : l - back <= t /\ t <= g
  BY <1>1, <1>2, <1>4, <1>6, <1>7
<1>11. /\ \A t \in C : source[t] <= m
       /\ \E t \in C : m = source[t]
  BY <1>3, <1>8
<1> QED
  BY <1>4, <1>9, <1>10, <1>11

-----------------------------------------------------------------------------
LEMMA InitInv == Init => GapfillInv
<1> SUFFICES ASSUME Init PROVE GapfillInv
  OBVIOUS
<1>1. TypeOK
  BY DEF Init, TypeOK, Knowledge, Stamps, Nothing, NoWindow, NoRows, RowsByTime
<1>2. Present = {}
  BY DEF Init, Present
<1>3. \A t \in Times : target[t] = {}
  BY DEF Init, NoRows
<1>4. \A p \in Procs : pc[p] = "idle"
  BY DEF Init
<1> QED
  BY <1>1, <1>2, <1>3, <1>4
     DEF GapfillInv, SettledUpTo, RunInv, WindowCovers, RowsCurrent, VictimsCurrent, Reading

(* The steps that only touch the source.                                   *)
LEMMA PublishInv ==
  ASSUME GapfillInv, NEW S \in Revisions, Publish(S)
  PROVE  GapfillInv'
<1> USE DEF Publish, past
<1>1. TypeOK'
  <2>1. clock' \in Stamps
    BY DEF GapfillInv, TypeOK, Stamps
  <2>2. published' \in [Times -> Stamps]
    BY <2>1 DEF GapfillInv, TypeOK
  <2> QED
    BY <2>1, <2>2 DEF GapfillInv, TypeOK, RowsByTime
<1>2. \A t \in Times : Settled(t) => Settled(t)'
  BY DEF Settled, Reading, InWindow
<1>3. \A u : SettledUpTo(u) => SettledUpTo(u)'
  BY <1>2 DEF SettledUpTo, Present
<1>4. ASSUME NEW p \in Procs PROVE RunInv(p)'
  <2>1. WindowCovers(p)'
    BY <1>2 DEF GapfillInv, RunInv, WindowCovers, Present, InWindow
  <2>2. RowsCurrent(p)' /\ VictimsCurrent(p)'
    BY DEF GapfillInv, RunInv, RowsCurrent, VictimsCurrent, Reading, Present, InWindow
  <2> QED
    BY <1>3, <2>1, <2>2 DEF GapfillInv, RunInv
<1> QED
  BY <1>1, <1>3, <1>4 DEF GapfillInv

(* A load changes no row below what a run has passed, but for the late.    *)
LEMMA LoadInv ==
  ASSUME GapfillInv, NEW P \in Packages, Load(P)
  PROVE  GapfillInv'
<1> USE DEF Load
<1>1. TypeOK'
  BY DEF GapfillInv, TypeOK, RowsByTime
<1>2. \A t \in Times : source'[t] = source[t] => (Settled(t) => Settled(t)')
  BY DEF Settled, Reading, InWindow
<1>3. \A t \in (Present \ late)' : \/ t \in Present \ late /\ source'[t] = source[t]
                                 \/ ~Passed(source'[t])
  BY DEF Present
<1>4. /\ tracking \in Int /\ \A t \in Times : source'[t] \in Int
      /\ \A p \in Procs : local[p].seen \in Int /\ local[p].window.max \in Int
  BY <1>1 DEF TypeOK, Knowledge, Stamps, Load
<1>5. \A u : SettledUpTo(u) /\ (\A x \in Int : x <= u => Passed(x)) => SettledUpTo(u)'
  <2> SUFFICES ASSUME NEW u, SettledUpTo(u), \A x \in Int : x <= u => Passed(x),
                      NEW t \in (Present \ late)', source'[t] <= u
               PROVE  Settled(t)'
    BY DEF SettledUpTo
  <2>1. t \in Times
    BY DEF Present
  <2> QED
    BY <1>2, <1>3, <1>4, <2>1 DEF SettledUpTo
<1>6. ASSUME NEW p \in Procs PROVE RunInv(p)'
  <2>1. WindowCovers(p)'
    <3> SUFFICES ASSUME p \in Scheduled, pc[p] \in {"read", "delete", "insert"},
                        NEW t \in (Present \ late)', source'[t] <= local[p].window.max
                 PROVE  t \in InWindow(p) \/ Settled(t)'
      BY DEF WindowCovers, InWindow
    <3>1. t \in Times /\ t \in Present \ late /\ source'[t] = source[t]
      BY <1>3 DEF Passed, Present
    <3> QED
      BY <1>2, <3>1 DEF GapfillInv, RunInv, WindowCovers
  <2>2. RowsCurrent(p)'
    <3>1. ASSUME NEW t \in Times, p \in Scheduled, Reading(p), t \in InWindow(p),
                 t \in (Present \ late)', t \notin local[p].met,
                 source'[t] <= local[p].window.max
          PROVE  Stamped(local[p].rows[t]) = {source'[t]}
      <4>1. t \in Present \ late /\ source'[t] = source[t]
        BY <1>3, <3>1 DEF Passed
      <4> QED
        BY <3>1, <4>1 DEF GapfillInv, RunInv, RowsCurrent
    <3> QED
      BY <3>1 DEF GapfillInv, RunInv, RowsCurrent, Reading, InWindow
  <2>3. VictimsCurrent(p)'
    BY DEF GapfillInv, RunInv, VictimsCurrent, InWindow
  <2>4. p \in Scheduled /\ pc[p] = "window" => SettledUpTo(local[p].seen)'
    BY <1>5 DEF GapfillInv, RunInv, Passed
  <2>5. pc[p] = "track" => p \in Scheduled /\ SettledUpTo(local[p].window.max)'
    BY <1>5 DEF GapfillInv, RunInv, Passed
  <2> QED
    BY <2>1, <2>2, <2>3, <2>4, <2>5 DEF GapfillInv, RunInv, SettledUpTo
<1>7. SettledUpTo(tracking)'
  BY <1>5 DEF GapfillInv, Passed, SettledUpTo
<1> QED
  BY <1>1, <1>6, <1>7 DEF GapfillInv

(* A step of p that leaves the source and the target alone keeps the       *)
(* invariant when it keeps the types and what it owes of p, and when what  *)
(* p has read is as before or as in the source.                            *)
LEMMA RunStep ==
  ASSUME GapfillInv, NEW p \in Procs,
         \A q \in Procs \ {p} : pc'[q] = pc[q] /\ local'[q] = local[q],
         UNCHANGED <<sourceVars, target, past>>, TypeOK',
         \/ tracking' = tracking
         \/ pc[p] = "track" /\ tracking' = local[p].window.max,
         \/ ~Reading(p)'
         \/ /\ Reading(p) /\ local'[p].window = local[p].window
            /\ local'[p].rows = local[p].rows /\ local'[p].met = local[p].met
         \/ \A t \in Present \cap InWindow(p)' : Stamped(local'[p].rows[t]) = {source[t]},
         (\A t \in Present : Settled(t) => Settled(t)') => RunInv(p)'
  PROVE  GapfillInv'
<1> USE DEF sourceVars, past
<1>1. ASSUME NEW t \in Present, Settled(t) PROVE Settled(t)'
  <2>1. t \in Times
    BY DEF Present
  <2>2. ASSUME NEW q \in Procs, Reading(q)', t \in (InWindow(q) \ local[q].met)'
        PROVE  Stamped(local'[q].rows[t]) = {source[t]}
    <3>1. CASE q = p
      BY <1>1, <2>1, <2>2, <3>1 DEF Settled, InWindow
    <3>2. CASE q # p
      <4>1. pc'[q] = pc[q] /\ local'[q] = local[q]
        BY <3>2
      <4> QED
        BY <1>1, <2>1, <2>2, <4>1 DEF Settled, InWindow, Reading
    <3> QED
      BY <3>1, <3>2
  <2> QED
    BY <1>1, <2>2 DEF Settled
<1>2. \A u : SettledUpTo(u) => SettledUpTo(u)'
  BY <1>1 DEF SettledUpTo, Present
<1>3. ASSUME NEW q \in Procs, q # p PROVE RunInv(q)'
  <2>1. pc'[q] = pc[q] /\ local'[q] = local[q]
    BY <1>3
  <2>2. WindowCovers(q)'
    BY <1>1, <2>1 DEF GapfillInv, RunInv, WindowCovers, Present, InWindow
  <2>3. RowsCurrent(q)' /\ VictimsCurrent(q)'
    BY <2>1 DEF GapfillInv, RunInv, RowsCurrent, VictimsCurrent, Reading, Present, InWindow
  <2> QED
    BY <1>2, <2>1, <2>2, <2>3 DEF GapfillInv, RunInv
<1>4. SettledUpTo(tracking)'
  <2>1. CASE tracking' = tracking
    BY <1>2, <2>1 DEF GapfillInv, SettledUpTo
  <2>2. CASE pc[p] = "track" /\ tracking' = local[p].window.max
    <3>1. SettledUpTo(local[p].window.max)
      BY <2>2 DEF GapfillInv, RunInv
    <3>2. \A t \in (Present \ late)' : source'[t] <= local[p].window.max => Settled(t)'
      BY <1>1, <3>1 DEF SettledUpTo, Present
    <3> QED
      BY <2>2, <3>2 DEF SettledUpTo
  <2> QED
    BY <2>1, <2>2
<1> QED
  BY <1>1, <1>3, <1>4 DEF GapfillInv

(* The end of a run, with or without the watermark.                        *)
LEMMA EndInv ==
  ASSUME GapfillInv, NEW p \in Procs, End(p), UNCHANGED <<sourceVars, target, past>>,
         \/ tracking' = tracking
         \/ pc[p] = "track" /\ tracking' = local[p].window.max
  PROVE  GapfillInv'
<1> USE DEF End, sourceVars, past
<1>1. TypeOK'
  <2>1. Nothing \in Knowledge
    BY DEF Knowledge, Nothing, NoWindow, NoRows, RowsByTime, Stamps
  <2> QED
    BY <2>1 DEF GapfillInv, TypeOK, Knowledge
<1>2. \A q \in Procs \ {p} : pc'[q] = pc[q] /\ local'[q] = local[q]
  BY DEF GapfillInv, TypeOK
<1>3. pc'[p] = "idle"
  BY DEF GapfillInv, TypeOK
<1>4. RunInv(p)' /\ ~Reading(p)'
  BY <1>3 DEF RunInv, WindowCovers, RowsCurrent, VictimsCurrent, Reading
<1> QED
  BY <1>1, <1>2, <1>4, RunStep

LEMMA ReadTrackingInv ==
  ASSUME GapfillInv, NEW p \in Procs, ReadTracking(p)
  PROVE  GapfillInv'
<1> USE DEF ReadTracking, sourceVars, past
<1>1. TypeOK'
  <2>1. [local[p] EXCEPT !.seen = tracking] \in Knowledge
    BY DEF GapfillInv, TypeOK, Knowledge
  <2>2. local' = [local EXCEPT ![p] = [local[p] EXCEPT !.seen = tracking]]
    BY DEF GapfillInv, TypeOK
  <2> QED
    BY <2>1, <2>2 DEF GapfillInv, TypeOK, sourceVars, past
<1>2. \A q \in Procs \ {p} : pc'[q] = pc[q] /\ local'[q] = local[q]
  BY DEF GapfillInv, TypeOK
<1>3. pc'[p] = "window" /\ local'[p].seen = tracking
  BY DEF GapfillInv, TypeOK
<1>4. ~Reading(p)'
  BY <1>3 DEF Reading
<1>5. ASSUME \A t \in Present : Settled(t) => Settled(t)' PROVE RunInv(p)'
  <2>1. SettledUpTo(local[p].seen)'
    BY <1>3, <1>5 DEF GapfillInv, SettledUpTo, Present
  <2> QED
    BY <1>3, <1>4, <2>1 DEF RunInv, WindowCovers, RowsCurrent, VictimsCurrent
<1> QED
  BY <1>1, <1>2, <1>4, <1>5, RunStep

(* get_processing_window: what is not settled is newer than the watermark, *)
(* so it is in the window, up to the watermark that will be written.       *)
LEMMA GetWindowInv ==
  ASSUME GapfillInv, NEW p \in Procs, GetWindow(p)
  PROVE  GapfillInv'
<1>1. PICK C \in SUBSET Times, back \in Nat :
        Found(p, C, back) /\ (p \in Scheduled => C = Changed(p))
  <2>1. CASE p \in Scheduled
    <3>1. Changed(p) \in SUBSET Times
      BY DEF Changed, Present
    <3> QED
      BY <2>1, <3>1 DEF GetWindow
  <2>2. CASE p \notin Scheduled
    <3>1. PICK r \in Ranges : Found(p, Present \cap (r[1] .. r[2]), 0)
      BY <2>2 DEF GetWindow
    <3>2. Present \cap (r[1] .. r[2]) \in SUBSET Times
      BY DEF Present
    <3> QED
      BY <2>2, <3>1, <3>2
  <2> QED
    BY <2>1, <2>2
<1>2. CASE C = {}
  BY <1>1, <1>2, EndInv DEF Found
<1>3. CASE C # {}
  <2> DEFINE W == Window(C, back)
  <2>1. /\ pc[p] = "window"
        /\ pc' = [pc EXCEPT ![p] = "read"]
        /\ local' = [local EXCEPT ![p].window = W]
        /\ UNCHANGED <<sourceVars, target, tracking, past>>
    BY <1>1, <1>3 DEF Found
  <2>2. /\ W \in [start : Int, end : Int, max : Stamps]
        /\ \A t \in C : W.start <= t /\ t <= W.end /\ source[t] <= W.max
        /\ \E t \in C : W.max = source[t]
    BY <1>1, <1>3, WindowEncloses DEF GapfillInv
  <2> HIDE DEF W
  <2>3. TypeOK'
    <3>1. [local[p] EXCEPT !.window = W] \in Knowledge
      <4>1. local[p] \in Knowledge
        BY DEF GapfillInv, TypeOK
      <4> QED
        BY <2>2, <4>1 DEF Knowledge
    <3>2. local' = [local EXCEPT ![p] = [local[p] EXCEPT !.window = W]]
      BY <2>1, <2>2 DEF GapfillInv, TypeOK
    <3> QED
      BY <2>1, <2>2, <3>1, <3>2 DEF GapfillInv, TypeOK, sourceVars, past
  <2>4. \A q \in Procs \ {p} : pc'[q] = pc[q] /\ local'[q] = local[q]
    BY <2>1 DEF GapfillInv, TypeOK
  <2>5. pc'[p] = "read" /\ local'[p].window = W /\ local'[p].seen = local[p].seen
    BY <2>1 DEF GapfillInv, TypeOK
  <2>6. local[p].seen \in Int /\ \A t \in Times : source[t] \in Int
    BY DEF GapfillInv, TypeOK, Knowledge, Stamps
  <2>7. ASSUME p \in Scheduled, \A t \in Present : Settled(t) => Settled(t)'
        PROVE  WindowCovers(p)' /\ local[p].seen < W.max
    <3>1. SettledUpTo(local[p].seen)
      BY <2>1, <2>7 DEF GapfillInv, RunInv
    <3>2. \A t \in Present : t \in C <=> source[t] > local[p].seen
      BY <1>1, <2>7 DEF Changed
    <3>3. C \subseteq Present
      BY <1>1, <2>7 DEF Changed
    <3>4. ASSUME NEW t \in Present \ late
          PROVE  (W.start <= t /\ t <= W.end) \/ Settled(t)'
      <4>1. CASE t \in C
        BY <2>2, <4>1
      <4>2. CASE t \notin C
        <5>1. t \in Times /\ source[t] <= local[p].seen
          BY <2>6, <3>2, <4>2 DEF Present
        <5> QED
          BY <2>7, <3>1, <5>1 DEF SettledUpTo
      <4> QED
        BY <4>1, <4>2
    <3>5. WindowCovers(p)'
      BY <2>1, <2>5, <3>4 DEF WindowCovers, InWindow, Present, sourceVars, past
    <3> QED
      BY <2>2, <2>6, <3>2, <3>3, <3>5
  <2>8. ASSUME \A t \in Present : Settled(t) => Settled(t)' PROVE RunInv(p)'
    <3>1. WindowCovers(p)'
      BY <2>7, <2>8 DEF WindowCovers
    <3> QED
      BY <2>5, <2>7, <2>8, <3>1 DEF RunInv, RowsCurrent, VictimsCurrent, Reading
  <2>9. ~Reading(p)'
    BY <2>5 DEF Reading
  <2> QED
    BY <2>1, <2>3, <2>4, <2>8, <2>9, RunStep
<1> QED
  BY <1>2, <1>3

(* read_source_window and fill_table: what was read is what the source has.*)
LEMMA CreatedBetween ==
  ASSUME NEW p \in Procs, NEW t \in Created(p), GapfillInv
  PROVE  t \in InWindow(p) /\ t \notin Present
<1>1. PICK a, b \in Points(p) : a < t /\ t < b
  BY DEF Created
<1>2. t \in Times /\ t \notin Points(p)
  BY DEF Created
<1>3. /\ local[p].window.start <= a /\ b <= local[p].window.end
      /\ local[p].window.start \in Int /\ local[p].window.end \in Int
      /\ a \in Int /\ b \in Int /\ t \in Int
  BY <1>1, <1>2 DEF Points, InWindow, Times, GapfillInv, TypeOK, Knowledge
<1>4. t \in InWindow(p)
  BY <1>1, <1>2, <1>3 DEF InWindow
<1> QED
  BY <1>2, <1>4 DEF Points

LEMMA ReadAndFillInv ==
  ASSUME GapfillInv, NEW p \in Procs, ReadAndFill(p)
  PROVE  GapfillInv'
<1> DEFINE R == [t \in Times |->
                  IF t \in Points(p) THEN {[by |-> p, stamp |-> source[t]]}
                  ELSE IF t \in Created(p) THEN {[by |-> p, stamp |-> 0]}
                  ELSE {}]
<1>1. /\ pc[p] = "read"
      /\ pc' = [pc EXCEPT ![p] = "delete"]
      /\ local' = [local EXCEPT ![p].rows = R]
      /\ UNCHANGED <<sourceVars, target, tracking, past>>
  BY DEF ReadAndFill
<1>2. ASSUME NEW t \in Times
      PROVE  /\ R[t] = {} \/ \E r \in Row : R[t] = {r}
             /\ R[t] # {} => t \in InWindow(p)
             /\ t \in Present \cap InWindow(p) => Stamped(R[t]) = {source[t]}
  <2>1. [by |-> p, stamp |-> source[t]] \in Row /\ [by |-> p, stamp |-> 0] \in Row
    BY DEF Row, GapfillInv, TypeOK, Stamps
  <2>2. CASE t \in Points(p)
    <3>1. R[t] = {[by |-> p, stamp |-> source[t]]}
      BY <2>2
    <3> QED
      BY <2>1, <2>2, <3>1 DEF Points, Stamped
  <2>3. CASE t \notin Points(p)
    <3>1. t \notin Present \cap InWindow(p)
      BY <2>3 DEF Points
    <3>2. R[t] = {} \/ (R[t] = {[by |-> p, stamp |-> 0]} /\ t \in Created(p))
      BY <2>3
    <3> QED
      BY <2>1, <3>1, <3>2, CreatedBetween
  <2> QED
    BY <2>2, <2>3
<1>3. R \in RowsByTime
  BY <1>2 DEF RowsByTime
<1> HIDE DEF R
<1>4. TypeOK'
  <2>1. [local[p] EXCEPT !.rows = R] \in Knowledge
    BY <1>1, <1>3 DEF GapfillInv, TypeOK, Knowledge
  <2>2. local' = [local EXCEPT ![p] = [local[p] EXCEPT !.rows = R]]
    BY <1>1, <1>3 DEF GapfillInv, TypeOK
  <2> QED
    BY <1>1, <1>3, <2>1, <2>2 DEF GapfillInv, TypeOK, sourceVars, past
<1>5. \A q \in Procs \ {p} : pc'[q] = pc[q] /\ local'[q] = local[q]
  BY <1>1 DEF GapfillInv, TypeOK
<1>6. /\ pc'[p] = "delete" /\ local'[p].rows = R
      /\ local'[p].window = local[p].window /\ local'[p].seen = local[p].seen
  BY <1>1 DEF GapfillInv, TypeOK
<1>7. \A t \in Present \cap InWindow(p)' : Stamped(local'[p].rows[t]) = {source[t]}
  BY <1>2, <1>6 DEF InWindow, Present
<1>8. ASSUME \A t \in Present : Settled(t) => Settled(t)' PROVE RunInv(p)'
  <2>1. WindowCovers(p)'
    BY <1>1, <1>6, <1>8 DEF GapfillInv, RunInv, WindowCovers, Present, InWindow, sourceVars, past
  <2>2. RowsCurrent(p)'
    BY <1>1, <1>2, <1>6 DEF RowsCurrent, Present, InWindow, sourceVars, past
  <2> QED
    BY <1>1, <1>6, <2>1, <2>2 DEF GapfillInv, RunInv, VictimsCurrent
<1> QED
  BY <1>1, <1>4, <1>5, <1>7, <1>8, RunStep

(* replace_target_window, up to its INSERT.                                *)
LEMMA DeleteInv ==
  ASSUME GapfillInv, NEW p \in Procs, Delete(p)
  PROVE  GapfillInv'
<1> DEFINE V == [t \in Times |-> IF t \in InWindow(p) THEN target[t] ELSE {}]
<1>1. /\ pc[p] = "delete"
      /\ pc' = [pc EXCEPT ![p] = "insert"]
      /\ local' = [local EXCEPT ![p].victims = V]
      /\ UNCHANGED <<sourceVars, target, tracking, past>>
  BY DEF Delete
<1>2. V \in RowsByTime
  BY DEF RowsByTime, GapfillInv, TypeOK
<1>3. \A t \in Times : V[t] = IF t \in InWindow(p) THEN target[t] ELSE {}
  OBVIOUS
<1> HIDE DEF V
<1>4. TypeOK'
  <2>1. [local[p] EXCEPT !.victims = V] \in Knowledge
    BY <1>1, <1>2 DEF GapfillInv, TypeOK, Knowledge
  <2>2. local' = [local EXCEPT ![p] = [local[p] EXCEPT !.victims = V]]
    BY <1>1, <1>2 DEF GapfillInv, TypeOK
  <2> QED
    BY <1>1, <1>2, <2>1, <2>2 DEF GapfillInv, TypeOK, sourceVars, past
<1>5. \A q \in Procs \ {p} : pc'[q] = pc[q] /\ local'[q] = local[q]
  BY <1>1 DEF GapfillInv, TypeOK
<1>6. /\ pc'[p] = "insert" /\ local'[p].victims = V /\ local'[p].seen = local[p].seen
      /\ local'[p].window = local[p].window /\ local'[p].rows = local[p].rows
      /\ local'[p].met = local[p].met
  BY <1>1 DEF GapfillInv, TypeOK
<1>7. Reading(p)
  BY <1>1 DEF Reading
<1>8. ASSUME \A t \in Present : Settled(t) => Settled(t)' PROVE RunInv(p)'
  <2>1. WindowCovers(p)'
    BY <1>1, <1>6, <1>8 DEF GapfillInv, RunInv, WindowCovers, Present, InWindow, sourceVars, past
  <2>2. RowsCurrent(p)'
    BY <1>1, <1>6, <1>7 DEF GapfillInv, RunInv, RowsCurrent, Present, InWindow, sourceVars, past
  <2>3. VictimsCurrent(p)'
    BY <1>1, <1>3, <1>6 DEF VictimsCurrent, InWindow
  <2> QED
    BY <1>1, <1>6, <2>1, <2>2, <2>3 DEF GapfillInv, RunInv
<1> QED
  BY <1>1, <1>4, <1>5, <1>6, <1>7, <1>8, RunStep

(* The commit: where no other run has come between, the window of the      *)
(* target is what the run has read.                                        *)
LEMMA CommitTypes ==
  ASSUME GapfillInv, NEW p \in Procs, Commit(p)
  PROVE  TypeOK'
<1>1. target' \in RowsByTime
  BY DEF Commit, Replaced, RowsByTime, GapfillInv, TypeOK, Knowledge
<1>2. InWindow(p) \subseteq Times
  BY DEF InWindow
<1>3. late' \subseteq Times /\ mixed' \subseteq Times
  BY <1>2 DEF Commit, GapfillInv, TypeOK
<1>4. ASSUME NEW q \in Procs
      PROVE  Committed(p)[q] \in Knowledge
  <2>1. NoRows \in RowsByTime
    BY DEF NoRows, RowsByTime
  <2>2. Nothing \in Knowledge
    BY DEF Knowledge, Nothing, NoWindow, NoRows, RowsByTime, Stamps
  <2>3. local[q] \in Knowledge
    BY DEF GapfillInv, TypeOK
  <2> QED
    BY <1>2, <2>1, <2>2, <2>3 DEF Committed, Knowledge
<1>5. local' \in [Procs -> Knowledge]
  BY <1>4 DEF Commit, Committed
<1> QED
  BY <1>1, <1>3, <1>5 DEF Commit, GapfillInv, TypeOK, sourceVars

LEMMA CommitInv ==
  ASSUME GapfillInv, NEW p \in Procs, Commit(p)
  PROVE  GapfillInv'
<1>1. /\ pc[p] = "insert" /\ target' = Replaced(p) /\ local' = Committed(p)
      /\ late' = late \ {t \in InWindow(p) : Stamped(local[p].rows[t]) = {source[t]}}
      /\ mixed' = (mixed \ InWindow(p)) \cup (InWindow(p) \cap local[p].met)
      /\ UNCHANGED <<clock, published, source, tracking>>
  BY DEF Commit, sourceVars
<1>2. \A q \in Procs : pc'[q] = IF q = p THEN (IF p \in Scheduled THEN "track" ELSE "idle")
                               ELSE pc[q]
  BY DEF Commit, GapfillInv, TypeOK
<1>3. ASSUME NEW t \in Times
      PROVE  /\ t \notin InWindow(p) => target'[t] = target[t]
             /\ t \in InWindow(p) \ local[p].met => target'[t] = local[p].rows[t]
  <2>1. target'[t] = (target[t] \ local[p].victims[t]) \cup local[p].rows[t]
    BY <1>1 DEF Replaced
  <2>2. /\ t \in InWindow(p) \ local[p].met => local[p].victims[t] = target[t]
        /\ t \notin InWindow(p) => local[p].victims[t] = {} /\ local[p].rows[t] = {}
    BY <1>1 DEF GapfillInv, RunInv, VictimsCurrent, RowsCurrent, Reading
  <2> QED
    BY <2>1, <2>2
<1>4. ASSUME NEW q \in Procs, q # p
      PROVE  /\ Reading(q)' <=> Reading(q)
             /\ local'[q].seen = local[q].seen /\ local'[q].window = local[q].window
             /\ local'[q].rows = local[q].rows /\ local'[q].victims = local[q].victims
             /\ local[q].met \subseteq local'[q].met
             /\ Reading(q) => InWindow(p) \subseteq local'[q].met
  <2>1. local'[q] = IF Reading(q) THEN [local[q] EXCEPT !.met = @ \cup InWindow(p)] ELSE local[q]
    BY <1>1, <1>4 DEF Committed
  <2>2. Reading(q)' <=> Reading(q)
    BY <1>2, <1>4 DEF Reading
  <2> QED
    BY <2>1, <2>2 DEF GapfillInv, TypeOK
<1>5. ~Reading(p)'
  BY <1>2 DEF Reading
<1>6. ASSUME NEW t \in Times,
             \/ t \notin InWindow(p) /\ Settled(t)
             \/ /\ t \in InWindow(p)
                /\ t \in local[p].met \/ Stamped(local[p].rows[t]) = {source[t]}
      PROVE  Settled(t)'
  <2>1. t \in mixed' \/ Stamped(target'[t]) = {source[t]}
    BY <1>1, <1>3, <1>6 DEF Settled
  <2>2. ASSUME NEW q \in Procs, Reading(q)', t \in (InWindow(q) \ local[q].met)'
        PROVE  Stamped(local'[q].rows[t]) = {source[t]}
    <3>1. q # p
      BY <1>5, <2>2
    <3>2. t \notin InWindow(p) /\ t \in InWindow(q) \ local[q].met /\ Reading(q)
      BY <1>4, <2>2, <3>1 DEF InWindow
    <3> QED
      BY <1>4, <1>6, <3>1, <3>2 DEF Settled
  <2> QED
    BY <1>1, <2>1, <2>2 DEF Settled
<1>7. \A t \in Times : Settled(t) => Settled(t)'
  <2>1. Reading(p)
    BY <1>1 DEF Reading
  <2> QED
    BY <1>6, <2>1 DEF Settled
<1>8. \A t \in late \ late' : t \in InWindow(p) /\ Stamped(local[p].rows[t]) = {source[t]}
                              /\ t \in Times /\ Settled(t)'
  BY <1>1, <1>6 DEF InWindow
<1>9. Present' = Present
  BY <1>1 DEF Present
<1>10. \A u : SettledUpTo(u) => SettledUpTo(u)'
  <2> SUFFICES ASSUME NEW u, SettledUpTo(u), NEW t \in (Present \ late)', source'[t] <= u
               PROVE  Settled(t)'
    BY DEF SettledUpTo
  <2>1. t \in Times /\ source'[t] = source[t]
    BY <1>1 DEF Present
  <2> QED
    BY <1>7, <1>8, <1>9, <2>1 DEF SettledUpTo
<1>11. ASSUME NEW q \in Procs, q # p PROVE RunInv(q)'
  <2>1. WindowCovers(q)'
    BY <1>1, <1>2, <1>4, <1>7, <1>8, <1>9, <1>11
       DEF GapfillInv, RunInv, WindowCovers, InWindow, Present
  <2>2. RowsCurrent(q)'
    <3>1. ASSUME NEW t \in Times, q \in Scheduled, Reading(q), t \in InWindow(q),
                 t \in (Present \ late)', t \notin local'[q].met,
                 source[t] <= local[q].window.max
          PROVE  Stamped(local[q].rows[t]) = {source[t]}
      <4>1. t \notin InWindow(p)
        BY <1>4, <1>11, <3>1
      <4>2. t \in Present \ late /\ t \notin local[q].met
        BY <1>4, <1>8, <1>9, <1>11, <3>1, <4>1
      <4> QED
        BY <3>1, <4>2 DEF GapfillInv, RunInv, RowsCurrent
    <3>2. InWindow(q)' = InWindow(q)
      BY <1>4, <1>11 DEF InWindow
    <3> QED
      BY <1>1, <1>4, <1>11, <3>1, <3>2 DEF GapfillInv, RunInv, RowsCurrent
  <2>3. VictimsCurrent(q)'
    <3> SUFFICES ASSUME pc[q] = "insert", NEW t \in Times
                 PROVE  IF t \in InWindow(q)
                        THEN t \in local'[q].met \/ local[q].victims[t] = target'[t]
                        ELSE local[q].victims[t] = {}
      BY <1>2, <1>4, <1>11 DEF VictimsCurrent, InWindow
    <3>1. Reading(q)
      BY DEF Reading
    <3> QED
      BY <1>3, <1>4, <1>11, <3>1 DEF GapfillInv, RunInv, VictimsCurrent
  <2>4. /\ q \in Scheduled /\ pc'[q] = "window" => SettledUpTo(local[q].seen)'
        /\ pc'[q] = "track" => q \in Scheduled /\ SettledUpTo(local[q].window.max)'
        /\ q \in Scheduled /\ pc'[q] \notin {"idle", "window"}
             => local'[q].seen < local'[q].window.max
    <3>1. /\ q \in Scheduled /\ pc[q] = "window" => SettledUpTo(local[q].seen)
          /\ pc[q] = "track" => q \in Scheduled /\ SettledUpTo(local[q].window.max)
          /\ q \in Scheduled /\ pc[q] \notin {"idle", "window"}
               => local[q].seen < local[q].window.max
      BY DEF GapfillInv, RunInv
    <3>2. /\ SettledUpTo(local[q].seen) => \A t \in (Present \ late)' :
                source'[t] <= local[q].seen => Settled(t)'
          /\ SettledUpTo(local[q].window.max) => \A t \in (Present \ late)' :
                source'[t] <= local[q].window.max => Settled(t)'
      <4>1. \A u : SettledUpTo(u) => \A t \in (Present \ late)' : source'[t] <= u => Settled(t)'
        BY <1>1, <1>7, <1>8, <1>9 DEF SettledUpTo, Present
      <4> QED
        BY <4>1
    <3> QED
      BY <1>2, <1>4, <1>11, <3>1, <3>2 DEF SettledUpTo
  <2> QED
    BY <2>1, <2>2, <2>3, <2>4 DEF RunInv
<1>12. RunInv(p)'
  <2>1. CASE p \in Scheduled
    <3>1. /\ pc'[p] = "track" /\ local'[p].window = local[p].window
          /\ local'[p].seen = local[p].seen
      BY <1>1, <1>2, <2>1 DEF Committed, GapfillInv, TypeOK, Knowledge
    <3>2. ASSUME NEW t \in (Present \ late)', source[t] <= local[p].window.max
          PROVE  Settled(t)'
      <4>1. t \in Times /\ t \in Present
        BY <1>9 DEF Present
      <4>2. CASE t \in late
        BY <1>8, <4>2
      <4>3. CASE t \notin late
        <5>1. t \in InWindow(p) \/ Settled(t)
          BY <1>1, <2>1, <3>2, <4>1, <4>3 DEF GapfillInv, RunInv, WindowCovers
        <5>2. t \in InWindow(p) => t \in local[p].met \/ Stamped(local[p].rows[t]) = {source[t]}
          BY <1>1, <2>1, <3>2, <4>1, <4>3 DEF GapfillInv, RunInv, RowsCurrent, Reading
        <5> QED
          BY <1>6, <1>7, <4>1, <5>1, <5>2
      <4> QED
        BY <4>2, <4>3
    <3>3. local[p].seen < local[p].window.max
      BY <1>1, <2>1 DEF GapfillInv, RunInv
    <3> QED
      BY <1>1, <2>1, <3>1, <3>2, <3>3
         DEF RunInv, SettledUpTo, WindowCovers, RowsCurrent, VictimsCurrent, Reading
  <2>2. CASE p \notin Scheduled
    BY <1>2, <2>2 DEF RunInv, WindowCovers, RowsCurrent, VictimsCurrent, Reading
  <2> QED
    BY <2>1, <2>2
<1>13. ASSUME NEW t \in Times \ mixed' PROVE target'[t] = {} \/ \E r \in Row : target'[t] = {r}
  <2>1. local[p].rows[t] = {} \/ \E r \in Row : local[p].rows[t] = {r}
    BY <1>1 DEF GapfillInv, RunInv, RowsCurrent, Reading
  <2> QED
    BY <1>1, <1>3, <2>1 DEF GapfillInv
<1>14. SettledUpTo(tracking)'
  BY <1>1, <1>7, <1>8, <1>9 DEF GapfillInv, SettledUpTo, Present
<1> QED
  BY <1>11, <1>12, <1>13, <1>14, CommitTypes DEF GapfillInv, Row

(* update_tracking_state: the new watermark is past the one that was read. *)
LEMMA TrackInv ==
  ASSUME GapfillInv, NEW p \in Procs, Track(p)
  PROVE  /\ GapfillInv'
         /\ p \in Scheduled /\ pc[p] = "track" /\ local[p].seen < tracking'
<1>1. GapfillInv'
  BY EndInv DEF Track
<1> QED
  BY <1>1 DEF Track, GapfillInv, RunInv

-----------------------------------------------------------------------------
LEMMA StutterInv == GapfillInv /\ UNCHANGED vars => GapfillInv'
<1> SUFFICES ASSUME GapfillInv, UNCHANGED vars PROVE GapfillInv'
  OBVIOUS
<1> USE DEF vars, past
<1>1. TypeOK'
  BY DEF GapfillInv, TypeOK, RowsByTime
<1>2. \A t \in Times : Settled(t) => Settled(t)'
  BY DEF Settled, Reading, InWindow
<1>3. ASSUME NEW p \in Procs PROVE RunInv(p)'
  <2>1. WindowCovers(p)'
    BY <1>2 DEF GapfillInv, RunInv, WindowCovers, Present, InWindow
  <2>2. RowsCurrent(p)' /\ VictimsCurrent(p)'
    BY DEF GapfillInv, RunInv, RowsCurrent, VictimsCurrent, Reading, Present, InWindow
  <2> QED
    BY <1>2, <2>1, <2>2 DEF GapfillInv, RunInv, SettledUpTo, Present
<1>4. SettledUpTo(tracking)'
  BY <1>2 DEF GapfillInv, SettledUpTo, Present
<1> QED
  BY <1>1, <1>3, <1>4 DEF GapfillInv

(* How the watermark moves.                                                *)
Forward == tracking' < tracking =>
             \E p \in Scheduled : pc[p] = "track" /\ local[p].seen # tracking

LEMMA NextInv ==
  ASSUME GapfillInv, [Next]_vars
  PROVE  GapfillInv' /\ Forward
<1>1. tracking \in Int
  BY DEF GapfillInv, TypeOK, Stamps
<1>2. tracking' = tracking => Forward
  BY <1>1 DEF Forward
<1>3. CASE \E S \in Revisions : Publish(S)
  BY <1>2, <1>3, PublishInv DEF Publish
<1>4. CASE \E P \in Packages : Load(P)
  BY <1>2, <1>4, LoadInv DEF Load
<1>5. ASSUME NEW p \in Procs, Step(p)
      PROVE  GapfillInv' /\ Forward
  <2>1. CASE ReadTracking(p)
    BY <1>2, <2>1, ReadTrackingInv DEF ReadTracking
  <2>2. CASE GetWindow(p)
    BY <1>2, <2>2, GetWindowInv DEF GetWindow, Found
  <2>3. CASE ReadAndFill(p)
    BY <1>2, <2>3, ReadAndFillInv DEF ReadAndFill
  <2>4. CASE Delete(p)
    BY <1>2, <2>4, DeleteInv DEF Delete
  <2>5. CASE Commit(p)
    BY <1>2, <2>5, CommitInv DEF Commit
  <2>6. CASE Track(p)
    <3>1. GapfillInv' /\ p \in Scheduled /\ pc[p] = "track" /\ local[p].seen < tracking'
      BY <2>6, TrackInv
    <3>2. local[p].seen \in Int /\ tracking' \in Int
      BY <3>1 DEF GapfillInv, TypeOK, Knowledge, Stamps
    <3> QED
      BY <1>1, <3>1, <3>2 DEF Forward
  <2> QED
    BY <1>5, <2>1, <2>2, <2>3, <2>4, <2>5, <2>6 DEF Step
<1>6. ASSUME NEW p \in Procs, Kill(p)
      PROVE  GapfillInv' /\ Forward
  BY <1>2, <1>6, EndInv DEF Kill
<1>7. CASE UNCHANGED vars
  BY <1>2, <1>7, StutterInv DEF vars
<1> QED
  BY <1>3, <1>4, <1>5, <1>6, <1>7 DEF Next

(* The invariant of the tracking, for any packages, and for any runs, that *)
(* overlap as they like.                                                   *)
THEOREM TrackingInvariant == Spec => []GapfillInv
<1>1. GapfillInv /\ [Next]_vars => GapfillInv'
  BY NextInv
<1> QED
  BY InitInv, <1>1, PTL DEF Spec

(* No revision that the watermark covers is missing from the target, for   *)
(* any loads, runs and kills between any two steps of a run, but where a   *)
(* row came late or two runs have replaced a time at once.                 *)
THEOREM RevisionsKept == Spec => []NoRevisionLost
<1>1. GapfillInv => NoRevisionLost
  BY DEF GapfillInv, NoRevisionLost, SettledUpTo, Settled
<1> QED
  BY <1>1, TrackingInvariant, PTL

(* A run that replaces a time alone leaves at most one row there, and so   *)
(* it stays until two runs replace it at once.                             *)
THEOREM NoDoubleRows == Spec => []NoDuplicates
<1>1. GapfillInv => NoDuplicates
  <2>1. ASSUME NEW S, S = {} \/ \E r \in Row : S = {r} PROVE Cardinality(S) <= 1
    <3>1. CASE S = {}
      BY <3>1, FS_EmptySet
    <3>2. CASE \E r \in Row : S = {r}
      <4>1. PICK r \in Row : S = {r}
        BY <3>2
      <4>2. Cardinality({r}) = 1
        BY FS_Singleton
      <4> QED
        BY <4>1, <4>2
    <3> QED
      BY <2>1, <3>1, <3>2
  <2> QED
    BY <2>1 DEF GapfillInv, NoDuplicates
<1> QED
  BY <1>1, TrackingInvariant, PTL

(* The watermark moves back only when it is written by a run that another  *)
(* has overtaken.                                                          *)
THEOREM WatermarkForward == Spec => WatermarkMonotone
<1>1. GapfillInv /\ [Next]_vars =>
        [tracking' < tracking =>
           \E p \in Scheduled : pc[p] = "track" /\ local[p].seen # tracking]_tracking
  BY NextInv DEF Forward
<1> QED
  BY <1>1, TrackingInvariant, PTL DEF Spec, WatermarkMonotone

-----------------------------------------------------------------------------
(* A group that is filled: what is copied, and what is listed as filled.   *)
Filling == {"expanded", "detected", "filled", "fallen back", "refined", "ok"}
Before  == {"start", "expanded", "detected"}

FromRow(p) == IF Methods!At(p) \in Methods!Valued THEN Methods!Own ELSE Methods!Empty

ConfigType ==
  config \in [method : Methods!Methods, artefacts : BOOLEAN, gmm : BOOLEAN, refinement : BOOLEAN]

(* What is observed has the value of its row, and every such value is      *)
(* observed unless it is taken for an artefact.                            *)
Observes ==
  step \in Filling =>
    /\ series \subseteq {p \in Methods!Positions : Methods!At(p) \in Methods!Valued}
    /\ ~config.artefacts => \A p \in Methods!Positions : Methods!At(p) \in Methods!Valued => p \in series

(* What is not filled is as in the source, until the artefacts are refined. *)
Unlisted ==
  step \in Filling /\ (step \in {"refined", "ok"} => ~(config.artefacts /\ config.refinement)) =>
      \A p \in Methods!Positions \ filled : cells[p] = FromRow(p)

(* What is filled was to be filled, from what is observed.                 *)
Listed ==
  /\ step \in Before => filled = {}
  /\ step \in Filling => \A p \in filled :
       /\ p \in Methods!Positions /\ p \in Methods!Missing /\ p \in Methods!Eligible
       /\ cells[p].is = "filled" /\ cells[p].from \subseteq series
       /\ series # {} => cells[p].from # {}

FillInv == ConfigType /\ Observes /\ Unlisted /\ Listed

(* In the beginning nothing is filled.                                     *)
LEMMA FillInit == Methods!Init => FillInv
<1> SUFFICES ASSUME Methods!Init PROVE FillInv
  OBVIOUS
<1>1. ConfigType
  BY DEF Methods!Init, ConfigType, Methods!Options
<1> QED BY <1>1 DEF Methods!Init, FillInv, Observes, Unlisted, Listed, Filling, Before

(* Positions are natural numbers.                                          *)
LEMMA PositionsAreNat == Methods!Positions \subseteq Nat
  BY DEF Methods!Positions, Methods!Grid

(* Linear interpolation takes the observed neighbours.                     *)
LEMMA LinearObserved ==
  ASSUME series \subseteq Methods!Positions, NEW p \in Methods!Positions
  PROVE  Methods!Linear(p) \subseteq series
<1> DEFINE before == {q \in series : q < p}  after == {q \in series : q > p}
<1> SUFFICES ASSUME before # {}, after # {} PROVE Methods!MaxOf(before) \in before /\ Methods!MinOf(after) \in after
  BY DEF Methods!Linear
<1>1. p \in Nat /\ before \in SUBSET (0 .. p) /\ after \in SUBSET Nat
  <2>1. p \in Nat /\ series \subseteq Nat
    BY PositionsAreNat
  <2>2. \A q \in series : q < p => q \in 0 .. p
    BY <2>1
  <2> QED BY <2>1, <2>2
<1> HIDE DEF before, after
<1>2. \E x \in before : \A y \in before : y <= x
  BY <1>1, GreatestNat
<1>3. \E x \in after : \A y \in after : x <= y
  BY <1>1, LeastNat
<1> QED BY <1>2, <1>3 DEF Methods!MaxOf, Methods!MinOf

(* So do the other simple methods, or they take an earlier period.         *)
LEMMA SimpleObserved ==
  ASSUME ConfigType, config.method \notin Methods!Donated, series \subseteq Methods!Positions, NEW p \in Methods!Positions
  PROVE  Methods!SimpleCandidate(p) \subseteq series
<1>1. Methods!Linear(p) \subseteq series /\ Methods!PreviousPeriod(p) \subseteq series
  BY LinearObserved DEF Methods!PreviousPeriod
<1>2. config.method \in {"linear", "previous_period", "seasonal_linear"}
  BY DEF ConfigType, Methods!Methods, Methods!Donated
<1> QED BY <1>1, <1>2 DEF Methods!SimpleCandidate, Methods!CombineFirst

(* A donor gives values that are observed.                                 *)
LEMMA DonationObserved ==
  ASSUME NEW g \in Methods!Gaps, NEW s \in Methods!Chosen(g), NEW p \in g[1] .. g[2]
  PROVE  Methods!Donation(g, s, p) \subseteq series
<1> SUFFICES ASSUME s # -1 PROVE Methods!Donation(g, s, p) \subseteq series
  BY DEF Methods!Donation
<1>1. s \in Methods!Donors(g)
  BY DEF Methods!Chosen
<1>2. s \in Nat /\ Methods!Segment(g, s) \subseteq series /\ g[1] \in Nat /\ g[2] \in Nat
  BY <1>1, PositionsAreNat DEF Methods!Donors, Methods!DonorStarts, Methods!IsValidDonor, Methods!Gaps, Methods!MissingRanges
<1>3. s + p - g[1] \in Methods!Segment(g, s)
  BY <1>2 DEF Methods!Segment, Methods!Extent
<1> QED BY <1>2, <1>3 DEF Methods!Donation

(* A candidate is made of what is observed.                                *)
LEMMA CandidatesObserved ==
  ASSUME ConfigType, series \subseteq Methods!Positions, NEW candidate \in Methods!BuildFillCandidates, NEW p \in Methods!Positions
  PROVE  candidate[p] \subseteq series
<1>1. CASE config.method \in Methods!Donated
  <2>1. PICK c \in [Methods!Gaps -> UNION {Methods!Chosen(g) : g \in Methods!Gaps}] :
          /\ \A g \in Methods!Gaps : c[g] \in Methods!Chosen(g)
          /\ candidate = [q \in Methods!Positions |->
               UNION {Methods!Donation(g, c[g], q) : g \in {h \in Methods!Gaps : q \in h[1] .. h[2]}}]
    BY <1>1 DEF Methods!BuildFillCandidates, Methods!DonorCandidates
  <2>2. \A g \in {h \in Methods!Gaps : p \in h[1] .. h[2]} : Methods!Donation(g, c[g], p) \subseteq series
    BY <2>1, DonationObserved
  <2>3. candidate[p] = UNION {Methods!Donation(g, c[g], p) : g \in {h \in Methods!Gaps : p \in h[1] .. h[2]}}
    BY <2>1
  <2> QED BY <2>2, <2>3
<1>2. CASE config.method \notin Methods!Donated
  <2>1. candidate[p] = IF p \in Methods!Missing THEN Methods!SimpleCandidate(p) ELSE {}
    BY <1>2 DEF Methods!BuildFillCandidates
  <2> QED BY <1>2, <2>1, SimpleObserved
<1> QED BY <1>1, <1>2

(* Only what is missing is eligible.                                       *)
LEMMA EligibleIsMissing == Methods!Eligible \subseteq Methods!Missing
  BY DEF Methods!Eligible, Methods!Within, Methods!MissingRanges

(* A fault comes before anything is filled.                                *)
LEMMA InjectInv ==
  ASSUME FillInv, NEW w, NEW fault, Methods!InjectFault(w, fault)
  PROVE  FillInv'
  BY DEF FillInv, Methods!InjectFault, ConfigType, Observes, Unlisted, Listed, Filling, Before

(* The copy starts as the source.                                          *)
LEMMA FillGroupInv == FillInv /\ Methods!FillGroup => FillInv'
<1> SUFFICES ASSUME FillInv, Methods!FillGroup PROVE FillInv'
  OBVIOUS
<1>1. ConfigType' /\ UNCHANGED <<rows, filled, config>> /\ filled = {}
  BY DEF FillInv, Methods!FillGroup, ConfigType, Listed, Before
<1>2. CASE step' \in {"skipped_insufficient_points", "skipped_no_frequency"}
  BY <1>1, <1>2 DEF FillInv, Observes, Unlisted, Listed, Filling, Before
<1>3. CASE Methods!Expand(Methods!InferFrequency(Methods!Rows))
  <2>1. /\ series' = {p \in Methods!Positions' : Methods!At(p)' \in Methods!Valued'}
        /\ \A p \in Methods!Positions' : cells'[p] = FromRow(p)'
    BY <1>1, <1>3 DEF Methods!Expand, Methods!Positions, Methods!At, Methods!Grid, FromRow, Methods!Rows, Methods!Valued
  <2> QED BY <1>1, <2>1 DEF FillInv, Observes, Unlisted, Listed, Filling, Before
<1> QED BY <1>2, <1>3 DEF Methods!FillGroup, Methods!Skip

(* Artefacts are no longer observed.                                       *)
LEMMA DetectInv == FillInv /\ Methods!DetectAndRemoveArtefacts => FillInv'
<1> SUFFICES ASSUME FillInv, Methods!DetectAndRemoveArtefacts PROVE FillInv'
  OBVIOUS
<1>1. /\ UNCHANGED <<config, rows, frequency, cells, filled>> /\ step = "expanded"
      /\ series' \subseteq series /\ (~config.artefacts => series' = series)
      /\ step' \in {"detected", "failed"}
  BY DEF Methods!DetectAndRemoveArtefacts
<1>2. UNCHANGED <<Methods!Positions, Methods!Valued>> /\ \A p : Methods!At(p)' = Methods!At(p) /\ FromRow(p)' = FromRow(p)
  BY <1>1 DEF Methods!Positions, Methods!Grid, Methods!Rows, Methods!Valued, Methods!At, FromRow
<1>3. filled = {}
  BY <1>1 DEF FillInv, Listed, Before
<1> QED BY <1>1, <1>2, <1>3 DEF FillInv, ConfigType, Observes, Unlisted, Listed, Filling, Before

(* While a group is filled, what is observed and missing does not change.  *)
LEMMA SameGroup ==
  ASSUME UNCHANGED <<rows, frequency, series>>
  PROVE  /\ UNCHANGED <<Methods!Positions, Methods!Valued, Methods!Missing, Methods!Eligible>>
         /\ \A p : Methods!At(p)' = Methods!At(p) /\ FromRow(p)' = FromRow(p)
<1>1. UNCHANGED <<Methods!Positions, Methods!Valued>> /\ \A p : Methods!At(p)' = Methods!At(p) /\ FromRow(p)' = FromRow(p)
  BY DEF Methods!Positions, Methods!Grid, Methods!Rows, Methods!Valued, Methods!At, FromRow
<1> QED BY <1>1 DEF Methods!Missing, Methods!Eligible, Methods!MissingRanges

(* What a candidate fills is listed.                                       *)
LEMMA FillWithInv ==
  ASSUME FillInv, NEW candidate \in Methods!BuildFillCandidates, Methods!FillWith(candidate)
  PROVE  FillInv'
<1>1. /\ UNCHANGED <<config, rows, frequency, series>> /\ step = "detected" /\ step' = "filled"
      /\ filled' = Methods!FillMask(candidate)
      /\ cells' = [p \in Methods!Positions |-> IF p \in filled' THEN Methods!Filled(candidate[p]) ELSE cells[p]]
  BY DEF Methods!FillWith
<1>2. /\ UNCHANGED <<Methods!Positions, Methods!Valued, Methods!Missing, Methods!Eligible>>
      /\ \A p : Methods!At(p)' = Methods!At(p) /\ FromRow(p)' = FromRow(p)
  BY <1>1, SameGroup
<1>3. series \subseteq Methods!Positions /\ filled = {}
  BY <1>1 DEF FillInv, Observes, Listed, Filling, Before
<1>4. \A p \in filled' : /\ p \in Methods!Positions /\ p \in Methods!Missing /\ p \in Methods!Eligible
                         /\ candidate[p] \subseteq series /\ candidate[p] # {}
  BY <1>1, <1>3, CandidatesObserved DEF Methods!FillMask, FillInv, Methods!Missing
<1>5. Listed'
  BY <1>1, <1>2, <1>4 DEF Listed, Before, Methods!Filled
<1>6. Unlisted'
  BY <1>1, <1>2, <1>3 DEF FillInv, Unlisted, Filling
<1> QED BY <1>1, <1>2, <1>5, <1>6 DEF FillInv, ConfigType, Observes, Filling

(* The fallback lists what it fills.                                       *)
LEMMA FallbackInv == FillInv /\ Methods!GMMFallback => FillInv'
<1> SUFFICES ASSUME FillInv, Methods!GMMFallback PROVE FillInv'
  OBVIOUS
<1>1. UNCHANGED <<config, rows, frequency, series>> /\ step = "filled" /\ step' = "fallen back"
  BY DEF Methods!GMMFallback
<1>2. /\ UNCHANGED <<Methods!Positions, Methods!Valued, Methods!Missing, Methods!Eligible>>
      /\ \A p : Methods!At(p)' = Methods!At(p) /\ FromRow(p)' = FromRow(p)
  BY <1>1, SameGroup
<1>3. CASE UNCHANGED <<cells, filled>>
  BY <1>1, <1>2, <1>3 DEF FillInv, ConfigType, Observes, Unlisted, Listed, Filling, Before
<1>4. CASE /\ cells' = [p \in Methods!Positions |-> IF p \in Methods!StillEligible THEN Methods!Filled(series) ELSE cells[p]]
           /\ filled' = filled \cup Methods!StillEligible
  <2>1. Methods!StillEligible \subseteq Methods!Positions /\ Methods!StillEligible \subseteq Methods!Missing /\ Methods!StillEligible \subseteq Methods!Eligible
    BY EligibleIsMissing DEF Methods!StillEligible, Methods!Missing
  <2>2. Listed'
    BY <1>1, <1>2, <1>4, <2>1 DEF FillInv, Listed, Filling, Before, Methods!Filled
  <2>3. Unlisted'
    BY <1>1, <1>2, <1>4 DEF FillInv, Unlisted, Filling
  <2> QED BY <1>1, <1>2, <2>2, <2>3 DEF FillInv, ConfigType, Observes, Filling
<1> QED BY <1>3, <1>4 DEF Methods!GMMFallback, Methods!Recorded

(* Only what is not listed is refined.                                     *)
LEMMA RefineInv == FillInv /\ Methods!IterativeRefine => FillInv'
<1> SUFFICES ASSUME FillInv, Methods!IterativeRefine PROVE FillInv'
  OBVIOUS
<1>1. UNCHANGED <<config, rows, frequency, series, filled>> /\ step = "fallen back" /\ step' = "refined"
  BY DEF Methods!IterativeRefine
<1>2. /\ UNCHANGED <<Methods!Positions, Methods!Valued, Methods!Missing, Methods!Eligible>>
      /\ \A p : Methods!At(p)' = Methods!At(p) /\ FromRow(p)' = FromRow(p)
  BY <1>1, SameGroup
<1>0. PICK changed \in SUBSET {p \in Methods!Missing \cap Methods!Eligible : cells[p] = Methods!Own} :
        /\ changed # {} => config.refinement /\ filled # {}
        /\ \E lost \in SUBSET changed :
             cells' = [p \in Methods!Positions |-> IF p \in lost THEN Methods!Empty
                                           ELSE IF p \in changed THEN Methods!Filled({p}) ELSE cells[p]]
  BY DEF Methods!IterativeRefine
<1>3. PICK lost \in SUBSET changed :
        cells' = [p \in Methods!Positions |-> IF p \in lost THEN Methods!Empty
                                         ELSE IF p \in changed THEN Methods!Filled({p}) ELSE cells[p]]
  BY <1>0
<1>4. \A p \in filled : p \notin changed /\ p \in Methods!Positions
  <2>1. \A p \in filled : p \in Methods!Positions /\ cells[p].is = "filled"
    BY <1>1 DEF FillInv, Listed, Filling
  <2>2. Methods!Own.is # "filled"
    BY DEF Methods!Own
  <2>3. \A p \in changed : cells[p] = Methods!Own
    OBVIOUS
  <2> QED BY <2>1, <2>2, <2>3
<1>5. \A p \in filled : cells'[p] = cells[p]
  BY <1>3, <1>4
<1>6. Listed'
  BY <1>1, <1>2, <1>5 DEF FillInv, Listed, Filling, Before
<1>7. ~(config.artefacts /\ config.refinement) => changed = {}
  <2> SUFFICES ASSUME ~config.artefacts, NEW p \in changed PROVE FALSE
    BY <1>0 DEF FillInv, ConfigType
  <2>1. p \in Methods!Positions \ filled /\ p \notin series /\ cells[p] = Methods!Own
    BY <1>4 DEF Methods!Missing
  <2>2. cells[p] = FromRow(p)
    BY <1>1, <2>1 DEF FillInv, Unlisted, Filling
  <2>3. Methods!At(p) \in Methods!Valued
    BY <2>1, <2>2 DEF FromRow, Methods!Own, Methods!Empty
  <2> QED BY <1>1, <2>1, <2>3 DEF FillInv, Observes, Filling
<1>8. Unlisted'
  BY <1>1, <1>2, <1>3, <1>7 DEF FillInv, Unlisted, Filling
<1> QED BY <1>1, <1>2, <1>6, <1>8 DEF FillInv, ConfigType, Observes, Filling

(* The figures and the verdict change no cell.                             *)
LEMMA MeasureInv == FillInv /\ (Methods!Measure \/ Methods!CalculateError) => FillInv'
<1> SUFFICES ASSUME FillInv, Methods!Measure \/ Methods!CalculateError PROVE FillInv'
  OBVIOUS
<1>1. /\ UNCHANGED <<config, rows, frequency, series, cells, filled>>
      /\ step' = step \/ (step = "refined" /\ step' = "ok")
  BY DEF Methods!Measure, Methods!CalculateError
<1>2. /\ UNCHANGED <<Methods!Positions, Methods!Valued, Methods!Missing, Methods!Eligible>>
      /\ \A p : Methods!At(p)' = Methods!At(p) /\ FromRow(p)' = FromRow(p)
  BY <1>1, SameGroup
<1> QED BY <1>1, <1>2 DEF FillInv, ConfigType, Observes, Unlisted, Listed, Filling, Before

(* Every step keeps it.                                                    *)
LEMMA FillStep == FillInv /\ [Methods!Next]_(Methods!vars) => FillInv'
<1> SUFFICES ASSUME FillInv, [Methods!Next]_(Methods!vars) PROVE FillInv'
  OBVIOUS
<1>1. CASE UNCHANGED Methods!vars
  <2>1. UNCHANGED <<config, rows, frequency, series, cells, filled, step>>
    BY <1>1 DEF Methods!vars
  <2>2. /\ UNCHANGED <<Methods!Positions, Methods!Valued, Methods!Missing, Methods!Eligible>>
        /\ \A p : Methods!At(p)' = Methods!At(p) /\ FromRow(p)' = FromRow(p)
    BY <2>1, SameGroup
  <2> QED BY <2>1, <2>2 DEF FillInv, ConfigType, Observes, Unlisted, Listed, Filling, Before
<1> QED BY <1>1, InjectInv, FillGroupInv, DetectInv, FillWithInv, FallbackInv, RefineInv, MeasureInv DEF Methods!Next

(* Both properties of a copy follow.                                       *)
LEMMA FillShows == FillInv => Methods!UnlistedIsUntouched /\ Methods!FillsFromObservations
<1> SUFFICES ASSUME FillInv PROVE Methods!UnlistedIsUntouched /\ Methods!FillsFromObservations
  OBVIOUS
<1>1. Methods!UnlistedIsUntouched
  BY DEF FillInv, Unlisted, Filling, Methods!UnlistedIsUntouched, FromRow
<1>2. Methods!FillsFromObservations
  <2> SUFFICES ASSUME step = "ok", NEW p \in filled
               PROVE  /\ cells[p].is = "filled"
                      /\ cells[p].from \subseteq series \ {p}
                      /\ series # {} => cells[p].from # {}
                      /\ \E g \in Methods!MissingRanges(Methods!Missing) : p \in g[1] .. g[2] /\ Methods!Extent(g) <= MaxGap
    BY DEF Methods!FillsFromObservations
  <2>1. /\ p \in Methods!Missing /\ p \in Methods!Eligible /\ cells[p].is = "filled" /\ cells[p].from \subseteq series
        /\ series # {} => cells[p].from # {}
    BY DEF FillInv, Listed, Filling
  <2> QED BY <2>1 DEF Methods!Missing, Methods!Eligible, Methods!Within
<1> QED BY <1>1, <1>2

(* The methods count as this module does.                                  *)
LEMMA SameCardinality ==
  ASSUME NEW S
  PROVE  Methods!Cardinality(S) = Cardinality(S)
  BY Zenon DEF Methods!Cardinality, Cardinality

(* The least and the greatest of a set of numbers.                         *)
LEMMA MinIs ==
  ASSUME NEW S \in SUBSET Int, NEW m \in S, \A y \in S : m <= y
  PROVE  Methods!MinOf(S) = m
<1>1. \A x \in S : (\A y \in S : x <= y) => x = m
  OBVIOUS
<1> QED BY <1>1 DEF Methods!MinOf

(* The greatest as well.                                                   *)
LEMMA MaxIs ==
  ASSUME NEW S \in SUBSET Int, NEW m \in S, \A y \in S : y <= m
  PROVE  Methods!MaxOf(S) = m
<1>1. \A x \in S : (\A y \in S : y <= x) => x = m
  OBVIOUS
<1> QED BY <1>1 DEF Methods!MaxOf

(* As many times as steps.                                                 *)
LEMMA DoubledCard ==
  ASSUME NEW A \in SUBSET Int, IsFiniteSet(A)
  PROVE  IsFiniteSet({2 * i : i \in A}) /\ Cardinality({2 * i : i \in A}) = Cardinality(A)
<1> DEFINE T == {2 * i : i \in A}  f == [i \in A |-> 2 * i]
<1>1. f \in Bijection(A, T)
  <2>1. f \in [A -> T] /\ \A t \in T : \E i \in A : f[i] = t
    OBVIOUS
  <2>2. \A i, j \in A : f[i] = f[j] => i = j
    <3>1. \A i, j \in Int : 2 * i = 2 * j => i = j
      OBVIOUS
    <3> QED BY <3>1
  <2>3. \A t \in T : \E i \in DOMAIN f : f[i] = t
    BY <2>1
  <2> HIDE DEF f, T
  <2>4. f \in Surjection(A, T)
    BY <2>1, Zenon DEF Surjection
  <2>5. f \in Injection(A, T)
    BY <2>1, <2>2, Zenon DEF Injection, IsInjective
  <2> QED BY <2>4, <2>5 DEF Bijection
<1>2. ExistsBijection(A, T)
  BY <1>1 DEF ExistsBijection
<1> HIDE DEF T
<1>3. IsFiniteSet(T) /\ Cardinality(T) = Cardinality(A)
  BY <1>2, FS_Bijection
<1> QED BY <1>3 DEF T

(* The median of distances most of which are two.                          *)
LEMMA RankedIs ==
  ASSUME NEW f, NEW H \in SUBSET DOMAIN f, IsFiniteSet(DOMAIN f), NEW k \in Nat, Cardinality(H) > k,
         \A t \in DOMAIN f : f[t] \in Nat /\ f[t] >= 2, \A t \in H : f[t] = 2
  PROVE  Methods!Ranked(f, k) = 2
<1> DEFINE Below(d) == {t \in DOMAIN f : f[t] < d}
           UpTo(d) == {t \in DOMAIN f : f[t] <= d}
           R(d) == Methods!Cardinality(Below(d)) <= k /\ Methods!Cardinality(UpTo(d)) > k
           V == {f[t] : t \in DOMAIN f}
<1>0. IsFiniteSet(H) /\ Cardinality(H) \in Nat /\ H # {}
  BY FS_Subset, FS_CardinalityType, FS_EmptySet
<1>1. 2 \in V
  BY <1>0
<1>2. R(2)
  <2>1. Below(2) = {}
    OBVIOUS
  <2>2. H \in SUBSET UpTo(2) /\ IsFiniteSet(UpTo(2))
    BY FS_Subset
  <2>3. Cardinality(UpTo(2)) \in Nat /\ Cardinality(H) <= Cardinality(UpTo(2))
    <3> HIDE DEF UpTo
    <3> QED BY <2>2, FS_Subset, FS_CardinalityType
  <2>4. Cardinality(Below(2)) = 0
    BY <2>1, FS_EmptySet
  <2> HIDE DEF Below, UpTo
  <2> QED BY <1>0, <2>3, <2>4, SameCardinality
<1>3. ASSUME NEW d \in V, R(d) PROVE d = 2
  <2> SUFFICES ASSUME d # 2 PROVE FALSE
    OBVIOUS
  <2>1. d \in Nat /\ d > 2
    OBVIOUS
  <2>2. H \in SUBSET Below(d) /\ IsFiniteSet(Below(d))
    BY <2>1, FS_Subset
  <2>3. Cardinality(Below(d)) \in Nat /\ Cardinality(H) <= Cardinality(Below(d)) /\ Cardinality(Below(d)) <= k
    <3> HIDE DEF Below
    <3> QED BY <2>2, <1>3, FS_Subset, FS_CardinalityType, SameCardinality
  <2> HIDE DEF Below
  <2> QED BY <1>0, <2>3
<1>4. Methods!Ranked(f, k) = CHOOSE d \in V : R(d)
  BY DEF Methods!Ranked
<1> HIDE DEF V, R
<1> QED BY <1>1, <1>2, <1>3, <1>4

(* Rows at every step but one stretch: their distance is one step.         *)
LEMMA RegularFrequency ==
  ASSUME NEW I \in SUBSET (0 .. LastRow), NEW c \in I \ {LastRow}, LastRow \in I,
         \A i \in I \ {LastRow, c} : i + 1 \in I, Cardinality(I) >= 4
  PROVE  Methods!InferFrequency({2 * i : i \in I}) = 2 /\ Cardinality({2 * i : i \in I}) = Cardinality(I)
<1> DEFINE times == {2 * i : i \in I}  D == Methods!Distances(times)  H == {2 * i : i \in I \ {LastRow, c}}
<1>1. LastRow \in Nat /\ I \in SUBSET Int /\ \A i \in I : i \in Nat /\ i <= LastRow
  BY MethodsAssumption
<1>2. /\ IsFiniteSet(I) /\ Cardinality(I) \in Nat
      /\ IsFiniteSet(I \ {LastRow}) /\ Cardinality(I \ {LastRow}) = Cardinality(I) - 1
      /\ IsFiniteSet(I \ {LastRow, c}) /\ Cardinality(I \ {LastRow, c}) = Cardinality(I) - 2
  <2>0. IsFiniteSet(0 .. LastRow)
    BY <1>1, FS_Interval
  <2>1. IsFiniteSet(I) /\ Cardinality(I) \in Nat
    BY <2>0, FS_Subset, FS_CardinalityType
  <2>2. IsFiniteSet(I \ {LastRow}) /\ Cardinality(I \ {LastRow}) = Cardinality(I) - 1
    BY <2>1, FS_RemoveElement
  <2>3. /\ IsFiniteSet((I \ {LastRow}) \ {c})
        /\ Cardinality((I \ {LastRow}) \ {c}) = Cardinality(I \ {LastRow}) - 1
    BY <2>2, FS_RemoveElement
  <2>4. (I \ {LastRow}) \ {c} = I \ {LastRow, c}
    OBVIOUS
  <2>5. IsFiniteSet(I \ {LastRow, c}) /\ Cardinality(I \ {LastRow, c}) = Cardinality(I \ {LastRow}) - 1
    BY <2>3, <2>4, Zenon
  <2> QED BY <2>1, <2>2, <2>5
<1>3. Methods!MaxOf(times) = 2 * LastRow
  <2>1. times \in SUBSET Int /\ 2 * LastRow \in times /\ \A y \in times : y <= 2 * LastRow
    BY <1>1
  <2> HIDE DEF times
  <2> QED BY <2>1, MaxIs
<1>4. /\ DOMAIN D = {2 * i : i \in I \ {LastRow}}
      /\ \A t \in DOMAIN D : D[t] = Methods!MinOf({u \in times : u > t}) - t
  <2>1. times \ {2 * LastRow} = {2 * i : i \in I \ {LastRow}}
    <3>1. \A i \in I : 2 * i = 2 * LastRow => i = LastRow
      BY <1>1
    <3> QED BY <3>1
  <2> HIDE DEF times
  <2> QED BY <1>3, <2>1 DEF Methods!Distances
<1>5. ASSUME NEW i \in I \ {LastRow}
      PROVE  D[2 * i] \in Nat /\ D[2 * i] >= 2 /\ (i + 1 \in I => D[2 * i] = 2)
  <2> DEFINE L == {j \in I : j > i}  U == {u \in times : u > 2 * i}
  <2>1. PICK m \in L : \A j \in L : m <= j
    <3>0. i \in Nat /\ i < LastRow
      BY <1>1
    <3>1. L \in SUBSET Nat /\ LastRow \in L
      BY <1>1, <3>0
    <3> HIDE DEF L
    <3> QED BY <3>1, LeastNat
  <2>2. U \in SUBSET Int /\ 2 * m \in U /\ \A u \in U : 2 * m <= u
    <3>1. \A u \in U : \E j \in L : u = 2 * j
      BY <1>1
    <3>2. \A j \in L : 2 * m <= 2 * j
      BY <1>1, <2>1
    <3>3. U \in SUBSET Int /\ 2 * m \in U
      BY <1>1
    <3> QED BY <3>1, <3>2, <3>3
  <2>3. Methods!MinOf(U) = 2 * m
    <3> HIDE DEF U
    <3> QED BY <2>2, MinIs
  <2>4. D[2 * i] = 2 * m - 2 * i
    BY <1>4, <2>3
  <2>5. i + 1 \in I => m = i + 1
    BY <1>1, <2>1
  <2>6. m \in Nat /\ i \in Nat /\ m > i
    BY <1>1
  <2> HIDE DEF D, L
  <2> QED BY <2>4, <2>5, <2>6
<1>6. /\ IsFiniteSet(DOMAIN D) /\ Cardinality(DOMAIN D) = Cardinality(I) - 1
      /\ H \in SUBSET DOMAIN D /\ Cardinality(H) = Cardinality(I) - 2
      /\ Cardinality(times) = Cardinality(I)
  <2>1. I \ {LastRow} \in SUBSET Int /\ I \ {LastRow, c} \in SUBSET Int
    BY <1>1
  <2>2. H \in SUBSET DOMAIN D
    BY <1>4
  <2> HIDE DEF D
  <2> QED BY <1>1, <1>2, <1>4, <2>1, <2>2, DoubledCard
<1>7. /\ \A t \in DOMAIN D : D[t] \in Nat /\ D[t] >= 2
      /\ \A t \in H : D[t] = 2
  <2> HIDE DEF D
  <2> QED BY <1>4, <1>5
<1>8. \A k \in Nat : Cardinality(I) - 2 > k => Methods!Ranked(D, k) = 2
  <2> HIDE DEF D, H
  <2> QED BY <1>6, <1>7, RankedIs
<1>9. Methods!Median(D) = 2
  <2> DEFINE n == Methods!Cardinality(DOMAIN D)
  <2>1. n = Cardinality(I) - 1 /\ Cardinality(I) \in Nat
    BY <1>2, <1>6, SameCardinality
  <2> HIDE DEF n
  <2>2. /\ (n - 1) \div 2 \in Nat /\ n \div 2 \in Nat
        /\ Cardinality(I) - 2 > (n - 1) \div 2 /\ Cardinality(I) - 2 > n \div 2
    BY <2>1
  <2>3. Methods!Ranked(D, (n - 1) \div 2) = 2 /\ Methods!Ranked(D, n \div 2) = 2
    BY <1>8, <2>2
  <2> HIDE DEF D
  <2> QED BY <2>3 DEF Methods!Median, n
<1> HIDE DEF times
<1>10. Methods!InferFrequency(times) = Methods!Median(Methods!Distances(times))
  BY <1>2, <1>6, SameCardinality DEF Methods!InferFrequency
<1> QED BY <1>6, <1>9, <1>10 DEF times

(* The rows that a test has removed are those of a window, and a verdict   *)
(* comes from a comparison.                                                *)
Held ==
  /\ held # {} =>
       /\ Methods!Plain /\ held \in Methods!HoldoutWindows
       /\ \E fault \in {"value_gap", "timestamp_gap"} : rows = Methods!Faulted(held, fault)
  /\ verdict # "none" => Methods!Done /\ held # {}
  /\ verdict = "passed" => Methods!Compared = held

(* In a stretch of complete data, linear interpolation fills what a test   *)
(* has removed.                                                            *)
Interpolates ==
  held # {} /\ config.method = "linear" /\ Methods!SyntheticWindow(held) =>
    /\ step \in {"start"} \cup Filling
    /\ step \in Filling => frequency = 2
    /\ step \in Filling \ Before => \A p \in Methods!Positions : cells[p] # Methods!Empty
    /\ step = "ok" => metric.after = 0
    /\ verdict # "failed"

HoldoutInv == Held /\ Interpolates

(* There is a figure of what is missing afterwards.                        *)
Figures == "after" \in DOMAIN metric

(* And it is kept.                                                         *)
LEMMA FiguresStep == Figures /\ [Methods!Next]_(Methods!vars) => Figures'
<1>1. DOMAIN Methods!NoMetric = {"before", "after", "filled", "created"}
  BY DEF Methods!NoMetric
<1>2. \A m, a, b : "after" \in DOMAIN m => "after" \in DOMAIN [m EXCEPT !.before = a, !.after = b]
  OBVIOUS
<1>3. \A m, a, b : "after" \in DOMAIN m => "after" \in DOMAIN [m EXCEPT !.before = a, !.created = b]
  OBVIOUS
<1>4. \A m, a, b : "after" \in DOMAIN m => "after" \in DOMAIN [m EXCEPT !.after = a, !.filled = b]
  OBVIOUS
<1>5. Methods!FillGroup => metric' = metric \/ "after" \in DOMAIN metric'
  BY <1>1, <1>2, <1>3 DEF Methods!FillGroup, Methods!Skip, Methods!Expand
<1>6. Figures /\ Methods!Measure => Figures'
  BY <1>4 DEF Methods!Measure, Figures
<1> QED BY <1>5, <1>6 DEF Figures, Methods!Next, Methods!vars, Methods!InjectFault, Methods!DetectAndRemoveArtefacts, Methods!FillWith,
                          Methods!GMMFallback, Methods!IterativeRefine, Methods!CalculateError

(* There is no test in the beginning.                                      *)
LEMMA HoldoutInit == Methods!Init => HoldoutInv
  BY DEF Methods!Init, HoldoutInv, Held, Interpolates

(* What is removed has no value.                                           *)
LEMMA HeldRows ==
  ASSUME Held, held # {}
  PROVE  /\ Methods!Valued = {t \in DOMAIN truth : truth[t] /\ t \notin held}
         /\ Methods!Rows = DOMAIN truth \/ Methods!Rows = DOMAIN truth \ held
<1>1. PICK fault \in {"value_gap", "timestamp_gap"} : rows = Methods!Faulted(held, fault)
  BY DEF Held
<1>2. CASE rows = [t \in DOMAIN truth \ held |-> truth[t]]
  BY <1>2 DEF Methods!Valued, Methods!Rows
<1>3. CASE rows = [t \in DOMAIN truth |-> truth[t] /\ t \notin held]
  BY <1>3 DEF Methods!Valued, Methods!Rows
<1> QED BY <1>1, <1>2, <1>3 DEF Methods!Faulted

(* A window of complete data is a short stretch within.                    *)
LEMMA WindowShape ==
  ASSUME Held, held # {}, Methods!SyntheticWindow(held)
  PROVE  \E a, b \in 1 .. (LastRow - 1) :
           a <= b /\ b - a + 1 <= MaxGap /\ held = {2 * i : i \in a .. b}
<1> DEFINE J == {i \in 0 .. LastRow : 2 * i \in held}
<1>0. LastRow \in Nat /\ MaxGap \in Nat
  BY MethodsAssumption
<1>1. /\ DOMAIN truth = Methods!RowTimes /\ held \in SUBSET Methods!RowTimes /\ Cardinality(held) <= MaxGap
      /\ \A t \in Methods!RowTimes : Methods!MinOf(held) <= t /\ t <= Methods!MaxOf(held) => t \in held
      /\ Methods!MinOf(held) > 0 /\ Methods!MaxOf(held) < 2 * LastRow
  BY SameCardinality DEF Held, Methods!HoldoutWindows, Methods!SyntheticWindow
<1>2. \A t \in held : \E i \in J : t = 2 * i
  BY <1>1 DEF Methods!RowTimes
<1>3. J \in SUBSET (0 .. LastRow) /\ J \in SUBSET Nat /\ J # {}
  <2>1. J # {}
    BY <1>2
  <2> QED BY <1>0, <2>1
<1> HIDE DEF J
<1>4. PICK a \in J : \A i \in J : a <= i
  BY <1>3, LeastNat
<1>5. PICK b \in J : \A i \in J : i <= b
  BY <1>0, <1>3, GreatestNat
<1>6. held \in SUBSET Int /\ 2 * a \in held /\ 2 * b \in held
  BY <1>2, <1>3 DEF J
<1>7. a \in 0 .. LastRow /\ b \in 0 .. LastRow /\ a <= b
  BY <1>3, <1>4
<1>8. \A t \in held : 2 * a <= t /\ t <= 2 * b
  <2>1. \A i \in J : i \in Nat /\ a <= i /\ i <= b
    BY <1>3, <1>4, <1>5
  <2>2. \A i \in Nat : a <= i /\ i <= b => 2 * a <= 2 * i /\ 2 * i <= 2 * b
    BY <1>7
  <2> QED BY <1>2, <2>1, <2>2
<1>9. Methods!MinOf(held) = 2 * a /\ Methods!MaxOf(held) = 2 * b
  BY <1>6, <1>8, MinIs, MaxIs
<1>10. a \in 1 .. (LastRow - 1) /\ b \in 1 .. (LastRow - 1)
  BY <1>0, <1>1, <1>7, <1>9
<1>11. held = {2 * i : i \in a .. b}
  <2>1. ASSUME NEW i \in a .. b PROVE 2 * i \in held
    <3>1. i \in 0 .. LastRow /\ 2 * a <= 2 * i /\ 2 * i <= 2 * b
      BY <1>0, <1>7
    <3> QED BY <1>1, <1>9, <3>1 DEF Methods!RowTimes
  <2>2. ASSUME NEW t \in held PROVE \E i \in a .. b : t = 2 * i
    <3>1. PICK i \in J : t = 2 * i
      BY <1>2
    <3>2. i \in a .. b
      BY <1>3, <1>4, <1>5, <1>7
    <3> QED BY <3>1, <3>2
  <2> QED BY <2>1, <2>2
<1>12. b - a + 1 <= MaxGap
  <2>1. IsFiniteSet(a .. b) /\ Cardinality(a .. b) = b - a + 1 /\ a .. b \in SUBSET Int
    BY <1>7, FS_Interval
  <2>2. Cardinality(held) = b - a + 1
    BY <1>11, <2>1, DoubledCard
  <2> QED BY <1>1, <2>2
<1> QED BY <1>7, <1>10, <1>11, <1>12

(* What a test leaves of complete data is enough to see the frequency.     *)
LEMMA SyntheticRows ==
  ASSUME Held, held # {}, Methods!SyntheticWindow(held)
  PROVE  /\ Methods!MinOf(Methods!Rows) = 0 /\ Methods!MaxOf(Methods!Rows) = 2 * LastRow
         /\ Methods!InferFrequency(Methods!Rows) = 2 /\ ~(Cardinality(Methods!Rows) < MinRows)
<1>0. LastRow \in Nat /\ MaxGap \in Nat /\ MinRows \in Nat /\ MaxGap + 3 <= LastRow /\ MinRows <= LastRow + 1 - MaxGap
  BY MethodsAssumption
<1>1. PICK a, b \in 1 .. (LastRow - 1) : a <= b /\ b - a + 1 <= MaxGap /\ held = {2 * i : i \in a .. b}
  BY WindowShape
<1>2. a \in Nat /\ b \in Nat /\ 1 <= a /\ b < LastRow
  BY <1>0
<1>3. PICK I \in SUBSET (0 .. LastRow), c \in (0 .. LastRow) \ {LastRow} :
        /\ Methods!Rows = {2 * i : i \in I} /\ 0 \in I /\ LastRow \in I /\ c \in I
        /\ \A i \in I \ {LastRow, c} : i + 1 \in I
        /\ Cardinality(I) \in Nat /\ Cardinality(I) >= LastRow + 1 - MaxGap
  <2>1. IsFiniteSet(0 .. LastRow) /\ Cardinality(0 .. LastRow) = LastRow + 1
    BY <1>0, FS_Interval
  <2>2. CASE Methods!Rows = DOMAIN truth
    <3>1. Methods!Rows = {2 * i : i \in 0 .. LastRow}
      BY <2>2 DEF Methods!SyntheticWindow, Methods!RowTimes
    <3>2. 0 \in (0 .. LastRow) \ {LastRow} /\ LastRow \in 0 .. LastRow
      BY <1>0
    <3>3. \A i \in (0 .. LastRow) \ {LastRow, 0} : i + 1 \in 0 .. LastRow
      BY <1>0
    <3>4. LastRow + 1 >= LastRow + 1 - MaxGap /\ LastRow + 1 \in Nat
      BY <1>0
    <3> QED BY <2>1, <3>1, <3>2, <3>3, <3>4
  <2>3. CASE Methods!Rows = DOMAIN truth \ held
    <3> DEFINE I == (0 .. LastRow) \ (a .. b)
    <3>1. Methods!Rows = {2 * i : i \in I}
      <4>1. \A i, j \in Int : 2 * i = 2 * j => i = j
        OBVIOUS
      <4>2. a .. b \in SUBSET Int /\ 0 .. LastRow \in SUBSET Int
        OBVIOUS
      <4>3. Methods!Rows = {2 * i : i \in 0 .. LastRow} \ {2 * i : i \in a .. b}
        BY <1>1, <2>3 DEF Methods!SyntheticWindow, Methods!RowTimes
      <4> QED BY <4>1, <4>2, <4>3
    <3>2. 0 \in I /\ LastRow \in I /\ a - 1 \in I /\ a - 1 \in (0 .. LastRow) \ {LastRow}
      BY <1>0, <1>1, <1>2
    <3>3. \A i \in I \ {LastRow, a - 1} : i + 1 \in I
      BY <1>0, <1>1, <1>2
    <3>4. a .. b \in SUBSET (0 .. LastRow) /\ Cardinality(a .. b) = b - a + 1
      BY <1>0, <1>1, <1>2, FS_Interval
    <3>5. Cardinality(I) = Cardinality(0 .. LastRow) - Cardinality((0 .. LastRow) \cap (a .. b))
      BY <2>1, FS_Difference
    <3>6. (0 .. LastRow) \cap (a .. b) = a .. b
      BY <3>4
    <3>7. Cardinality(I) = LastRow + 1 - (b - a + 1)
      <4>1. Cardinality((0 .. LastRow) \cap (a .. b)) = b - a + 1
        BY <3>4, <3>6, Zenon
      <4> HIDE DEF I
      <4> QED BY <1>0, <1>2, <2>1, <3>5, <4>1
    <3>8. LastRow + 1 - (b - a + 1) >= LastRow + 1 - MaxGap /\ LastRow + 1 - (b - a + 1) \in Nat
      BY <1>0, <1>1, <1>2
    <3>9. I \in SUBSET (0 .. LastRow)
      OBVIOUS
    <3> HIDE DEF I
    <3> QED BY <3>1, <3>2, <3>3, <3>7, <3>8, <3>9
  <2> QED BY <2>2, <2>3, HeldRows
<1>4. Cardinality(I) >= 4 /\ Cardinality(I) >= MinRows
  BY <1>0, <1>3
<1>5. Methods!InferFrequency(Methods!Rows) = 2 /\ Cardinality(Methods!Rows) = Cardinality(I)
  BY <1>3, <1>4, RegularFrequency
<1>6. Methods!Rows \in SUBSET Int /\ 0 \in Methods!Rows /\ 2 * LastRow \in Methods!Rows /\ \A t \in Methods!Rows : 0 <= t /\ t <= 2 * LastRow
  <2>1. \A i \in I : i \in Nat /\ i <= LastRow
    BY <1>0, <1>3
  <2>2. 0 \in Methods!Rows
    BY <1>3
  <2> QED BY <1>0, <1>3, <2>1, <2>2
<1>7. Methods!MinOf(Methods!Rows) = 0 /\ Methods!MaxOf(Methods!Rows) = 2 * LastRow
  BY <1>0, <1>6, MinIs, MaxIs
<1> QED BY <1>0, <1>3, <1>4, <1>5, <1>7

(* The grid has all the rows of complete data.                             *)
LEMMA SyntheticGroup ==
  ASSUME Held, held # {}, Methods!SyntheticWindow(held), frequency = 2
  PROVE  Methods!Positions = 0 .. LastRow /\ \A p \in Methods!Positions : Methods!At(p) = 2 * p
<1>1. LastRow \in Nat /\ Methods!MinOf(Methods!Rows) = 0 /\ Methods!MaxOf(Methods!Rows) = 2 * LastRow
  BY SyntheticRows, MethodsAssumption
<1>2. (2 * LastRow - 0) \div 2 = LastRow
  BY <1>1
<1>3. Methods!Positions = 0 .. LastRow
  BY <1>1, <1>2 DEF Methods!Positions, Methods!Grid
<1> QED BY <1>1, <1>3 DEF Methods!At

(* What is missing has values on both sides, and is short enough.          *)
LEMMA SyntheticMissing ==
  ASSUME Held, held # {}, Methods!SyntheticWindow(held), frequency = 2,
         series = {p \in Methods!Positions : Methods!At(p) \in Methods!Valued}
  PROVE  /\ Methods!Missing \subseteq Methods!Eligible
         /\ \A p \in Methods!Missing : Methods!Linear(p) # {}
<1>0. LastRow \in Nat /\ MaxGap \in Nat
  BY MethodsAssumption
<1>1. PICK a, b \in 1 .. (LastRow - 1) : a <= b /\ b - a + 1 <= MaxGap /\ held = {2 * i : i \in a .. b}
  BY WindowShape
<1>2. a \in Nat /\ b \in Nat /\ 1 <= a /\ b < LastRow
  BY <1>0
<1>3. Methods!Positions = 0 .. LastRow /\ \A p \in Methods!Positions : Methods!At(p) = 2 * p
  BY SyntheticGroup
<1>4. Methods!Valued = {t \in Methods!RowTimes : t \notin held}
  BY HeldRows DEF Methods!SyntheticWindow
<1>5. Methods!Missing = a .. b
  <2>1. \A p \in 0 .. LastRow : 2 * p \in Methods!RowTimes
    BY DEF Methods!RowTimes
  <2>2. Methods!Missing = {p \in 0 .. LastRow : 2 * p \in held}
    BY <1>3, <1>4, <2>1 DEF Methods!Missing
  <2>3. \A p \in 0 .. LastRow : 2 * p \in held <=> p \in a .. b
    BY <1>1, <1>2
  <2>4. \A p \in a .. b : p \in 0 .. LastRow
    BY <1>0, <1>2
  <2> QED BY <2>2, <2>3, <2>4
<1>6. <<a, b>> \in Methods!MissingRanges(Methods!Missing) /\ Methods!Extent(<<a, b>>) <= MaxGap
  <2>1. a \in Methods!Positions /\ b \in Methods!Positions
    BY <1>0, <1>2, <1>3
  <2>2. (a .. b) \cap {a - 1, b + 1} = {}
    BY <1>2
  <2> QED BY <1>1, <1>5, <2>1, <2>2 DEF Methods!MissingRanges, Methods!Extent
<1>7. Methods!Missing \subseteq Methods!Eligible
  BY <1>5, <1>6 DEF Methods!Eligible, Methods!Within
<1>8. 0 \in series /\ LastRow \in series
  <2>1. 0 \in Methods!Positions /\ LastRow \in Methods!Positions /\ 0 \notin Methods!Missing /\ LastRow \notin Methods!Missing
    BY <1>0, <1>2, <1>3, <1>5
  <2> QED BY <2>1 DEF Methods!Missing
<1>9. ASSUME NEW p \in Methods!Missing PROVE Methods!Linear(p) # {}
  <2>1. 0 < p /\ LastRow > p
    BY <1>0, <1>2, <1>5
  <2> QED BY <1>8, <2>1 DEF Methods!Linear
<1> QED BY <1>7, <1>9

(* A test begins.                                                          *)
LEMMA HoldoutInject ==
  ASSUME HoldoutInv, NEW w \in Methods!HoldoutWindows, NEW fault \in {"value_gap", "timestamp_gap"}, Methods!InjectFault(w, fault)
  PROVE  HoldoutInv'
<1>1. /\ UNCHANGED <<config, truth, verdict, step, frequency, cells, metric>>
      /\ step = "start" /\ held = {} /\ Methods!Plain /\ held' = w /\ rows' = Methods!Faulted(w, fault)
  BY DEF Methods!InjectFault
<1>2. verdict = "none" /\ w # {}
  BY <1>1 DEF HoldoutInv, Held, Methods!HoldoutWindows, Methods!Done
<1>3. Held'
  <2>1. Methods!Plain' /\ Methods!HoldoutWindows' = Methods!HoldoutWindows /\ Methods!Faulted(w, fault) = Methods!Faulted(held, fault)'
    BY <1>1 DEF Methods!Plain, Methods!HoldoutWindows, Methods!Faulted
  <2> QED BY <1>1, <1>2, <2>1 DEF Held
<1>4. Interpolates'
  BY <1>1, <1>2 DEF Interpolates, Filling, Before
<1> QED BY <1>3, <1>4 DEF HoldoutInv

(* The steps of a group leave a test as it is.                             *)
LEMMA HeldKept ==
  ASSUME HoldoutInv, UNCHANGED <<config, truth, held, rows, verdict>>, ~Methods!Done
  PROVE  /\ Held /\ Held' /\ verdict = "none"
         /\ Methods!SyntheticWindow(held)' <=> Methods!SyntheticWindow(held)
<1>1. Methods!Plain' = Methods!Plain /\ Methods!HoldoutWindows' = Methods!HoldoutWindows /\ \A fault : Methods!Faulted(held, fault)' = Methods!Faulted(held, fault)
  BY DEF Methods!Plain, Methods!HoldoutWindows, Methods!Faulted
<1>2. Methods!SyntheticWindow(held)' <=> Methods!SyntheticWindow(held)
  BY DEF Methods!SyntheticWindow
<1>3. Held /\ verdict = "none"
  BY DEF HoldoutInv, Held
<1> QED BY <1>1, <1>2, <1>3 DEF Held

(* Complete data has enough rows and a frequency.                          *)
LEMMA HoldoutFillGroup == HoldoutInv /\ Methods!FillGroup => HoldoutInv'
<1> SUFFICES ASSUME HoldoutInv, Methods!FillGroup PROVE HoldoutInv'
  OBVIOUS
<1>1. /\ UNCHANGED <<config, truth, held, rows, verdict>> /\ step = "start"
  BY DEF Methods!FillGroup
<1>2. Held /\ Held' /\ verdict = "none" /\ (Methods!SyntheticWindow(held)' <=> Methods!SyntheticWindow(held))
  BY <1>1, HeldKept DEF Methods!Done
<1>3. Interpolates'
  <2> SUFFICES ASSUME held # {}, Methods!SyntheticWindow(held) PROVE Interpolates'
    BY <1>1, <1>2 DEF Interpolates
  <2>1. Methods!Expand(2)
    BY <1>2, SyntheticRows, SameCardinality DEF Methods!FillGroup
  <2>2. frequency' = 2 /\ step' = "expanded"
    BY <2>1 DEF Methods!Expand
  <2> QED BY <1>1, <1>2, <2>2 DEF Interpolates, Filling, Before
<1> QED BY <1>2, <1>3 DEF HoldoutInv

(* A test looks for no artefacts.                                          *)
LEMMA HoldoutDetect == HoldoutInv /\ Methods!DetectAndRemoveArtefacts => HoldoutInv'
<1> SUFFICES ASSUME HoldoutInv, Methods!DetectAndRemoveArtefacts PROVE HoldoutInv'
  OBVIOUS
<1>1. UNCHANGED <<config, truth, held, rows, verdict, frequency>> /\ step = "expanded"
  BY DEF Methods!DetectAndRemoveArtefacts
<1>2. Held /\ Held' /\ verdict = "none" /\ (Methods!SyntheticWindow(held)' <=> Methods!SyntheticWindow(held))
  BY <1>1, HeldKept DEF Methods!Done
<1>3. held # {} => step' = "detected"
  BY <1>2 DEF Held, Methods!Plain, Methods!DetectAndRemoveArtefacts
<1>4. Interpolates'
  BY <1>1, <1>2, <1>3 DEF HoldoutInv, Interpolates, Filling, Before
<1> QED BY <1>2, <1>4 DEF HoldoutInv

(* Linear interpolation fills what is missing.                             *)
LEMMA HoldoutFillWith ==
  ASSUME FillInv, HoldoutInv, NEW candidate \in Methods!BuildFillCandidates, Methods!FillWith(candidate)
  PROVE  HoldoutInv'
<1>1. /\ UNCHANGED <<config, truth, held, rows, verdict, frequency, series>>
      /\ step = "detected" /\ step' = "filled"
      /\ cells' = [p \in Methods!Positions |-> IF p \in Methods!FillMask(candidate) THEN Methods!Filled(candidate[p]) ELSE cells[p]]
  BY DEF Methods!FillWith
<1>2. Held /\ Held' /\ verdict = "none" /\ (Methods!SyntheticWindow(held)' <=> Methods!SyntheticWindow(held))
  BY <1>1, HeldKept DEF Methods!Done
<1>3. Interpolates'
  <2> SUFFICES ASSUME held # {}, Methods!SyntheticWindow(held), config.method = "linear" PROVE Interpolates'
    BY <1>1, <1>2 DEF Interpolates
  <2>1. frequency = 2
    BY <1>1 DEF HoldoutInv, Interpolates, Filling
  <2>2. series = {p \in Methods!Positions : Methods!At(p) \in Methods!Valued} /\ filled = {}
    BY <1>1, <1>2 DEF FillInv, Observes, Listed, Held, Methods!Plain, Filling, Before
  <2>3. Methods!Missing \subseteq Methods!Eligible /\ \A p \in Methods!Missing : Methods!Linear(p) # {}
    BY <1>2, <2>1, <2>2, SyntheticMissing
  <2>4. \A p \in Methods!Missing : candidate[p] = Methods!Linear(p)
    BY DEF Methods!BuildFillCandidates, Methods!SimpleCandidate, Methods!Donated, Methods!Missing
  <2>5. \A p \in Methods!Missing : p \in Methods!FillMask(candidate)
    BY <2>3, <2>4 DEF Methods!FillMask
  <2>6. \A p \in Methods!Positions \ Methods!Missing : cells[p] = Methods!Own
    BY <1>1, <1>2, <2>2 DEF FillInv, Unlisted, FromRow, Methods!Missing, Filling, Held, Methods!Plain
  <2>7. \A p \in Methods!Positions : cells'[p] # Methods!Empty
    BY <1>1, <2>5, <2>6 DEF Methods!Own, Methods!Empty, Methods!Filled
  <2>8. Methods!Positions' = Methods!Positions
    BY <1>1, SameGroup
  <2> QED BY <1>1, <1>2, <2>1, <2>7, <2>8 DEF Interpolates, Filling, Before
<1> QED BY <1>2, <1>3 DEF HoldoutInv

(* A test sets no option, so that nothing else happens to the copy.        *)
LEMMA HoldoutRefine == HoldoutInv /\ (Methods!GMMFallback \/ Methods!IterativeRefine) => HoldoutInv'
<1> SUFFICES ASSUME HoldoutInv, Methods!GMMFallback \/ Methods!IterativeRefine PROVE HoldoutInv'
  OBVIOUS
<1>1. /\ UNCHANGED <<config, truth, held, rows, verdict, frequency, series>>
      /\ step \in {"filled", "fallen back"} /\ step' \in {"fallen back", "refined"}
  BY DEF Methods!GMMFallback, Methods!IterativeRefine
<1>2. Held /\ Held' /\ verdict = "none" /\ (Methods!SyntheticWindow(held)' <=> Methods!SyntheticWindow(held))
  BY <1>1, HeldKept DEF Methods!Done
<1>3. Methods!Positions' = Methods!Positions
  BY <1>1, SameGroup
<1>4. held # {} => \A p \in Methods!Positions : cells'[p] = cells[p]
  BY <1>2 DEF Held, Methods!Plain, Methods!GMMFallback, Methods!IterativeRefine
<1>5. Interpolates'
  BY <1>1, <1>2, <1>3, <1>4 DEF HoldoutInv, Interpolates, Filling, Before
<1> QED BY <1>2, <1>5 DEF HoldoutInv

(* Nothing is left to fill.                                                *)
LEMMA HoldoutMeasure == HoldoutInv /\ Figures /\ Methods!Measure => HoldoutInv'
<1> SUFFICES ASSUME HoldoutInv, Figures, Methods!Measure PROVE HoldoutInv'
  OBVIOUS
<1>1. /\ UNCHANGED <<config, truth, held, rows, verdict, frequency, series, cells>>
      /\ step = "refined" /\ step' = "ok"
      /\ metric' = [metric EXCEPT !.after = Methods!Cardinality({p \in Methods!Positions : cells[p] = Methods!Empty}),
                                  !.filled = Methods!Cardinality(filled)]
  BY DEF Methods!Measure
<1>2. Held /\ Held' /\ verdict = "none" /\ (Methods!SyntheticWindow(held)' <=> Methods!SyntheticWindow(held))
  BY <1>1, HeldKept DEF Methods!Done
<1>3. Methods!Positions' = Methods!Positions
  BY <1>1, SameGroup
<1>4. (\A p \in Methods!Positions : cells[p] # Methods!Empty) => metric'.after = 0
  <2> SUFFICES ASSUME \A p \in Methods!Positions : cells[p] # Methods!Empty PROVE metric'.after = 0
    OBVIOUS
  <2>1. {p \in Methods!Positions : cells[p] = Methods!Empty} = {}
    OBVIOUS
  <2>2. \A m, a, b : "after" \in DOMAIN m => [m EXCEPT !.after = a, !.filled = b].after = a
    OBVIOUS
  <2>3. metric'.after = Methods!Cardinality({p \in Methods!Positions : cells[p] = Methods!Empty})
    BY <1>1, <2>2 DEF Figures
  <2> QED BY <2>1, <2>3, FS_EmptySet, SameCardinality
<1>5. Interpolates'
  BY <1>1, <1>2, <1>3, <1>4 DEF HoldoutInv, Interpolates, Filling, Before
<1> QED BY <1>2, <1>5 DEF HoldoutInv

(* The verdict is about what was removed.                                  *)
LEMMA HoldoutCalculate == HoldoutInv /\ Methods!CalculateError => HoldoutInv'
<1> SUFFICES ASSUME HoldoutInv, Methods!CalculateError PROVE HoldoutInv'
  OBVIOUS
<1>1. /\ UNCHANGED <<config, truth, held, rows, step, frequency, series, cells, metric>>
      /\ Methods!Done /\ held # {} /\ verdict = "none"
      /\ verdict' = IF Methods!Compared = held /\ metric.after = 0 THEN "passed" ELSE "failed"
  BY DEF Methods!CalculateError
<1>2. /\ Methods!Plain' = Methods!Plain /\ Methods!HoldoutWindows' = Methods!HoldoutWindows /\ Methods!Done' = Methods!Done
      /\ \A fault : Methods!Faulted(held, fault)' = Methods!Faulted(held, fault)
      /\ Methods!SyntheticWindow(held)' <=> Methods!SyntheticWindow(held)
  BY <1>1 DEF Methods!Plain, Methods!HoldoutWindows, Methods!Faulted, Methods!SyntheticWindow, Methods!Done
<1>3. Methods!Positions' = Methods!Positions /\ (\A p : Methods!At(p)' = Methods!At(p)) /\ Methods!Valued' = Methods!Valued
  BY <1>1, SameGroup
<1>4. Methods!Compared' = Methods!Compared
  BY <1>1, <1>3 DEF Methods!Compared, Methods!Copied
<1>5. Held'
  BY <1>1, <1>2, <1>4 DEF HoldoutInv, Held
<1>6. ASSUME config.method = "linear", Methods!SyntheticWindow(held) PROVE verdict' # "failed"
  <2>1. /\ step = "ok" /\ frequency = 2 /\ metric.after = 0
        /\ \A p \in Methods!Positions : cells[p] # Methods!Empty
    BY <1>1, <1>6 DEF HoldoutInv, Interpolates, Methods!Done, Filling, Before
  <2>2. Methods!Positions = 0 .. LastRow /\ \A p \in Methods!Positions : Methods!At(p) = 2 * p
    BY <1>1, <1>6, <2>1, SyntheticGroup DEF HoldoutInv
  <2>3. held \subseteq Methods!RowTimes
    BY <1>1, <1>6 DEF HoldoutInv, Held, Methods!HoldoutWindows, Methods!SyntheticWindow
  <2>4. \A t \in held : \E p \in Methods!Positions : Methods!At(p) = t
    BY <2>2, <2>3 DEF Methods!RowTimes
  <2>5. Methods!Compared = held
    BY <2>1, <2>4 DEF Methods!Compared, Methods!Copied
  <2> QED BY <1>1, <2>1, <2>5
<1>7. Interpolates'
  BY <1>1, <1>2, <1>3, <1>6 DEF HoldoutInv, Interpolates, Filling, Before
<1> QED BY <1>5, <1>7 DEF HoldoutInv

(* Every step keeps it.                                                    *)
LEMMA HoldoutStep == FillInv /\ HoldoutInv /\ Figures /\ [Methods!Next]_(Methods!vars) => HoldoutInv'
<1> SUFFICES ASSUME FillInv, HoldoutInv, Figures, [Methods!Next]_(Methods!vars) PROVE HoldoutInv'
  OBVIOUS
<1>1. CASE UNCHANGED Methods!vars
  <2>1. UNCHANGED <<config, truth, held, rows, step, frequency, series, cells, metric, verdict>>
    BY <1>1 DEF Methods!vars
  <2>2. /\ Methods!Plain' = Methods!Plain /\ Methods!HoldoutWindows' = Methods!HoldoutWindows /\ Methods!Done' = Methods!Done
        /\ \A fault : Methods!Faulted(held, fault)' = Methods!Faulted(held, fault)
        /\ Methods!SyntheticWindow(held)' <=> Methods!SyntheticWindow(held)
    BY <2>1 DEF Methods!Plain, Methods!HoldoutWindows, Methods!Faulted, Methods!SyntheticWindow, Methods!Done
  <2>3. Methods!Positions' = Methods!Positions /\ (\A p : Methods!At(p)' = Methods!At(p)) /\ Methods!Valued' = Methods!Valued
    BY <2>1, SameGroup
  <2>4. Methods!Compared' = Methods!Compared
    BY <2>1, <2>3 DEF Methods!Compared, Methods!Copied
  <2>5. Held'
    BY <2>1, <2>2, <2>4 DEF HoldoutInv, Held
  <2>6. Interpolates'
    BY <2>1, <2>2, <2>3 DEF HoldoutInv, Interpolates, Filling, Before
  <2> QED BY <2>5, <2>6 DEF HoldoutInv
<1> QED BY <1>1, HoldoutInject, HoldoutFillGroup, HoldoutDetect, HoldoutFillWith, HoldoutRefine,
           HoldoutMeasure, HoldoutCalculate DEF Methods!Next

(* A test is honest.                                                       *)
LEMMA HoldoutShows == FillInv /\ HoldoutInv => Methods!HoldoutHonest
<1> SUFFICES ASSUME FillInv, HoldoutInv PROVE Methods!HoldoutHonest
  OBVIOUS
<1>1. ASSUME verdict = "passed", NEW t \in held
      PROVE  \E p \in filled : Methods!At(p) = t /\ \A q \in cells[p].from : Methods!At(q) \notin held
  <2>1. Methods!Copied(t) /\ held # {} /\ Held /\ ~config.artefacts
    BY <1>1 DEF HoldoutInv, Held, Methods!Compared, Methods!Plain
  <2>2. Methods!Valued \cap held = {}
    BY <2>1, HeldRows
  <2>3. step = "ok"
    BY <2>1, <2>2 DEF Methods!Copied
  <2>4. PICK p \in Methods!Positions : Methods!At(p) = t /\ cells[p] # Methods!Empty
    BY <2>1, <2>3 DEF Methods!Copied
  <2>5. p \in filled
    BY <2>1, <2>2, <2>3, <2>4 DEF FillInv, Unlisted, FromRow, Filling
  <2>6. \A q \in cells[p].from : Methods!At(q) \in Methods!Valued
    BY <2>3, <2>5 DEF FillInv, Listed, Observes, Filling
  <2> QED BY <2>2, <2>4, <2>5, <2>6
<1>2. ASSUME verdict = "failed", config.method = "linear" PROVE ~Methods!SyntheticWindow(held)
  BY <1>2 DEF HoldoutInv, Held, Interpolates
<1> QED BY <1>1, <1>2 DEF Methods!HoldoutHonest

(* A group as its run checks it, where step stays "none" unless one is     *)
(* filled.                                                                 *)
MCInv == step = "none" \/ (FillInv /\ HoldoutInv /\ Figures)

LEMMA MCInvariant == MCSpec => []MCInv
<1>1. MCInit => MCInv
  BY FillInit, HoldoutInit DEF MCInit, MCInv, Methods!Init, Methods!NoMetric, Figures
<1>2. MCInv /\ [MCNext]_<<vars, group>> => MCInv'
  <2> SUFFICES ASSUME MCInv, [MCNext]_<<vars, group>> PROVE MCInv'
    OBVIOUS
  <2>1. CASE UNCHANGED group
    <3>1. UNCHANGED Methods!vars /\ UNCHANGED step
      BY <2>1 DEF group, Methods!vars
    <3> QED BY <3>1, FillStep, HoldoutStep, FiguresStep DEF MCInv
  <2>2. CASE step # "none" /\ Methods!Next
    BY <2>2, FillStep, HoldoutStep, FiguresStep DEF MCInv
  <2> QED BY <2>1, <2>2 DEF MCNext
<1> QED BY <1>1, <1>2, PTL DEF MCSpec

(* For any rows, method and options: a position of the copy that is not    *)
(* listed as filled has the value of its row, or none if the row has none, *)
(* unless artefacts are refined.                                           *)
THEOREM CopyKeepsTheRest == MCSpec => []UnlistedIsUntouched
<1>1. MCInv => UnlistedIsUntouched
  BY FillShows DEF MCInv, UnlistedIsUntouched
<1> QED BY <1>1, MCInvariant, PTL

(* What is filled in lies in a gap of at most the limit, and is made of    *)
(* values that were observed at other times.                               *)
THEOREM FillsAreObserved == MCSpec => []FillsFromObservations
<1>1. MCInv => FillsFromObservations
  BY FillShows DEF MCInv, FillsFromObservations
<1> QED BY <1>1, MCInvariant, PTL

(* A holdout test that passes has compared every value that it removed     *)
(* with one filled in without it; and with linear interpolation, a short   *)
(* window within complete data always passes.                              *)
THEOREM TestsAreHonest == MCSpec => []HoldoutHonest
<1>1. MCInv => HoldoutHonest
  BY HoldoutShows DEF MCInv, HoldoutHonest
<1> QED BY <1>1, MCInvariant, PTL


=============================================================================
