---------------------------- MODULE GapfillMethods ----------------------------
(***************************************************************************)
(* scripts/lib/gapfiller/core.py fill_group for one group of rows and one  *)
(* value column, from the rows of the source to the rows of the copy, and  *)
(* the holdout tests that remove known values and compare what comes back. *)
(*                                                                         *)
(* A value is abstracted to where it comes from: a cell is empty, has the  *)
(* value of its source row, or one computed from those of other times.     *)
(* What depends on the numbers (which linear stretches look like           *)
(* artefacts, which donor scores best) is a free choice.                   *)
(***************************************************************************)
EXTENDS Integers, FiniteSets

CONSTANTS
  Last,       \* source rows come at steps 0 .. Last of the series
  MinPoints,  \* min_points
  MaxGap,     \* max_gap_periods
  Context,    \* donor_context_periods
  Period,     \* period, in half steps
  Radius,     \* donor_search_radius, in half steps
  HalfWindow  \* artefact_window \div 2

(* Times count half steps, so that the mean of two distances is whole.     *)
RowTimes == {2 * i : i \in 0 .. Last}

VARIABLES
  config,     \* method and options
  truth,      \* the source: of each time that has a row, if it has a value
  held,       \* the times whose values a holdout test has removed
  source,     \* the rows that are filled
  step,
  frequency,
  series,     \* the column without artefacts: the observed positions
  cells,      \* the column of the copy
  filled,     \* the positions listed in gapfill_filled_columns
  metric,
  verdict     \* of a holdout test

vars == <<config, truth, held, source, step, frequency, series, cells, filled, metric, verdict>>

Methods == {"linear", "previous_period", "seasonal_linear", "donor_match", "donor_refined"}
Donated == {"donor_match", "donor_refined"}

(* Artefact detection, fallback and iterative refinement are options of    *)
(* the library that only apply to the donor methods.                       *)
Options(method) ==
  {o \in [artefacts : BOOLEAN, gmm : BOOLEAN, refinement : BOOLEAN] :
     /\ method \notin Donated => ~o.artefacts /\ ~o.gmm
     /\ method # "donor_refined" => ~o.refinement}

MinOf(S) == CHOOSE x \in S : \A y \in S : x <= y
MaxOf(S) == CHOOSE x \in S : \A y \in S : y <= x

-----------------------------------------------------------------------------
(* The median of the distances between consecutive rows.                   *)
Distances(rows) ==
  [t \in rows \ {MaxOf(rows)} |-> MinOf({u \in rows : u > t}) - t]

Ranked(f, k) ==
  CHOOSE d \in {f[t] : t \in DOMAIN f} :
    /\ Cardinality({t \in DOMAIN f : f[t] < d}) <= k
    /\ Cardinality({t \in DOMAIN f : f[t] <= d}) > k

Median(f) ==
  LET n == Cardinality(DOMAIN f)
  IN  (Ranked(f, (n - 1) \div 2) + Ranked(f, n \div 2)) \div 2

InferFrequency(rows) == IF Cardinality(rows) < 2 THEN 0 ELSE Median(Distances(rows))

Rows      == DOMAIN source
Valued    == {t \in Rows : source[t]}
Grid(f)   == 0 .. ((MaxOf(Rows) - MinOf(Rows)) \div f)
Positions == Grid(frequency)
At(p)     == MinOf(Rows) + p * frequency

Empty         == [is |-> "empty", from |-> {}]
Own           == [is |-> "own", from |-> {}]
Filled(from)  == [is |-> "filled", from |-> from]

(* The nearest number of steps, the even one of two.                       *)
Steps(delta) ==
  LET q == delta \div frequency
      r == delta % frequency
  IN  IF 2 * r < frequency \/ (2 * r = frequency /\ q % 2 = 0) THEN q ELSE q + 1

(* The stretches of positions without a value, and those short enough.     *)
MissingRanges(mask) ==
  {g \in Positions \X Positions :
     g[1] <= g[2] /\ g[1] .. g[2] \subseteq mask /\ mask \cap {g[1] - 1, g[2] + 1} = {}}

Extent(g)  == g[2] - g[1] + 1
Within(gs) == UNION {g[1] .. g[2] : g \in gs}

Missing == Positions \ series

Eligible == Within({g \in MissingRanges(Missing) : Extent(g) <= MaxGap})

-----------------------------------------------------------------------------
(* Candidates: for each position the observed ones its value is made of,   *)
(* none if it has no candidate.                                            *)
Linear(p) ==
  LET before == {q \in series : q < p}
      after  == {q \in series : q > p}
  IN  IF before = {} \/ after = {} THEN {} ELSE {MaxOf(before), MinOf(after)}

PreviousPeriod(p) == {q \in series : At(q) = At(p) - Period}

CombineFirst(a, b) == IF a = {} THEN b ELSE a

SimpleCandidate(p) ==
  CASE config.method = "linear"          -> Linear(p)
    [] config.method = "previous_period" -> CombineFirst(PreviousPeriod(p), Linear(p))
    [] config.method = "seasonal_linear" ->
         IF PreviousPeriod(p) # {} /\ Linear(p) # {} THEN PreviousPeriod(p) \cup Linear(p)
         ELSE CombineFirst(PreviousPeriod(p), Linear(p))

(* The segments that may stand in for a gap: in the radius or a period     *)
(* away, clear of the gap and its context, and without a hole.             *)
DonorStarts(g) ==
  LET radius == IF Steps(Radius) = 0 THEN Cardinality(Positions) ELSE Steps(Radius)
      away(s) == IF s < g[1] THEN g[1] - s ELSE s - g[1]
  IN  {s \in Positions : s + Extent(g) - 1 \in Positions
                           /\ (away(s) <= radius \/ (Steps(Period) > 0 /\ away(s) = Steps(Period)))}

Segment(g, s) == s .. (s + Extent(g) - 1)
Around(g)     == {p \in Positions : g[1] - Context <= p /\ p <= g[2] + Context}

IsValidDonor(g, s) == Segment(g, s) \cap Around(g) = {} /\ Segment(g, s) \subseteq series

Donors(g) == {s \in DonorStarts(g) : IsValidDonor(g, s)}

(* Whichever scores best; 0 - 1 for none.                                  *)
Chosen(g) == IF Donors(g) = {} THEN {-1} ELSE Donors(g)

(* A refined segment is fitted to what is known around the gap.            *)
Donation(g, s, p) ==
  IF s = -1 THEN {}
  ELSE IF config.method = "donor_match" THEN {s + p - g[1]}
  ELSE Segment(g, s) \cup (Around(g) \cap series)

Gaps == MissingRanges(Eligible)

DonorCandidates ==
  LET starts == UNION {Chosen(g) : g \in Gaps}
  IN  {[p \in Positions |-> UNION {Donation(g, c[g], p) : g \in {h \in Gaps : p \in h[1] .. h[2]}}] :
         c \in {d \in [Gaps -> starts] : \A g \in Gaps : d[g] \in Chosen(g)}}

BuildFillCandidates ==
  IF config.method \in Donated THEN DonorCandidates
  ELSE {[p \in Positions |-> IF p \in Missing THEN SimpleCandidate(p) ELSE {}]}

-----------------------------------------------------------------------------
NoMetric == [before |-> 0, after |-> 0, filled |-> 0, created |-> 0]

(* A group as fill_table hands it over: sorted, without times that are     *)
(* unknown or come twice.                                                  *)
Init ==
  /\ \E method \in Methods : \E o \in Options(method) :
       config = [method |-> method, artefacts |-> o.artefacts, gmm |-> o.gmm,
                 refinement |-> o.refinement]
  /\ \E rows \in SUBSET RowTimes : rows # {} /\ truth \in [rows -> BOOLEAN]
  /\ held = {} /\ source = truth
  /\ step = "start" /\ frequency = 0
  /\ series = {} /\ cells = <<>> /\ filled = {}
  /\ metric = NoMetric
  /\ verdict = "none"

TypeOK ==
  /\ held \subseteq DOMAIN truth
  /\ Rows \subseteq DOMAIN truth
  /\ step \in {"start", "expanded", "detected", "filled", "fallen back", "refined",
               "ok", "skipped_insufficient_points", "skipped_no_frequency", "failed"}
  /\ frequency \in Nat
  /\ step \notin {"start", "skipped_insufficient_points"} /\ frequency > 0 =>
       /\ series \cup filled \subseteq Positions
       /\ \A p \in DOMAIN cells : cells[p].from \subseteq Positions
  /\ verdict \in {"none", "passed", "failed"}

-----------------------------------------------------------------------------
(* Holdout tests use the table's configuration, which sets no option.      *)
Plain == ~config.artefacts /\ ~config.gmm /\ ~config.refinement

(* The rows from the first at or after the start on, all with values.  On  *)
(* synthetic data there is a row without a fault on either side.           *)
HoldoutWindows ==
  {w \in SUBSET DOMAIN truth :
     /\ w # {} /\ Cardinality(w) <= MaxGap
     /\ \A t \in DOMAIN truth : MinOf(w) <= t /\ t <= MaxOf(w) => t \in w
     /\ \A t \in w : truth[t]}

SyntheticWindow(w) ==
  /\ DOMAIN truth = RowTimes
  /\ \A t \in RowTimes : truth[t]
  /\ MinOf(w) > 0 /\ MaxOf(w) < 2 * Last

(* For mutation: the last of the values stays.                             *)
FaultedButLast(w, fault) ==
  [t \in DOMAIN truth |-> truth[t] /\ t \notin w \ {MaxOf(w)}]

Faulted(w, fault) ==
  IF fault = "timestamp_gap" THEN [t \in DOMAIN truth \ w |-> truth[t]]
  ELSE [t \in DOMAIN truth |-> truth[t] /\ t \notin w]

InjectFault(w, fault) ==
  /\ step = "start" /\ held = {} /\ Plain
  /\ held' = w
  /\ source' = Faulted(w, fault)
  /\ UNCHANGED <<config, truth, step, frequency, series, cells, filled, metric, verdict>>

-----------------------------------------------------------------------------
(* Too few rows are passed on as they are.                                 *)
Skip(status) ==
  /\ step' = status
  /\ metric' = [NoMetric EXCEPT !.before = Cardinality(Rows \ Valued),
                                !.after = Cardinality(Rows \ Valued)]
  /\ UNCHANGED <<frequency, series, cells>>

(* A regular index from the first row to the last.  A row that does not    *)
(* lie on it is left out.                                                  *)
Expand(f) ==
  LET at(p)   == MinOf(Rows) + p * f
      own(p)  == at(p) \in Valued
  IN  /\ step' = "expanded"
      /\ frequency' = f
      /\ series' = {p \in Grid(f) : own(p)}
      /\ cells' = [p \in Grid(f) |-> IF own(p) THEN Own ELSE Empty]
      /\ metric' = [NoMetric EXCEPT !.before = Cardinality({p \in Grid(f) : ~own(p)}),
                                    !.created = Cardinality({p \in Grid(f) : at(p) \notin Rows})]

FillGroup ==
  /\ step = "start"
  /\ LET f == InferFrequency(Rows)
     IN  IF Cardinality(Rows) < MinPoints THEN Skip("skipped_insufficient_points")
         ELSE IF f = 0 THEN Skip("skipped_no_frequency")
         ELSE Expand(f)
  /\ UNCHANGED <<config, truth, held, source, filled, verdict>>

(* Stretches of more than an hour, here two steps, that a line fits too    *)
(* well lose their values, but the copy keeps what is not filled later.    *)
Artefacts(S) == \A g \in MissingRanges(S) : Extent(g) >= 2

(* The rolling window needs more rows than its half.                       *)
TooShort == Cardinality(Positions) <= HalfWindow

DetectAndRemoveArtefacts ==
  /\ step = "expanded"
  /\ IF ~config.artefacts THEN step' = "detected" /\ UNCHANGED series
     ELSE IF TooShort THEN step' = "failed" /\ UNCHANGED series
     ELSE /\ \E S \in SUBSET Positions : Artefacts(S) /\ series' = series \ S
          /\ step' = "detected"
  /\ UNCHANGED <<config, truth, held, source, frequency, cells, filled, metric, verdict>>

(* The positions that are missing, eligible and have a candidate.          *)
FillMask(candidate) == {p \in Missing \cap Eligible : candidate[p] # {}}

FillWith(candidate) ==
  /\ step = "detected"
  /\ filled' = FillMask(candidate)
  /\ cells' = [p \in Positions |-> IF p \in filled' THEN Filled(candidate[p]) ELSE cells[p]]
  /\ step' = "filled"
  /\ UNCHANGED <<config, truth, held, source, frequency, series, metric, verdict>>

(* The mean of what is observed, or zero if nothing is.                    *)
StillEligible == {p \in Eligible : cells[p] = Empty}

(* For mutation: only the first fill is recorded.                          *)
NotRecorded(S) == filled

Recorded(S) == filled \cup S

GMMFallback ==
  /\ step = "filled"
  /\ IF config.gmm
     THEN /\ cells' = [p \in Positions |-> IF p \in StillEligible THEN Filled(series) ELSE cells[p]]
          /\ filled' = Recorded(StillEligible)
     ELSE UNCHANGED <<cells, filled>>
  /\ step' = "fallen back"
  /\ UNCHANGED <<config, truth, held, source, frequency, series, metric, verdict>>

(* If anything is filled, the stretches that were to be filled are made    *)
(* less conspicuous, the ones that keep an artefact as well: its values    *)
(* change or are lost.                                                     *)
IterativeRefine ==
  /\ step = "fallen back"
  /\ \E changed \in SUBSET {p \in Missing \cap Eligible : cells[p] = Own} :
       /\ changed # {} => config.refinement /\ filled # {}
       /\ \E lost \in SUBSET changed :
            cells' = [p \in Positions |-> IF p \in lost THEN Empty
                                          ELSE IF p \in changed THEN Filled({p}) ELSE cells[p]]
  /\ step' = "refined"
  /\ UNCHANGED <<config, truth, held, source, frequency, series, filled, metric, verdict>>

Measure ==
  /\ step = "refined"
  /\ step' = "ok"
  /\ metric' = [metric EXCEPT !.after = Cardinality({p \in Positions : cells[p] = Empty}),
                              !.filled = Cardinality(filled)]
  /\ UNCHANGED <<config, truth, held, source, frequency, series, cells, filled, verdict>>

(* The value that the copy has at the time of a row, if any.               *)
Copied(t) ==
  IF step = "ok" THEN \E p \in Positions : At(p) = t /\ cells[p] # Empty
  ELSE t \in Valued

Compared == {t \in held : Copied(t)}

Done == step \in {"ok", "skipped_insufficient_points", "skipped_no_frequency"}

CalculateError ==
  /\ Done /\ held # {} /\ verdict = "none"
  /\ verdict' = IF Compared = held /\ metric.after = 0 THEN "passed" ELSE "failed"
  /\ UNCHANGED <<config, truth, held, source, step, frequency, series, cells, filled, metric>>

Next ==
  \/ \E w \in HoldoutWindows, fault \in {"value_gap", "timestamp_gap"} : InjectFault(w, fault)
  \/ FillGroup
  \/ DetectAndRemoveArtefacts
  \/ step = "detected" /\ \E candidate \in BuildFillCandidates : FillWith(candidate)
  \/ GMMFallback
  \/ IterativeRefine
  \/ Measure
  \/ CalculateError

Spec == Init /\ [][Next]_vars

-----------------------------------------------------------------------------
(* What the copy does not list as filled is as in the source, at the same  *)
(* time: a value with its value, a gap as a gap.  Iterative refinement of  *)
(* artefacts is excepted: it changes values without listing them.          *)
UnlistedIsUntouched ==
  step = "ok" /\ ~(config.artefacts /\ config.refinement) =>
    \A p \in Positions \ filled : cells[p] = (IF At(p) \in Valued THEN Own ELSE Empty)

(* A value that is filled in belongs to a gap of a bounded length and is   *)
(* computed from values that were observed on other times of the group,    *)
(* none of which is filled itself; without any, the fallback makes one up. *)
FillsFromObservations ==
  step = "ok" =>
    \A p \in filled :
      /\ cells[p].is = "filled"
      /\ cells[p].from \subseteq series \ {p}
      /\ series # {} => cells[p].from # {}
      /\ \E g \in MissingRanges(Missing) : p \in g[1] .. g[2] /\ Extent(g) <= MaxGap

(* A test that has passed has compared values that were filled in, without *)
(* the help of those it removed; and linear interpolation passes on        *)
(* complete synthetic data.                                                *)
HoldoutHonest ==
  /\ verdict = "passed" =>
       \A t \in held : \E p \in filled :
         At(p) = t /\ \A q \in cells[p].from : At(q) \notin held
  /\ verdict = "failed" /\ config.method = "linear" => ~SyntheticWindow(held)

=============================================================================
