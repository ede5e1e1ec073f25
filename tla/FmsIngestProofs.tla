--------------------------- MODULE FmsIngestProofs ---------------------------
(***************************************************************************)
(* Proofs about FmsIngest, for any packages, services, tasks and revisions:*)
(* a package that is loaded while nobody else loads one is loaded whole,   *)
(* and takes no revision back.                                             *)
(***************************************************************************)
EXTENDS FmsIngest, WellFoundedInduction, TLAPS

USE FmsAssumption

Stored(m) == [1 .. Lines[m] -> Stamps]

(* A file is empty, or holds what the publisher had at some time.          *)
Honest(m, c) ==
  \/ c = <<>>
  \/ c \in Stored(m) /\ \A i \in 1 .. Lines[m] : c[i] <= published[<<m, i>>]

Loading == {"store", "open", "gone", "line"}

(* Nothing is ever ahead of the publisher.                                 *)
NeverAhead ==
  /\ \A r \in Rows : table[r] <= published[r]
  /\ \A r \in Rows : published[r] <= clock
  /\ \A m \in Months : disk[m] = None \/ Honest(m, disk[m])
  /\ \A p \in Procs : pc[p] \in Loading =>
       /\ Month(p) \in Months
       /\ Honest(Month(p), local[p].fetched) /\ Honest(Month(p), local[p].held)
  /\ \A p \in Procs : pc[p] \notin Loading => local[p].held = <<>>

(* A name that a run has of its file is there, and only while it loads.    *)
NamesAreThere ==
  \A p \in Procs : local[p].linked => pc[p] \in Loading /\ disk[Month(p)] # None

(* Of a run that is alone: what it has fetched is in its file and not      *)
(* older than the table, and the lines it has passed are in the table.     *)
Passed(p, i) ==
  LET u == local[p].fetched[i] IN
  u # 0 /\ Selects(p, u) => table[<<Month(p), i>>] = u

AloneHolds ==
  \A p \in Procs : local[p].alone =>
    /\ pc[p] \in Loading
    /\ \A q \in Procs \ {p} : pc[q] \in {"idle", "post"}
    /\ local[p].fetched \in Stored(Month(p))
    /\ \A i \in 1 .. Lines[Month(p)] : table[<<Month(p), i>>] <= local[p].fetched[i]
    /\ pc[p] = "store" => local[p].linked
    /\ pc[p] = "open" => disk[Month(p)] = local[p].fetched
    /\ pc[p] = "line" =>
         /\ View(p) = local[p].fetched
         /\ \A i \in 1 .. Lines[Month(p)] : i < local[p].next => Passed(p, i)

FromTheStart == \A p \in Procs : local[p].next >= 1 /\ (pc[p] # "line" => local[p].next = 1)

Inv == TypeOK /\ NeverAhead /\ NamesAreThere /\ AloneHolds /\ FromTheStart

-----------------------------------------------------------------------------
(* The truth values, as a set that the provers need not look into.         *)
Truths == BOOLEAN

LocalType ==
  [task : Task, todo : SUBSET Months, month : Months \cup {0},
   fetched : Contents, held : Contents, linked : Truths, next : Nat,
   last : Stamps, create : Truths, alone : Truths]

PlaceType == {"idle", "fetch", "store", "open", "gone", "line", "post"}

LEMMA TruthsAre == TRUE \in Truths /\ FALSE \in Truths
  BY DEF Truths

LEMMA TypesAre ==
  TypeOK <=> /\ clock \in Stamps /\ published \in [Rows -> Stamps]
             /\ exists \in Truths /\ keyed \in Truths /\ table \in [Rows -> Stamps]
             /\ disk \in [Months -> Contents \cup {None}]
             /\ pc \in [Procs -> PlaceType] /\ local \in [Procs -> LocalType]
  BY DEF TypeOK, LocalType, PlaceType, Truths

LEMMA TypesStay ==
  TypeOK' <=> /\ clock' \in Stamps /\ published' \in [Rows -> Stamps]
              /\ exists' \in Truths /\ keyed' \in Truths /\ table' \in [Rows -> Stamps]
              /\ disk' \in [Months -> Contents \cup {None}]
              /\ pc' \in [Procs -> PlaceType] /\ local' \in [Procs -> LocalType]
  BY DEF TypeOK, LocalType, PlaceType, Truths

(* The content of a package, as a sequence.                                *)
LEMMA StoredIsContent ==
  ASSUME NEW m \in Months, NEW c \in Stored(m)
  PROVE  /\ c \in Contents /\ c \in Seq(Nat) /\ c # None
         /\ Len(c) = Lines[m] /\ Lines[m] \in Nat
         /\ \A i \in 1 .. Lines[m] : c[i] \in Stamps /\ <<m, i>> \in Rows
<1>1. Lines[m] \in Nat /\ Stamps \subseteq Nat
  BY DEF Stamps
<1>2. c \in [1 .. Lines[m] -> Nat]
  BY <1>1 DEF Stored
<1>3. c \in Seq(Nat) /\ Len(c) = Lines[m]
  BY <1>1, <1>2
<1>4. c \in Contents
  BY DEF Contents, Stored
<1>5. \A i \in 1 .. Lines[m] : c[i] \in Stamps /\ <<m, i>> \in Rows
  BY DEF Stored, Rows
<1> QED BY <1>1, <1>3, <1>4, <1>5

LEMMA RowsAre == ASSUME NEW m \in Months, NEW i \in 1 .. Lines[m] PROVE <<m, i>> \in Rows
  BY DEF Rows

LEMMA EmptyIsContent == <<>> \in Contents /\ <<>> # None
<1>1. <<>> \in Seq(Nat)
  OBVIOUS
<1>2. <<>> \in {<<>>}
  OBVIOUS
<1> QED BY <1>1, <1>2, Zenon DEF Contents

(* The largest stamp of a table.                                           *)
IsTop(f, u) == u \in Stamps /\ (\A r \in Rows : f[r] <= u) /\ (u = 0 \/ \E r \in Rows : f[r] = u)

LEMMA TopExists ==
  ASSUME NEW f \in [Rows -> Stamps]
  PROVE  \E u : IsTop(f, u)
<1> DEFINE T == {MaxClock - u : u \in {f[r] : r \in Rows} \cup {0}}
<1>1. T \in SUBSET Nat /\ T # {}
  BY DEF Stamps
<1>2. PICK x \in T : \A y \in T : ~(<<y, x>> \in OpToRel(<, Nat))
  BY <1>1, NatLessThanWellFounded, WFMin
<1>3. \A y \in T : x <= y
  <2> HIDE DEF T
  <2>1. \A y \in T : ~(y < x)
    BY <1>1, <1>2 DEF OpToRel
  <2>2. \A y \in T : y \in Nat /\ x \in Nat
    BY <1>1
  <2> QED BY <2>1, <2>2
<1>4. PICK u \in {f[r] : r \in Rows} \cup {0} : x = MaxClock - u
  BY <1>2
<1> HIDE DEF T
<1>5. ASSUME NEW r \in Rows PROVE f[r] <= u
  <2>1. MaxClock - f[r] \in T
    BY DEF T
  <2>2. x <= MaxClock - f[r]
    BY <1>3, <2>1
  <2>3. f[r] \in Nat /\ u \in Nat
    BY DEF Stamps
  <2> QED BY <1>4, <2>2, <2>3
<1>6. u \in Stamps
  BY DEF Stamps
<1> QED BY <1>5, <1>6 DEF IsTop

LEMMA MaxStampIsTop ==
  ASSUME table \in [Rows -> Stamps]
  PROVE  IsTop(table, MaxStamp)
<1>1. PICK u : IsTop(table, u)
  BY TopExists
<1> QED BY <1>1 DEF IsTop, MaxStamp

-----------------------------------------------------------------------------
LEMMA InitInv == Init => Inv
<1> SUFFICES ASSUME Init PROVE Inv
  OBVIOUS
<1>1. Fresh(NoTask) \in LocalType
  <2>1. NoTask \in Task
    BY DEF NoTask, Task, Modes
  <2>2. 0 \in Stamps /\ 1 \in Nat
    BY DEF Stamps
  <2> QED BY <2>1, <2>2, TruthsAre, EmptyIsContent DEF Fresh, LocalType, NoTask
<1>2. TypeOK
  <2>1. 0 \in Stamps
    BY DEF Stamps
  <2> QED BY <1>1, <2>1, TruthsAre, TypesAre DEF Init, PlaceType
<1>3. NeverAhead /\ NamesAreThere
  BY DEF Init, NeverAhead, NamesAreThere, Loading, Fresh
<1>4. AloneHolds /\ FromTheStart
  BY DEF Init, AloneHolds, FromTheStart, Fresh
<1> QED BY <1>2, <1>3, <1>4 DEF Inv

(* What the invariant needs of a process that takes no part in a step.     *)
Keeps(q) ==
  /\ pc'[q] = pc[q]
  /\ local'[q].task = local[q].task /\ local'[q].month = local[q].month
  /\ local'[q].fetched = local[q].fetched /\ local'[q].held = local[q].held
  /\ local'[q].linked = local[q].linked /\ local'[q].next = local[q].next
  /\ local'[q].last = local[q].last /\ local'[q].create = local[q].create
  /\ local'[q].alone => local[q].alone

(* A service that is not loading, before and after, or that has stopped.   *)
LEMMA Rest ==
  ASSUME Inv, UNCHANGED <<clock, published, exists, keyed, table, disk>>,
         NEW p \in Procs, NEW s \in {"idle", "fetch", "post"},
         pc' = [pc EXCEPT ![p] = s], local' \in [Procs -> LocalType],
         ~local'[p].linked, ~local'[p].alone, local'[p].next = 1, local'[p].held = <<>>,
         \A q \in Procs \ {p} : Keeps(q),
         s = "fetch" => \A q \in Procs : ~local'[q].alone
  PROVE  Inv'
<1>1. pc \in [Procs -> PlaceType] /\ pc'[p] = s /\ \A q \in Procs \ {p} : pc'[q] = pc[q]
  BY TypesAre DEF Inv
<1>2. TypeOK'
  <2>1. pc' \in [Procs -> PlaceType]
    BY <1>1 DEF PlaceType
  <2> QED BY <2>1, TypesAre, TypesStay DEF Inv
<1>3. NeverAhead'
  <2>1. \A m, c : Honest(m, c)' <=> Honest(m, c)
    BY DEF Honest, Stored
  <2>2. \A q \in Procs \ {p} :
          /\ pc'[q] = pc[q] /\ Month(q)' = Month(q)
          /\ local'[q].fetched = local[q].fetched /\ local'[q].held = local[q].held
    BY DEF Keeps, Month
  <2>3. pc'[p] \notin Loading
    BY <1>1 DEF Loading
  <2> QED BY <2>1, <2>2, <2>3 DEF Inv, NeverAhead
<1>4. NamesAreThere'
  BY <1>1 DEF Inv, NamesAreThere, Keeps, Loading, Month, Mode
<1>5. AloneHolds'
  BY <1>1 DEF Inv, AloneHolds, Keeps, Loading, Month, Mode, View, Stored, Passed, Selects, MaxStamp
<1>6. FromTheStart'
  BY <1>1 DEF Inv, FromTheStart, Keeps
<1> QED BY <1>2, <1>3, <1>4, <1>5, <1>6 DEF Inv

(* A run that begins, or looks for its next package.                       *)
LEMMA FreshIs ==
  ASSUME NEW t \in Task, NEW todo \in SUBSET Months,
         NEW new \in {Fresh(t), [Fresh(t) EXCEPT !.todo = todo]}
  PROVE  /\ new \in LocalType /\ new.task = t
         /\ ~new.linked /\ ~new.alone /\ ~new.create /\ new.next = 1 /\ new.last = 0
         /\ new.held = <<>>
<1>1. 0 \in Stamps /\ t.months \in SUBSET Months /\ 0 \in Months \cup {0}
  BY DEF Stamps, Task
<1>2. Fresh(t) \in LocalType
  BY <1>1, TruthsAre, EmptyIsContent DEF Fresh, LocalType
<1>3. CASE new = Fresh(t)
  BY <1>2, <1>3 DEF Fresh
<1>4. CASE new = [Fresh(t) EXCEPT !.todo = todo]
  BY <1>2, <1>4 DEF Fresh, LocalType
<1> QED BY <1>3, <1>4

LEMMA BeginInv ==
  ASSUME Inv, NEW p \in Procs, NEW t \in Task, NEW todo \in SUBSET Months, Begin(p, t, todo)
  PROVE  Inv'
<1> DEFINE new == [Fresh(t) EXCEPT !.todo = todo]
<1>1. new \in LocalType /\ ~new.linked /\ ~new.alone /\ new.next = 1 /\ ~new.create /\ new.held = <<>>
  BY FreshIs
<1>2. local' = [q \in Procs |-> IF q = p THEN new ELSE [local[q] EXCEPT !.alone = FALSE]]
  BY DEF Begin
<1> HIDE DEF new
<1>3. local \in [Procs -> LocalType]
  BY TypesAre DEF Inv
<1>4. \A q \in Procs : /\ [local[q] EXCEPT !.alone = FALSE] \in LocalType
                       /\ q # p => local'[q] = [local[q] EXCEPT !.alone = FALSE]
  BY <1>2, <1>3, TruthsAre DEF LocalType
<1>5. local' \in [Procs -> LocalType] /\ local'[p] = new
  BY <1>1, <1>2, <1>4
<1>6. \A q \in Procs \ {p} : Keeps(q) /\ ~local'[q].alone
  BY <1>3, <1>4, TypesAre DEF Keeps, LocalType, Begin, Goto, Inv
<1>7. ~local'[p].linked /\ ~local'[p].alone /\ local'[p].next = 1 /\ ~local'[p].create
      /\ local'[p].held = <<>>
  BY <1>1, <1>5
<1>8. \A q \in Procs : ~local'[q].alone
  BY <1>6, <1>7
<1>9. UNCHANGED <<clock, published, exists, keyed, table, disk>> /\ pc' = [pc EXCEPT ![p] = "fetch"]
  BY DEF Begin, Goto
<1> QED BY <1>5, <1>6, <1>7, <1>8, <1>9, Rest

(* A service that has stopped.                                             *)
LEMMA StopInv ==
  ASSUME Inv, NEW p \in Procs, NEW t \in Task, NEW s \in {"idle", "post"},
         pc' = [pc EXCEPT ![p] = s], local' = [local EXCEPT ![p] = Fresh(t)],
         UNCHANGED <<clock, published, exists, keyed, table, disk>>
  PROVE  Inv'
<1>1. Fresh(t) \in LocalType /\ ~Fresh(t).linked /\ ~Fresh(t).alone /\ Fresh(t).next = 1
      /\ ~Fresh(t).create /\ Fresh(t).held = <<>>
  <2>1. {} \in SUBSET Months
    OBVIOUS
  <2> QED BY <2>1, FreshIs
<1>2. local \in [Procs -> LocalType] /\ pc \in [Procs -> PlaceType]
  BY TypesAre DEF Inv
<1>3. local' \in [Procs -> LocalType] /\ local'[p] = Fresh(t)
  BY <1>1, <1>2
<1>4. \A q \in Procs \ {p} : Keeps(q)
  BY <1>2 DEF Keeps
<1>5. ~local'[p].linked /\ ~local'[p].alone /\ local'[p].next = 1 /\ ~local'[p].create
      /\ local'[p].held = <<>>
  BY <1>1, <1>3
<1> QED BY <1>3, <1>4, <1>5, Rest

LEMMA TaskOf == ASSUME Inv, NEW p \in Procs PROVE local[p].task \in Task
  BY TypesAre DEF Inv, LocalType

LEMMA SkipInv == ASSUME Inv, NEW p \in Procs, SkipPackage(p) PROVE Inv'
<1>1. PICK m \in Months : local' = [local EXCEPT ![p].todo = @ \ {m}]
  BY DEF SkipPackage
<1>2. local \in [Procs -> LocalType] /\ pc \in [Procs -> PlaceType]
  BY TypesAre DEF Inv
<1>3. local' \in [Procs -> LocalType]
  BY <1>1, <1>2 DEF LocalType
<1>4. \A q \in Procs : Keeps(q) /\ local'[q].alone = local[q].alone
  BY <1>1, <1>2 DEF Keeps, LocalType, SkipPackage, Goto
<1>5. \A q \in Procs : ~local[q].alone
  BY DEF SkipPackage, Goto, Inv, AloneHolds, Loading
<1>6. ~local[p].linked /\ local[p].held = <<>>
  BY DEF SkipPackage, Goto, Inv, NamesAreThere, NeverAhead, Loading
<1>7. /\ ~local'[p].linked /\ ~local'[p].alone /\ local'[p].next = 1
      /\ local'[p].held = <<>> /\ Mode(p)' # "backfill"
  BY <1>4, <1>5, <1>6 DEF Keeps, Inv, FromTheStart, SkipPackage, Goto, Mode
<1>8. \A q \in Procs : ~local'[q].alone
  BY <1>4, <1>5
<1>9. UNCHANGED <<clock, published, exists, keyed, table, disk>> /\ pc' = [pc EXCEPT ![p] = "fetch"]
  BY DEF SkipPackage, Goto
<1> QED BY <1>3, <1>4, <1>7, <1>8, <1>9, Rest

(* The publisher goes ahead.                                               *)
LEMMA PublishInv == ASSUME Inv, NEW S \in SUBSET Rows, Publish(S) PROVE Inv'
<1>1. clock \in Stamps /\ published \in [Rows -> Stamps]
  BY TypesAre DEF Inv
<1>2. /\ clock' \in Stamps /\ clock <= clock' /\ published' \in [Rows -> Stamps]
      /\ \A r \in Rows : published[r] <= published'[r] /\ published'[r] <= clock'
  <2>1. clock' = clock + 1 /\ clock' \in Stamps
    BY <1>1 DEF Publish, Stamps
  <2>2. \A r \in Rows : published[r] \in Nat /\ published[r] <= clock
    BY <1>1 DEF Inv, NeverAhead, Stamps
  <2>3. published' = [r \in Rows |-> IF r \in S THEN clock + 1 ELSE published[r]]
    BY DEF Publish
  <2> QED BY <1>1, <2>1, <2>2, <2>3 DEF Stamps
<1>3. UNCHANGED <<exists, keyed, table, disk, pc, local>>
  BY DEF Publish
<1>4. TypeOK'
  BY <1>2, <1>3, TypesAre, TypesStay DEF Inv
<1>5. \A m \in Months : \A c : Honest(m, c) => Honest(m, c)'
  <2> SUFFICES ASSUME NEW m \in Months, NEW c \in Stored(m),
                      \A i \in 1 .. Lines[m] : c[i] <= published[<<m, i>>]
               PROVE  \A i \in 1 .. Lines[m] : c[i] <= published'[<<m, i>>]
    BY DEF Honest, Stored
  <2>1. ASSUME NEW i \in 1 .. Lines[m] PROVE c[i] <= published'[<<m, i>>]
    <3>1. <<m, i>> \in Rows /\ c[i] \in Nat
      BY StoredIsContent DEF Stamps, Stored, Rows
    <3>2. published[<<m, i>>] \in Nat /\ published'[<<m, i>>] \in Nat
      BY <1>1, <1>2, <3>1 DEF Stamps
    <3> QED BY <1>2, <3>1, <3>2
  <2> QED BY <2>1
<1>6. \A r \in Rows : table[r] <= published'[r]
  <2>1. \A r \in Rows : table[r] \in Nat /\ published[r] \in Nat /\ published'[r] \in Nat
    BY <1>1, <1>2, TypesAre DEF Inv, Stamps
  <2> QED BY <1>2, <2>1 DEF Inv, NeverAhead
<1>7. NeverAhead'
  BY <1>2, <1>3, <1>5, <1>6 DEF Inv, NeverAhead, Month
<1>8. NamesAreThere' /\ AloneHolds' /\ FromTheStart'
  BY <1>3 DEF Inv, NamesAreThere, AloneHolds, FromTheStart, Month, Mode, View,
              Stored, Passed, Selects, MaxStamp
<1> QED BY <1>3, <1>4, <1>7, <1>8 DEF Inv

(* While one service loads, no other is alone.                             *)
LEMMA NotAlone ==
  ASSUME Inv, NEW p \in Procs, pc[p] \notin {"idle", "post"}
  PROVE  \A q \in Procs \ {p} : ~local[q].alone
  BY DEF Inv, AloneHolds

LEMMA ContentsAreFiles == None \notin Contents
<1>1. \A m \in Months : None \notin [1 .. Lines[m] -> Stamps]
  BY StoredIsContent DEF Stored
<1> QED BY <1>1, EmptyIsContent DEF Contents

(* The answer, when it has arrived.                                        *)
LEMMA ContentIs ==
  ASSUME Inv, NEW m \in Months
  PROVE  Content(m) \in Stored(m) /\ \A i \in 1 .. Lines[m] : Content(m)[i] = published[<<m, i>>]
<1>1. \A i \in 1 .. Lines[m] : published[<<m, i>>] \in Stamps
  BY TypesAre DEF Inv, Rows
<1> QED BY <1>1 DEF Content, Stored

(* The service answers, and the file is made anew.                         *)
LEMMA FetchInv == ASSUME Inv, NEW p \in Procs, Fetch(p) PROVE Inv'
<1> DEFINE a == \A q \in Procs \ {p} : pc[q] = "idle"
<1>1. a \in Truths
  BY DEF Truths
<1>2. PICK m \in Months :
        /\ disk' = [disk EXCEPT ![m] = <<>>]
        /\ local' = [local EXCEPT ![p].month = m, ![p].todo = @ \ {m},
             ![p].fetched = Content(m), ![p].linked = TRUE, ![p].alone = a]
  BY DEF Fetch
<1>3. a => \A q \in Procs \ {p} : pc[q] = "idle"
  OBVIOUS
<1> HIDE DEF a
<1>4. local \in [Procs -> LocalType] /\ pc \in [Procs -> PlaceType] /\ disk \in [Months -> Contents \cup {None}]
  BY TypesAre DEF Inv
<1>5. Content(m) \in Stored(m) /\ \A i \in 1 .. Lines[m] : Content(m)[i] = published[<<m, i>>]
  BY ContentIs
<1>6. Content(m) \in Contents
  BY <1>5, StoredIsContent
<1>7. /\ local' \in [Procs -> LocalType]
      /\ local'[p].month = m /\ local'[p].fetched = Content(m) /\ local'[p].linked = TRUE
      /\ local'[p].alone = a /\ local'[p].held = local[p].held /\ local'[p].next = local[p].next
      /\ local'[p].task = local[p].task /\ local'[p].create = local[p].create
      /\ \A q \in Procs \ {p} : local'[q] = local[q]
  <2>1. local[p] \in LocalType
    BY <1>4
  <2> DEFINE new == [local[p] EXCEPT !.month = m, !.todo = @ \ {m}, !.fetched = Content(m),
                                     !.linked = TRUE, !.alone = a]
  <2>2. local' = [local EXCEPT ![p] = new]
    BY <1>2, <1>4
  <2>3. /\ new \in LocalType
        /\ new.month = m /\ new.fetched = Content(m) /\ new.linked = TRUE
        /\ new.alone = a /\ new.held = local[p].held /\ new.next = local[p].next
        /\ new.task = local[p].task /\ new.create = local[p].create
    BY <1>1, <1>6, <2>1, TruthsAre DEF LocalType
  <2> HIDE DEF new
  <2> QED BY <1>4, <2>2, <2>3
<1>8. /\ pc[p] = "fetch" /\ pc'[p] = "store" /\ \A q \in Procs \ {p} : pc'[q] = pc[q]
      /\ pc' \in [Procs -> PlaceType]
  BY <1>4 DEF Fetch, Goto, PlaceType
<1>9. UNCHANGED <<clock, published, exists, keyed, table>>
  BY DEF Fetch
<1>10. TypeOK'
  BY <1>2, <1>4, <1>7, <1>8, <1>9, EmptyIsContent, TypesAre, TypesStay DEF Inv
<1>11. \A q \in Procs \ {p} : ~local'[q].alone
  BY <1>7, <1>8, NotAlone
<1>12. \A q \in Procs : q # p => Month(q)' = Month(q) /\ Mode(q)' = Mode(q)
  BY <1>7 DEF Month, Mode
<1>13. NeverAhead'
  <2>1. \A n \in Months : disk'[n] = IF n = m THEN <<>> ELSE disk[n]
    BY <1>2, <1>4
  <2>3. Honest(m, <<>>) /\ Honest(m, Content(m))
    <3>1. \A i \in 1 .. Lines[m] : published[<<m, i>>] <= published[<<m, i>>]
      <4>1. published \in [Rows -> Stamps] /\ \A i \in 1 .. Lines[m] : <<m, i>> \in Rows
        BY TypesAre DEF Inv, Rows
      <4> QED BY <4>1 DEF Stamps
    <3> QED BY <1>5, <3>1 DEF Honest
  <2>4. local'[p].held = <<>> /\ Month(p)' = m
    BY <1>7, <1>8 DEF Inv, NeverAhead, Loading, Month
  <2>5. \A r \in Rows : table'[r] <= published'[r] /\ published'[r] <= clock'
    BY <1>9 DEF Inv, NeverAhead
  <2>6. \A n \in Months : (disk[n] = None \/ Honest(n, disk[n]))'
    BY <1>9, <2>1 DEF Inv, NeverAhead, Honest, Stored
  <2>7. /\ Month(p)' \in Months /\ Honest(Month(p), local[p].fetched)'
        /\ Honest(Month(p), local[p].held)' /\ pc'[p] \in Loading
    BY <1>7, <1>8, <1>9, <2>3, <2>4 DEF Loading, Honest, Stored
  <2>8. ASSUME NEW q \in Procs \ {p}
        PROVE  /\ pc'[q] \in Loading =>
                    /\ Month(q)' \in Months
                    /\ Honest(Month(q), local[q].fetched)' /\ Honest(Month(q), local[q].held)'
               /\ pc'[q] \notin Loading => local'[q].held = <<>>
    BY <1>7, <1>8, <1>9, <1>12 DEF Inv, NeverAhead, Honest, Stored
  <2> QED BY <2>5, <2>6, <2>7, <2>8 DEF NeverAhead
<1>14. NamesAreThere'
  <2>1. \A n \in Months : disk'[n] = IF n = m THEN <<>> ELSE disk[n]
    BY <1>2, <1>4
  <2>2. \A q \in Procs : pc[q] \in Loading => Month(q) \in Months
    BY DEF Inv, NeverAhead
  <2>3. pc'[p] \in Loading /\ disk'[Month(p)'] # None
    BY <1>7, <1>8, <2>1, EmptyIsContent DEF Loading, Month
  <2>4. ASSUME NEW q \in Procs \ {p}, local'[q].linked PROVE pc'[q] \in Loading /\ disk'[Month(q)'] # None
    <3>1. local[q].linked
      BY <1>7, <2>4
    <3>2. pc[q] \in Loading /\ disk[Month(q)] # None /\ Month(q) \in Months
      BY <2>2, <3>1 DEF Inv, NamesAreThere
    <3> QED BY <1>8, <1>12, <2>1, <3>2, EmptyIsContent
  <2> QED BY <2>3, <2>4 DEF NamesAreThere
<1>16. AloneHolds'
  <2> SUFFICES ASSUME local'[p].alone PROVE
        /\ \A q \in Procs \ {p} : pc'[q] \in {"idle", "post"}
        /\ \A i \in 1 .. Lines[m] : table'[<<m, i>>] <= Content(m)[i]
    BY <1>5, <1>7, <1>8, <1>11 DEF AloneHolds, Loading, Month, Stored
  <2>1. \A q \in Procs \ {p} : pc'[q] = "idle"
    BY <1>3, <1>7, <1>8
  <2>2. \A i \in 1 .. Lines[m] : table'[<<m, i>>] <= Content(m)[i]
    <3>1. \A i \in 1 .. Lines[m] : <<m, i>> \in Rows
      BY DEF Rows
    <3>2. \A r \in Rows : table[r] <= published[r]
      BY DEF Inv, NeverAhead
    <3> QED BY <1>5, <1>9, <3>1, <3>2
  <2> QED BY <2>1, <2>2
<1>17. FromTheStart'
  BY <1>7, <1>8, <1>3 DEF Inv, FromTheStart
<1> QED BY <1>10, <1>13, <1>14, <1>16, <1>17 DEF Inv

(* The answer is written, if the file still has its name.                  *)
LEMMA StoreInv == ASSUME Inv, NEW p \in Procs, Store(p) PROVE Inv'
<1>1. local \in [Procs -> LocalType] /\ pc \in [Procs -> PlaceType] /\ disk \in [Months -> Contents \cup {None}]
  BY TypesAre DEF Inv
<1>2. /\ local' \in [Procs -> LocalType]
      /\ local'[p].linked = FALSE /\ local'[p].month = local[p].month
      /\ local'[p].fetched = local[p].fetched /\ local'[p].held = local[p].held
      /\ local'[p].alone = local[p].alone /\ local'[p].next = local[p].next
      /\ local'[p].task = local[p].task /\ local'[p].create = local[p].create
      /\ \A q \in Procs \ {p} : local'[q] = local[q]
  BY <1>1, TruthsAre DEF Store, LocalType
<1>3. /\ pc[p] = "store" /\ pc'[p] = "open" /\ \A q \in Procs \ {p} : pc'[q] = pc[q]
      /\ pc' \in [Procs -> PlaceType]
  BY <1>1 DEF Store, Goto, PlaceType
<1>4. UNCHANGED <<clock, published, exists, keyed, table>>
  BY DEF Store
<1>5. /\ Month(p) \in Months /\ local[p].fetched \in Contents /\ local[p].fetched # None
      /\ Honest(Month(p), local[p].fetched)
  BY <1>1, <1>3, ContentsAreFiles DEF Inv, NeverAhead, Loading, LocalType
<1>6. /\ disk' \in [Months -> Contents \cup {None}]
      /\ \A m \in Months : disk'[m] = IF local[p].linked /\ m = Month(p) THEN local[p].fetched ELSE disk[m]
  BY <1>1, <1>5 DEF Store
<1>7. TypeOK'
  BY <1>2, <1>3, <1>4, <1>6, TypesAre, TypesStay DEF Inv
<1>8. \A q \in Procs : Month(q)' = Month(q) /\ Mode(q)' = Mode(q)
  BY <1>2 DEF Month, Mode
<1>9. NeverAhead'
  <2>1. \A r \in Rows : table'[r] <= published'[r] /\ published'[r] <= clock'
    BY <1>4 DEF Inv, NeverAhead
  <2>2. \A m \in Months : (disk[m] = None \/ Honest(m, disk[m]))'
    BY <1>4, <1>5, <1>6 DEF Inv, NeverAhead, Honest, Stored
  <2>3. ASSUME NEW q \in Procs
        PROVE  /\ pc'[q] \in Loading =>
                    /\ Month(q)' \in Months
                    /\ Honest(Month(q), local[q].fetched)' /\ Honest(Month(q), local[q].held)'
               /\ pc'[q] \notin Loading => local'[q].held = <<>>
    BY <1>2, <1>3, <1>4, <1>8 DEF Inv, NeverAhead, Honest, Stored, Loading
  <2> QED BY <2>1, <2>2, <2>3 DEF NeverAhead
<1>10. NamesAreThere'
  <2>1. ASSUME NEW q \in Procs, local'[q].linked PROVE pc'[q] \in Loading /\ disk'[Month(q)'] # None
    <3>1. q # p /\ local[q].linked
      BY <1>2, <2>1
    <3>2. pc[q] \in Loading /\ disk[Month(q)] # None /\ Month(q) \in Months
      BY <3>1 DEF Inv, NamesAreThere, NeverAhead
    <3> QED BY <1>3, <1>5, <1>6, <1>8, <3>1, <3>2
  <2> QED BY <2>1 DEF NamesAreThere
<1>12. AloneHolds'
  <2>1. \A q \in Procs \ {p} : ~local'[q].alone
    BY <1>2, <1>3, NotAlone
  <2>2. ASSUME local'[p].alone
        PROVE  /\ \A q \in Procs \ {p} : pc'[q] \in {"idle", "post"}
               /\ local'[p].fetched \in Stored(Month(p))'
               /\ \A i \in 1 .. Lines[Month(p)'] : table'[<<Month(p)', i>>] <= local'[p].fetched[i]
               /\ disk'[Month(p)'] = local'[p].fetched
    <3>1. local[p].alone
      BY <1>2, <2>2
    <3>2. local[p].linked
      BY <1>3, <3>1 DEF Inv, AloneHolds
    <3> QED BY <1>2, <1>3, <1>4, <1>5, <1>6, <1>8, <3>1, <3>2 DEF Inv, AloneHolds, Stored
  <2> QED BY <1>3, <2>1, <2>2 DEF AloneHolds, Loading
<1>13. FromTheStart'
  BY <1>2, <1>8, <1>3 DEF Inv, FromTheStart
<1> QED BY <1>7, <1>9, <1>10, <1>12, <1>13 DEF Inv

(* The state of the table is read, the table made, and the file opened.    *)
LEMMA PrepareInv == ASSUME Inv, NEW p \in Procs, NEW works \in BOOLEAN, Prepare(p, works) PROVE Inv'
<1> DEFINE gone    == disk[Month(p)] = None
           batch   == Mode(p) = "backfill"
           creates == ~exists /\ ~local[p].create
           made    == local[p].create \/ ~exists
           named   == ~gone /\ ~batch
           opened  == IF batch THEN disk[Month(p)] ELSE <<>>
<1>1. local \in [Procs -> LocalType] /\ pc \in [Procs -> PlaceType] /\ disk \in [Months -> Contents \cup {None}]
  BY TypesAre DEF Inv
<1>2. /\ pc[p] = "open" /\ ~(gone /\ batch) /\ (~works => creates /\ ~batch)
      /\ UNCHANGED <<clock, published, table, disk>>
  BY DEF Prepare
<1>3. Month(p) \in Months
  BY <1>2 DEF Inv, NeverAhead, Loading
<1>4. IsTop(table, MaxStamp) /\ MaxStamp \in Stamps
  BY MaxStampIsTop, TypesAre DEF Inv, IsTop
<1>5. made \in Truths /\ named \in Truths
  BY DEF Truths
<1>6. opened \in Contents /\ (batch => opened = disk[Month(p)]) /\ (~batch => opened = <<>>)
  BY <1>1, <1>2, <1>3, EmptyIsContent
<1>7. /\ local' \in [Procs -> LocalType]
      /\ local'[p].create = made /\ local'[p].last = MaxStamp /\ local'[p].held = opened
      /\ local'[p].linked = named
      /\ local'[p].month = local[p].month /\ local'[p].fetched = local[p].fetched
      /\ local'[p].alone = local[p].alone /\ local'[p].next = local[p].next
      /\ local'[p].task = local[p].task
      /\ \A q \in Procs \ {p} : local'[q] = local[q]
  <2>1. local' = [local EXCEPT ![p].create = made, ![p].last = MaxStamp,
                               ![p].held = opened, ![p].linked = named]
    BY DEF Prepare
  <2> DEFINE new == [local[p] EXCEPT !.create = made, !.last = MaxStamp, !.held = opened, !.linked = named]
  <2> HIDE DEF made, named, opened
  <2>2. local' = [local EXCEPT ![p] = new]
    BY <1>1, <2>1
  <2>3. local[p] \in LocalType
    BY <1>1
  <2>4. /\ new \in LocalType
        /\ new.create = made /\ new.last = MaxStamp /\ new.held = opened /\ new.linked = named
        /\ new.month = local[p].month /\ new.fetched = local[p].fetched
        /\ new.alone = local[p].alone /\ new.next = local[p].next /\ new.task = local[p].task
    BY <1>4, <1>5, <1>6, <2>3 DEF LocalType
  <2> HIDE DEF new
  <2> QED BY <1>1, <2>2, <2>4
<1>8. /\ pc' \in [Procs -> PlaceType] /\ pc'[p] = IF gone THEN "gone" ELSE "line"
      /\ \A q \in Procs \ {p} : pc'[q] = pc[q]
  BY <1>1 DEF Prepare, PlaceType
<1>9. exists' \in Truths /\ keyed' \in Truths /\ (~exists' => ~exists)
  BY DEF Prepare, Truths
<1>10. TypeOK'
  BY <1>2, <1>7, <1>8, <1>9, TypesAre, TypesStay DEF Inv
<1>11. \A q \in Procs : Month(q)' = Month(q) /\ Mode(q)' = Mode(q)
  BY <1>7 DEF Month, Mode
<1>12. NeverAhead'
  <2>1. \A r \in Rows : table'[r] <= published'[r] /\ published'[r] <= clock'
    BY <1>2 DEF Inv, NeverAhead
  <2>2. \A m \in Months : (disk[m] = None \/ Honest(m, disk[m]))'
    BY <1>2 DEF Inv, NeverAhead, Honest, Stored
  <2>3. Honest(Month(p), opened)
    BY <1>2, <1>3, <1>6 DEF Inv, NeverAhead, Honest
  <2>4. ASSUME NEW q \in Procs \ {p}
        PROVE  /\ pc'[q] \in Loading =>
                    /\ Month(q)' \in Months
                    /\ Honest(Month(q), local[q].fetched)' /\ Honest(Month(q), local[q].held)'
               /\ pc'[q] \notin Loading => local'[q].held = <<>>
    BY <1>2, <1>7, <1>8, <1>11 DEF Inv, NeverAhead, Honest, Stored
  <2> HIDE DEF gone, opened
  <2>5. /\ pc'[p] \in Loading /\ Month(p)' \in Months
        /\ Honest(Month(p), local[p].fetched)' /\ Honest(Month(p), local[p].held)'
    BY <1>2, <1>3, <1>7, <1>8, <1>11, <2>3 DEF Inv, NeverAhead, Honest, Stored, Loading
  <2> QED BY <2>1, <2>2, <2>4, <2>5 DEF NeverAhead
<1>13. NamesAreThere'
  <2>1. local'[p].linked => ~gone
    BY <1>7
  <2>2. ASSUME NEW q \in Procs, local'[q].linked PROVE pc'[q] \in Loading /\ disk'[Month(q)'] # None
    BY <1>2, <1>7, <1>8, <1>11, <2>1, <2>2 DEF Inv, NamesAreThere, Loading
  <2> QED BY <2>2 DEF NamesAreThere
<1>15. AloneHolds'
  <2>1. \A q \in Procs \ {p} : ~local'[q].alone
    BY <1>2, <1>7, NotAlone
  <2>2. SUFFICES ASSUME local'[p].alone
        PROVE  /\ pc'[p] \in {"gone", "line"}
               /\ \A q \in Procs \ {p} : pc'[q] \in {"idle", "post"}
               /\ local'[p].fetched \in Stored(Month(p))'
               /\ \A i \in 1 .. Lines[Month(p)'] : table'[<<Month(p)', i>>] <= local'[p].fetched[i]
               /\ View(p)' = local'[p].fetched
               /\ local'[p].next = 1
    <3>1. Lines[Month(p)'] \in Nat
      BY <1>3, <1>11
    <3> QED BY <2>1, <3>1 DEF AloneHolds, Loading
  <2>3. local[p].alone
    BY <1>7, <2>2
  <2>4. /\ \A q \in Procs \ {p} : pc[q] \in {"idle", "post"}
        /\ local[p].fetched \in Stored(Month(p))
        /\ \A i \in 1 .. Lines[Month(p)] : table[<<Month(p), i>>] <= local[p].fetched[i]
        /\ disk[Month(p)] = local[p].fetched
    BY <1>2, <2>3 DEF Inv, AloneHolds
  <2>5. ~gone
    BY <1>3, <2>4, StoredIsContent
  <2>6. View(p)' = local'[p].fetched
    <3>1. CASE batch
      BY <1>6, <1>7, <2>4, <3>1 DEF View
    <3>2. CASE ~batch
      BY <1>2, <1>7, <1>11, <2>4, <2>5, <3>2 DEF View
    <3> QED BY <3>1, <3>2
  <2>7. local[p].next = 1
    BY <1>2 DEF Inv, FromTheStart
  <2> QED BY <1>2, <1>7, <1>8, <1>11, <2>4, <2>5, <2>6, <2>7 DEF Stored
<1>16. FromTheStart'
  BY <1>2, <1>7, <1>8 DEF Inv, FromTheStart
<1> QED BY <1>10, <1>12, <1>13, <1>15, <1>16 DEF Inv

(* What the next line of a file is.                                        *)
LEMMA LineIs ==
  ASSUME Inv, NEW p \in Procs, pc[p] = "line", local[p].next <= Len(View(p))
  PROVE  /\ Month(p) \in Months /\ View(p) \in Stored(Month(p))
         /\ local[p].next \in 1 .. Lines[Month(p)] /\ <<Month(p), local[p].next>> \in Rows
         /\ Line(p) \in Stamps /\ Line(p) <= published[<<Month(p), local[p].next>>]
<1>1. /\ Month(p) \in Months /\ Honest(Month(p), local[p].held)
      /\ local[p].linked => disk[Month(p)] # None
  BY DEF Inv, NeverAhead, NamesAreThere, Loading
<1>2. Honest(Month(p), View(p))
  BY <1>1 DEF View, Inv, NeverAhead
<1>3. local[p].next \in Nat /\ local[p].next >= 1
  BY TypesAre DEF Inv, FromTheStart, LocalType
<1>4. View(p) # <<>>
  <2>1. CASE View(p) = <<>>
    <3>1. Len(View(p)) = 0
      BY <2>1
    <3> QED BY <1>3, <3>1
  <2> QED BY <2>1
<1>5. /\ View(p) \in Stored(Month(p))
      /\ \A i \in 1 .. Lines[Month(p)] : View(p)[i] <= published[<<Month(p), i>>]
  BY <1>2, <1>4 DEF Honest
<1>6. Len(View(p)) = Lines[Month(p)] /\ Lines[Month(p)] \in Nat
  BY <1>1, <1>5, StoredIsContent
<1>7. local[p].next \in 1 .. Lines[Month(p)]
  BY <1>3, <1>6
<1>8. <<Month(p), local[p].next>> \in Rows
  BY <1>1, <1>7, RowsAre
<1>9. Line(p) \in Stamps /\ Line(p) <= published[<<Month(p), local[p].next>>]
  BY <1>5, <1>7 DEF Line, Stored
<1> QED BY <1>1, <1>5, <1>7, <1>8, <1>9

(* A line is written, or passed over.                                      *)
LEMMA LoadLineInv == ASSUME Inv, NEW p \in Procs, LoadLine(p) PROVE Inv'
<1> DEFINE row == <<Month(p), local[p].next>>
<1>1. local \in [Procs -> LocalType] /\ pc \in [Procs -> PlaceType] /\ table \in [Rows -> Stamps]
  BY TypesAre DEF Inv
<1>2. /\ pc[p] = "line" /\ local[p].next <= Len(View(p))
      /\ UNCHANGED <<clock, published, keyed, disk, pc>>
  BY DEF LoadLine, Put
<1>3. /\ Month(p) \in Months /\ View(p) \in Stored(Month(p))
      /\ local[p].next \in 1 .. Lines[Month(p)] /\ row \in Rows
      /\ Line(p) \in Stamps /\ Line(p) <= published[row]
  BY <1>2, LineIs
<1>4. /\ WritesLine(p) => table' = [table EXCEPT ![row] = Line(p)]
      /\ ~WritesLine(p) => table' = table
      /\ ~exists' => ~exists /\ ~WritesLine(p)
  BY DEF LoadLine, Put
<1>5. exists' \in Truths
  BY DEF LoadLine, Put, Truths
<1> HIDE DEF row
<1>6. /\ local' \in [Procs -> LocalType] /\ local'[p].next = local[p].next + 1
      /\ local'[p].linked = local[p].linked /\ local'[p].month = local[p].month
      /\ local'[p].fetched = local[p].fetched /\ local'[p].held = local[p].held
      /\ local'[p].alone = local[p].alone /\ local'[p].last = local[p].last
      /\ local'[p].task = local[p].task /\ local'[p].create = local[p].create
      /\ \A q \in Procs \ {p} : local'[q] = local[q]
  <2>1. local' = [local EXCEPT ![p].next = @ + 1]
    BY DEF LoadLine, Put
  <2> DEFINE n   == local[p].next + 1
             new == [local[p] EXCEPT !.next = n]
  <2>2. local[p] \in LocalType /\ local' = [local EXCEPT ![p] = new] /\ n \in Nat
    BY <1>1, <2>1 DEF LocalType
  <2> HIDE DEF n
  <2>3. /\ new \in LocalType /\ new.next = n
        /\ new.linked = local[p].linked /\ new.month = local[p].month
        /\ new.fetched = local[p].fetched /\ new.held = local[p].held
        /\ new.alone = local[p].alone /\ new.last = local[p].last
        /\ new.task = local[p].task /\ new.create = local[p].create
    BY <2>2 DEF LocalType
  <2> HIDE DEF new
  <2> QED BY <1>1, <2>2, <2>3 DEF n
<1>7. /\ table' \in [Rows -> Stamps]
      /\ \A r \in Rows : table'[r] = IF WritesLine(p) /\ r = row THEN Line(p) ELSE table[r]
  BY <1>1, <1>3, <1>4
<1>8. TypeOK'
  BY <1>2, <1>5, <1>6, <1>7, TypesAre, TypesStay DEF Inv
<1>9. \A q \in Procs : Month(q)' = Month(q) /\ Mode(q)' = Mode(q)
  BY <1>6 DEF Month, Mode
<1>10. NeverAhead'
  <2>1. \A r \in Rows : table'[r] <= published'[r] /\ published'[r] <= clock'
    BY <1>2, <1>3, <1>7 DEF Inv, NeverAhead
  <2>2. \A m \in Months : (disk[m] = None \/ Honest(m, disk[m]))'
    BY <1>2 DEF Inv, NeverAhead, Honest, Stored
  <2>3. ASSUME NEW q \in Procs
        PROVE  /\ pc'[q] \in Loading =>
                    /\ Month(q)' \in Months
                    /\ Honest(Month(q), local[q].fetched)' /\ Honest(Month(q), local[q].held)'
               /\ pc'[q] \notin Loading => local'[q].held = <<>>
    <3>1. local'[q].fetched = local[q].fetched /\ local'[q].held = local[q].held
      BY <1>6
    <3> QED BY <1>2, <1>9, <3>1 DEF Inv, NeverAhead, Honest, Stored
  <2> QED BY <2>1, <2>2, <2>3 DEF NeverAhead
<1>11. NamesAreThere'
  <2>1. \A q \in Procs : local'[q].linked = local[q].linked
    BY <1>6
  <2> QED BY <1>2, <1>9, <2>1 DEF Inv, NamesAreThere
<1>13. AloneHolds'
  <2>1. \A q \in Procs \ {p} : ~local'[q].alone
    BY <1>2, <1>6, NotAlone
  <2>2. SUFFICES ASSUME local'[p].alone
        PROVE  /\ pc'[p] = "line"
               /\ \A q \in Procs \ {p} : pc'[q] \in {"idle", "post"}
               /\ local'[p].fetched \in Stored(Month(p))'
               /\ \A i \in 1 .. Lines[Month(p)'] : table'[<<Month(p)', i>>] <= local'[p].fetched[i]
               /\ View(p)' = local'[p].fetched
               /\ \A i \in 1 .. Lines[Month(p)'] : i < local'[p].next => Passed(p, i)'
    BY <2>1 DEF AloneHolds, Loading
  <2>3. local[p].alone
    BY <1>6, <2>2
  <2>4. /\ \A q \in Procs \ {p} : pc[q] \in {"idle", "post"}
        /\ local[p].fetched \in Stored(Month(p))
        /\ \A i \in 1 .. Lines[Month(p)] : table[<<Month(p), i>>] <= local[p].fetched[i]
        /\ View(p) = local[p].fetched
        /\ \A i \in 1 .. Lines[Month(p)] : i < local[p].next => Passed(p, i)
    BY <1>2, <2>3 DEF Inv, AloneHolds
  <2>5. Line(p) = local[p].fetched[local[p].next]
    BY <2>4 DEF Line
  <2>6. \A i \in 1 .. Lines[Month(p)] : <<Month(p), i>> = row <=> i = local[p].next
    BY DEF row
  <2>7. ASSUME NEW i \in 1 .. Lines[Month(p)] PROVE table'[<<Month(p), i>>] <= local[p].fetched[i]
    <3>1. <<Month(p), i>> \in Rows
      BY <1>3, RowsAre
    <3>2. CASE WritesLine(p) /\ i = local[p].next
      BY <1>3, <1>7, <2>5, <2>6, <3>1, <3>2 DEF Stamps
    <3>3. CASE ~(WritesLine(p) /\ i = local[p].next)
      BY <1>7, <2>4, <2>6, <3>1, <3>3
    <3> QED BY <3>2, <3>3
  <2>8. View(p)' = View(p)
    BY <1>2, <1>6, <1>9 DEF View
  <2>9. ASSUME NEW i \in 1 .. Lines[Month(p)], i < local'[p].next PROVE Passed(p, i)'
    <3>1. <<Month(p), i>> \in Rows
      BY <1>3, RowsAre
    <3>2. \A u : Selects(p, u)' <=> Selects(p, u)
      BY <1>6, <1>9 DEF Selects
    <3>3. CASE i = local[p].next
      BY <1>6, <1>7, <1>9, <2>5, <2>6, <3>1, <3>2, <3>3 DEF Passed, WritesLine
    <3>4. CASE i < local[p].next
      BY <1>6, <1>7, <1>9, <2>4, <2>6, <3>1, <3>2, <3>4 DEF Passed
    <3> QED BY <1>3, <1>6, <2>9, <3>3, <3>4
  <2> QED BY <1>2, <1>6, <1>9, <2>4, <2>7, <2>8, <2>9 DEF Stored
<1>14. FromTheStart'
  <2>1. local[p].next \in Nat
    BY <1>1 DEF LocalType
  <2> QED BY <1>2, <1>6, <2>1 DEF Inv, FromTheStart
<1> QED BY <1>8, <1>10, <1>11, <1>13, <1>14 DEF Inv

(* The file is closed and loses its name; who reads it goes on with it.    *)
LEMMA CloseInv ==
  ASSUME Inv, NEW p \in Procs, pc[p] \notin {"idle", "post"}, NEW m \in Months,
         NEW todo \in SUBSET Months, CloseFile(p, m, todo)
  PROVE  Inv'
<1> DEFINE c   == local[p].create /\ Mode(p) # "backfill"
           new == [Fresh(local[p].task) EXCEPT !.todo = todo, !.create = c]
           Loses(q) == local[q].linked /\ Month(q) = m
           Other(q) == IF Loses(q) THEN [local[q] EXCEPT !.held = disk[m], !.linked = FALSE] ELSE local[q]
<1>1. local \in [Procs -> LocalType] /\ pc \in [Procs -> PlaceType] /\ disk \in [Months -> Contents \cup {None}]
  BY TypesAre DEF Inv
<1>2. UNCHANGED <<clock, published, exists, keyed, table>> /\ disk' = [disk EXCEPT ![m] = None]
  BY DEF CloseFile
<1>3. c \in Truths /\ (Mode(p) = "backfill" => ~c)
  BY DEF Truths
<1>4. local[p].task \in Task
  BY TaskOf
<1>5. /\ new \in LocalType /\ new.task = local[p].task /\ new.create = c
      /\ ~new.linked /\ ~new.alone /\ new.next = 1 /\ new.held = <<>>
  <2>1. PICK t \in Task : t = local[p].task
    BY <1>4
  <2>2. PICK d \in Truths : d = c
    BY <1>3
  <2>3. new = [Fresh(t) EXCEPT !.todo = todo, !.create = d]
    BY <2>1, <2>2
  <2>4. Fresh(t) \in LocalType
    BY FreshIs
  <2> HIDE DEF c, new
  <2>5. /\ new \in LocalType /\ new.task = t /\ new.create = d
        /\ ~new.linked /\ ~new.alone /\ new.next = 1 /\ new.held = <<>>
    BY <2>3, <2>4 DEF Fresh, LocalType
  <2> QED BY <2>1, <2>2, <2>5
<1>6. local' = [q \in Procs |-> IF q = p THEN new ELSE Other(q)]
  BY DEF CloseFile
<1> HIDE DEF c, new
<1>7. \A q \in Procs : Loses(q) => disk[m] \in Contents /\ disk[m] # None
  BY <1>1 DEF Inv, NamesAreThere
<1>8. ASSUME NEW q \in Procs
      PROVE  /\ Other(q) \in LocalType
             /\ Other(q).task = local[q].task /\ Other(q).month = local[q].month
             /\ Other(q).fetched = local[q].fetched /\ Other(q).next = local[q].next
             /\ Other(q).last = local[q].last /\ Other(q).create = local[q].create
             /\ Other(q).alone = local[q].alone
             /\ Loses(q) => Other(q).held = disk[m] /\ ~Other(q).linked
             /\ ~Loses(q) => Other(q).held = local[q].held /\ Other(q).linked = local[q].linked
  <2>1. local[q] \in LocalType
    BY <1>1
  <2>2. CASE Loses(q)
    <3>1. Other(q) = [local[q] EXCEPT !.held = disk[m], !.linked = FALSE]
      BY <2>2
    <3>2. disk[m] \in Contents
      BY <1>7, <2>2
    <3> HIDE DEF Other, Loses
    <3> QED BY <2>1, <2>2, <3>1, <3>2, TruthsAre DEF LocalType
  <2>3. CASE ~Loses(q)
    BY <2>1, <2>3
  <2> QED BY <2>2, <2>3
<1> HIDE DEF Other
<1>9. /\ local' \in [Procs -> LocalType] /\ local'[p] = new
      /\ \A q \in Procs \ {p} : local'[q] = Other(q)
  BY <1>5, <1>6, <1>8
<1>10. /\ pc' \in [Procs -> PlaceType] /\ pc'[p] = "fetch" /\ \A q \in Procs \ {p} : pc'[q] = pc[q]
  BY <1>1 DEF CloseFile, PlaceType
<1>11. /\ disk' \in [Months -> Contents \cup {None}]
       /\ \A n \in Months : disk'[n] = IF n = m THEN None ELSE disk[n]
  BY <1>1, <1>2
<1>12. TypeOK'
  BY <1>2, <1>9, <1>10, <1>11, TypesAre, TypesStay DEF Inv
<1>13. \A q \in Procs \ {p} : Month(q)' = Month(q) /\ Mode(q)' = Mode(q)
  BY <1>8, <1>9 DEF Month, Mode
<1>14. NeverAhead'
  <2>1. \A r \in Rows : table'[r] <= published'[r] /\ published'[r] <= clock'
    BY <1>2 DEF Inv, NeverAhead
  <2>2. \A n \in Months : (disk[n] = None \/ Honest(n, disk[n]))'
    BY <1>2, <1>11 DEF Inv, NeverAhead, Honest, Stored
  <2>3. ASSUME NEW q \in Procs \ {p}, pc'[q] \in Loading
        PROVE  /\ Month(q)' \in Months
               /\ Honest(Month(q), local[q].fetched)' /\ Honest(Month(q), local[q].held)'
    <3>1. /\ pc[q] \in Loading /\ Month(q) \in Months
          /\ Honest(Month(q), local[q].fetched) /\ Honest(Month(q), local[q].held)
      BY <1>10, <2>3 DEF Inv, NeverAhead
    <3>2. local'[q].fetched = local[q].fetched
      BY <1>8, <1>9
    <3>3. Honest(Month(q), local[q].fetched)'
      BY <1>2, <1>13, <3>1, <3>2 DEF Honest, Stored
    <3>4. CASE Loses(q)
      <4>1. local'[q].held = disk[m] /\ Honest(m, disk[m]) /\ Month(q) = m
        BY <1>7, <1>8, <1>9, <3>4 DEF Inv, NeverAhead
      <4>2. Honest(Month(q), local[q].held)'
        BY <1>2, <1>13, <4>1 DEF Honest, Stored
      <4> QED BY <1>13, <3>1, <3>3, <4>2
    <3>5. CASE ~Loses(q)
      <4>1. local'[q].held = local[q].held
        BY <1>8, <1>9, <3>5
      <4>2. Honest(Month(q), local[q].held)'
        BY <1>2, <1>13, <3>1, <4>1 DEF Honest, Stored
      <4> QED BY <1>13, <3>1, <3>3, <4>2
    <3> QED BY <3>4, <3>5
  <2>4. ASSUME NEW q \in Procs \ {p}, pc'[q] \notin Loading PROVE local'[q].held = <<>>
    <3>1. ~Loses(q) /\ local[q].held = <<>>
      BY <1>10, <2>4 DEF Inv, NamesAreThere, NeverAhead
    <3> QED BY <1>8, <1>9, <3>1
  <2>5. pc'[p] \notin Loading /\ local'[p].held = <<>>
    BY <1>5, <1>9, <1>10 DEF Loading
  <2> QED BY <2>1, <2>2, <2>3, <2>4, <2>5 DEF NeverAhead
<1>15. NamesAreThere'
  <2>1. ASSUME NEW q \in Procs, local'[q].linked PROVE pc'[q] \in Loading /\ disk'[Month(q)'] # None
    <3>1. q # p
      BY <1>5, <1>9, <2>1
    <3>2. ~Loses(q) /\ local[q].linked
      BY <1>8, <1>9, <2>1, <3>1
    <3>3. Month(q) # m /\ pc[q] \in Loading /\ disk[Month(q)] # None /\ Month(q) \in Months
      BY <3>2 DEF Inv, NamesAreThere, NeverAhead
    <3> QED BY <1>10, <1>11, <1>13, <3>1, <3>3
  <2> QED BY <2>1 DEF NamesAreThere
<1>17. AloneHolds'
  <2>1. \A q \in Procs : ~local'[q].alone
    BY <1>5, <1>8, <1>9, NotAlone
  <2> QED BY <2>1 DEF AloneHolds
<1>18. FromTheStart'
  <2>1. \A q \in Procs \ {p} : local'[q].next = local[q].next
    BY <1>8, <1>9
  <2> QED BY <1>5, <1>9, <1>10, <2>1 DEF Inv, FromTheStart
<1> QED BY <1>12, <1>14, <1>15, <1>17, <1>18 DEF Inv

(* A task lists packages, all of its own or the recent ones.               *)
LEMMA TasksAre ==
  ASSUME NEW p \in Procs, NEW t \in Tasks[p]
  PROVE  t \in Task /\ Listed(t) \subseteq SUBSET Months
<1>1. t \in Task
  OBVIOUS
<1> QED BY <1>1 DEF Listed, Task

LEMMA StepInv == Inv /\ [Next]_vars => Inv'
<1> SUFFICES ASSUME Inv, [Next]_vars PROVE Inv'
  OBVIOUS
<1>1. ASSUME NEW S \in SUBSET Rows, Publish(S) PROVE Inv'
  BY <1>1, PublishInv
<1>2. ASSUME NEW p \in Procs, NEW t \in Tasks[p], Start(p, t) PROVE Inv'
  BY <1>2, TasksAre, BeginInv DEF Start
<1>3. ASSUME NEW p \in Procs, NEW todo \in SUBSET Months, Close(p, todo), pc[p] \in Loading PROVE Inv'
  <2>1. Month(p) \in Months /\ pc[p] \notin {"idle", "post"}
    BY <1>3 DEF Inv, NeverAhead, Loading
  <2> QED BY <1>3, <2>1, CloseInv DEF Close
<1>4. ASSUME NEW p \in Procs, Step(p) PROVE Inv'
  <2>1. local[p].todo \in SUBSET Months /\ local[p].task \in Task /\ NoTask \in Task
    BY TypesAre DEF Inv, LocalType, NoTask, Task, Modes
  <2>2. CASE Fetch(p)
    BY <2>2, FetchInv
  <2>3. CASE Store(p)
    BY <2>3, StoreInv
  <2>4. CASE Open(p)
    BY <2>4, PrepareInv DEF Open
  <2>5. CASE LoadLine(p)
    BY <2>5, LoadLineInv
  <2>6. CASE EndOfFile(p)
    BY <1>3, <2>1, <2>6 DEF EndOfFile, AtEnd, Loading
  <2>7. CASE Done(p)
    BY <2>1, <2>7, StopInv DEF Done, End
  <2>8. CASE PostRun(p)
    BY <2>1, <2>8, StopInv DEF PostRun, End
  <2> QED BY <1>4, <2>2, <2>3, <2>4, <2>5, <2>6, <2>7, <2>8 DEF Step
<1>5. ASSUME NEW p \in Procs, Fault(p) PROVE Inv'
  <2>1. local[p].todo \in SUBSET Months /\ local[p].task \in Task /\ NoTask \in Task
    BY TypesAre DEF Inv, LocalType, NoTask, Task, Modes
  <2>2. CASE AuthenticateFails(p)
    BY <2>2, TasksAre, StopInv DEF AuthenticateFails, Aborts
  <2>3. CASE ListFails(p)
    BY <2>3, TasksAre, BeginInv DEF ListFails
  <2>4. CASE SkipPackage(p)
    BY <2>4, SkipInv
  <2>5. CASE CreateFails(p)
    BY <2>5, PrepareInv DEF CreateFails
  <2>6. CASE LoadFails(p)
    <3>1. {} \in SUBSET Months
      OBVIOUS
    <3>2. ASSUME NEW m \in Months, CloseFile(p, m, {}), pc[p] = "fetch" PROVE Inv'
      BY <3>1, <3>2, CloseInv
    <3> QED BY <1>3, <2>1, <2>6, <3>1, <3>2 DEF LoadFails, Loading
  <2>7. CASE Abort(p)
    BY <2>1, <2>7, StopInv DEF Abort, Aborts
  <2>8. CASE Kill(p)
    BY <2>1, <2>8, StopInv DEF Kill, End
  <2> QED BY <1>5, <2>2, <2>3, <2>4, <2>5, <2>6, <2>7, <2>8 DEF Fault
<1>6. CASE UNCHANGED vars
  <2> USE <1>6 DEF vars
  <2>1. TypeOK' /\ NamesAreThere' /\ FromTheStart'
    BY DEF Inv, TypeOK, NamesAreThere, FromTheStart, Month, Mode
  <2>2. NeverAhead'
    BY DEF Inv, NeverAhead, Month, Honest, Stored
  <2>3. AloneHolds'
    BY DEF Inv, AloneHolds, Month, Mode, View, Stored, Passed, Selects, MaxStamp
  <2> QED BY <2>1, <2>2, <2>3 DEF Inv
<1> QED BY <1>1, <1>2, <1>4, <1>5, <1>6 DEF Next

-----------------------------------------------------------------------------
(* What the parts above say holds however runs, failures and kills of any  *)
(* services interleave.                                                    *)
THEOREM IngestInvariant == Spec => []Inv
  BY InitInv, StepInv, PTL DEF Spec

(* The variables keep their types; among them, what is written to a row is *)
(* a stamp of the row's own package.                                       *)
THEOREM TypeCorrect == Spec => []TypeOK
<1>1. Inv => TypeOK
  BY DEF Inv
<1> QED BY <1>1, IngestInvariant, PTL

(* A package that is loaded while nobody else loads one is loaded whole,   *)
(* whatever files earlier runs have left and wherever they were killed.    *)
THEOREM Whole == Spec => []LoadedWhole
<1>1. Inv => LoadedWhole
  <2> SUFFICES ASSUME Inv, NEW p \in Procs, local[p].alone, AtEnd(p), NEW i \in 1 .. Lines[Month(p)]
               PROVE  Passed(p, i)
    BY DEF LoadedWhole, Passed
  <2>1. /\ View(p) \in Stored(Month(p))
        /\ \A j \in 1 .. Lines[Month(p)] : j < local[p].next => Passed(p, j)
    BY DEF Inv, AloneHolds, AtEnd
  <2>2. Month(p) \in Months
    BY DEF Inv, NeverAhead, AtEnd, Loading
  <2>3. Len(View(p)) = Lines[Month(p)] /\ Lines[Month(p)] \in Nat
    BY <2>1, <2>2, StoredIsContent
  <2>4. local[p].next \in Nat /\ local[p].next > Lines[Month(p)]
    BY <2>3, TypesAre DEF Inv, LocalType, AtEnd
  <2> QED BY <2>1, <2>3, <2>4
<1> QED BY <1>1, IngestInvariant, PTL

(* Only the loading of a line writes to the table.                         *)
LEMMA WhoWrites ==
  ASSUME Next, table' # table
  PROVE  \E q \in Procs : LoadLine(q)
  BY DEF Next, Publish, Start, Begin, Step, Fetch, Store, Open, Prepare, EndOfFile, Close, CloseFile,
         Done, PostRun, End, Fault, AuthenticateFails, Aborts, ListFails, SkipPackage, CreateFails,
         LoadFails, Abort, Kill

(* A run that is alone takes no revision back, whatever its mode, and      *)
(* whatever files, open or left behind, there are.                         *)
THEOREM NewestStays == Spec => NoRevisionUndone
<1>1. Inv /\ [Next]_vars
        => [\A p \in Procs :
              Writes(p) /\ local[p].alone => \A r \in Rows : table'[r] >= table[r]]_vars
  <2> SUFFICES ASSUME Inv, Next, NEW p \in Procs, Writes(p), local[p].alone, NEW r \in Rows
               PROVE  table'[r] >= table[r]
    BY DEF vars
  <2>1. PICK q \in Procs : LoadLine(q)
    BY WhoWrites DEF Writes
  <2>2. local \in [Procs -> LocalType] /\ table \in [Rows -> Stamps]
    BY TypesAre DEF Inv
  <2>3. q = p
    BY <2>1, <2>2 DEF LoadLine, Put, Writes
  <2>4. /\ pc[p] = "line" /\ local[p].next <= Len(View(p))
        /\ table' \in {table, [table EXCEPT ![<<Month(p), local[p].next>>] = Line(p)]}
    BY <2>1, <2>3 DEF LoadLine, Put
  <2>5. /\ View(p) = local[p].fetched
        /\ \A i \in 1 .. Lines[Month(p)] : table[<<Month(p), i>>] <= local[p].fetched[i]
    BY <2>4 DEF Inv, AloneHolds
  <2>6. local[p].next \in 1 .. Lines[Month(p)] /\ Line(p) \in Stamps
    BY <2>4, LineIs
  <2>7. table[<<Month(p), local[p].next>>] <= Line(p)
    BY <2>5, <2>6 DEF Line
  <2>8. table[r] \in Nat
    BY <2>2 DEF Stamps
  <2>9. CASE table' = table
    BY <2>8, <2>9
  <2>10. CASE table' = [table EXCEPT ![<<Month(p), local[p].next>>] = Line(p)]
    <3>1. CASE r = <<Month(p), local[p].next>>
      <4>1. table'[r] = Line(p)
        BY <2>2, <2>10, <3>1
      <4> QED BY <2>6, <2>7, <2>8, <3>1, <4>1 DEF Stamps
    <3>2. CASE r # <<Month(p), local[p].next>>
      <4>1. table'[r] = table[r]
        BY <2>2, <2>10, <3>2
      <4> QED BY <2>8, <4>1
    <3> QED BY <3>1, <3>2
  <2> QED BY <2>4, <2>9, <2>10
<1> QED BY <1>1, IngestInvariant, PTL DEF Spec, NoRevisionUndone

=============================================================================
