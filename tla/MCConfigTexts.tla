---------------------------- MODULE MCConfigTexts ----------------------------
(* Texts of CRAWLER_CONFIG.yml for ConfigForms.  A section is made of an   *)
(* enable and a schedule, if any; a 7 is Sunday.  First every schedule in  *)
(* a crawler without jobs; then two jobs that inherit, or do not, and jobs *)
(* that are none; then the data items of two jobs, and a mapping that is   *)
(* merged.                                                                 *)
EXTENDS TLC

Guided(minute, hours, n, days, padded) ==
  [kind |-> "guided", minute |-> minute, hours |-> hours, n |-> n, days |-> days, padded |-> padded]

Daily  == Guided(30, "at", 2, {}, FALSE)
Padded == Guided(5, "at", 4, {}, TRUE)
Broken == [Daily EXCEPT !.kind = "broken"]

Crons ==
  {Daily, Padded, Broken, [Daily EXCEPT !.kind = "number"], [Daily EXCEPT !.kind = "other"],
   Guided(0, "every", 0, {}, FALSE), Guided(0, "every", 0, {1}, FALSE),
   Guided(15, "step", 6, {}, FALSE), Guided(15, "step", 24, {}, FALSE),
   Guided(0, "at", 4, {1, 7}, FALSE), Guided(0, "at", 4, {0, 6}, FALSE)}

Changed == {Guided(15, "step", 3, {}, FALSE), Guided(0, "at", 6, {7}, FALSE)}

Maps(key, values) == {<<>>} \cup {(key :> v) : v \in values}
SectionsOf(es, cs) == {e @@ c : e \in Maps("enable", es), c \in Maps("schedule", cs)}
Null == [scalar |-> "null"]

OneJob == {[default |-> d, crawler |-> c] :
             d \in SectionsOf({"true"}, {Daily}) \cup {Null},
             c \in SectionsOf({"true", "false", "text"}, Crons)}

Jobs == {[latest |-> a, sweep |-> b] :
           a \in SectionsOf({"true", "false"}, {Daily, Broken}) \cup {Null},
           b \in SectionsOf({"false", "text"}, {Padded})}
        \cup {<<>>, Null, [scalar |-> "list"]}

ManyJobs == {[default |-> d, crawler |-> c @@ [jobs |-> jobs]] :
               d \in SectionsOf({"true"}, {Daily}) \cup {Null}, c \in SectionsOf({"false"}, {Daily}),
               jobs \in Jobs}

DefaultJobs == {[default |-> d @@ [jobs |-> [nightly |-> <<>>]], crawler |-> c] :
                  d \in SectionsOf({"true"}, {Daily}), c \in SectionsOf({"true"}, {Daily})}

Unconfigured == {[default |-> d] : d \in SectionsOf({"true"}, {Daily})} \cup {[crawler |-> <<>>]}

List(names) == [list |-> TRUE, names |-> names]
ItemLists == {List({}), List({"load"}), List({"load", "prices"}), List({"typo"}),
              [list |-> FALSE, names |-> {"load"}]}

On == [enable |-> "true", schedule |-> Daily]
More == Maps("more", {("a" :> 1), ("b" :> 2), ("a" :> 2)})
Items == {[default |-> On @@ d,
           crawler |-> c @@ [jobs |-> [latest |-> i, sweep |-> [schedule |-> Daily] @@ k]]] :
            d \in More, c \in More, i \in Maps("items", ItemLists), k \in Maps("items", ItemLists)}

Texts_ == OneJob \cup ManyJobs \cup DefaultJobs \cup Unconfigured \cup Items

Tables_ == "load" :> "ActualTotalLoad" @@ "prices" :> "EnergyPrices" @@ "flows" :> "PhysicalFlows"

=============================================================================
