------------------------- MODULE AdminServiceProofs -------------------------
(***************************************************************************)
(* Proofs about the admin service.  The first part is about AdminRuns, for *)
(* any crawlers and any number of run threads.  The second is about        *)
(* ConfigStore (the Store), for any windows and any values: its types, and *)
(* that no save writes over a text that its page has not shown.  The third *)
(* is about ConfigForms (the Forms), for any texts: that scheduler and     *)
(* admin read a text alike, and that a save of the dialog is exact.  The   *)
(* fourth is about AdminActions (the Page), for any forms and any edits of *)
(* the configuration: that a run was called for what its form asked for.   *)
(***************************************************************************)
EXTENDS MCAdminService, TLAPS


LEMMA AdminInit == Init => AdminInv
<1> SUFFICES ASSUME Init PROVE AdminInv
  OBVIOUS
<1> USE RunsAssumption DEF Init
<1>1. TypeOK
  BY DEF TypeOK, Active, Terminal, Places
<1>2. RowFollowsThread
  BY DEF RowFollowsThread, Holding
<1>3. LockFollowsThread
  BY DEF LockFollowsThread, Holding
<1>4. LevelOwed
  BY DEF LevelOwed
<1>5. OneActiveRow
  BY DEF OneActiveRow, Active
<1>6. QED
  BY <1>1, <1>2, <1>3, <1>4, <1>5 DEF AdminInv

(* A request that is accepted.                                             *)
LEMMA StartActionInv ==
  ASSUME AdminInv, NEW c \in Crawlers, NEW r \in Runs, StartAction(c, r)
  PROVE  AdminInv'
<1> USE RunsAssumption DEF AdminInv, StartAction, Goto, tableVars, streamVars, logVars
<1>1. TypeOK'
  BY DEF TypeOK, Active, Places
<1>2. RowFollowsThread'
  BY DEF RowFollowsThread, TypeOK, Holding, Active, Terminal
<1>3. LockFollowsThread'
  BY DEF LockFollowsThread, RowFollowsThread, TypeOK, Holding
<1>4. LevelOwed'
  BY DEF LevelOwed, TypeOK
<1>5. OneActiveRow'
  <2>1. \A s \in Runs : status[s] \in Active /\ crawler[s] = c => FALSE
    BY DEF RowFollowsThread, LockFollowsThread, TypeOK, Holding, Active,
           Terminal, Places
  <2>2. QED
    BY <2>1 DEF OneActiveRow, TypeOK
<1>6. QED
  BY <1>1, <1>2, <1>3, <1>4, <1>5

(* The steps of a run's thread between its first and its last update.      *)
LEMMA MarkRunningInv ==
  ASSUME AdminInv, NEW r \in Runs, MarkRunning(r)
  PROVE  AdminInv'
<1> USE RunsAssumption DEF AdminInv, MarkRunning, Goto, tableVars, streamVars, logVars
<1>1. TypeOK'
  <2>1. status[r] # "none"
    BY DEF RowFollowsThread, Holding
  <2>2. QED
    BY <2>1 DEF TypeOK, Active, Places, Terminal
<1>2. RowFollowsThread'
  BY DEF RowFollowsThread, TypeOK, Holding, Active, Terminal
<1>3. LockFollowsThread'
  BY DEF LockFollowsThread, TypeOK, Holding
<1>4. LevelOwed'
  BY DEF LevelOwed, TypeOK
<1>5. OneActiveRow'
  BY DEF OneActiveRow, RowFollowsThread, TypeOK, Active, Holding
<1>6. QED
  BY <1>1, <1>2, <1>3, <1>4, <1>5

LEMMA FaultInv ==
  ASSUME AdminInv, NEW r \in Runs, BeginFails(r) \/ SaveFails(r)
  PROVE  AdminInv'
<1> USE RunsAssumption DEF AdminInv, BeginFails, SaveFails, Goto, tableVars,
                          streamVars, logVars
<1>1. TypeOK'
  BY DEF TypeOK, Places
<1>2. RowFollowsThread'
  BY DEF RowFollowsThread, TypeOK, Holding, Active, Terminal
<1>3. LockFollowsThread'
  BY DEF LockFollowsThread, TypeOK, Holding
<1>4. LevelOwed'
  BY DEF LevelOwed, TypeOK
<1>5. OneActiveRow'
  BY DEF OneActiveRow
<1>6. QED
  BY <1>1, <1>2, <1>3, <1>4, <1>5

LEMMA RedirectInv ==
  ASSUME AdminInv, NEW r \in Runs,
         Redirect(r) \/ Execute(r, "succeeded") \/ Execute(r, "failed")
  PROVE  AdminInv'
<1> USE RunsAssumption DEF AdminInv, Redirect, Execute, Goto, tableVars,
                          streamVars, logVars
<1>1. TypeOK'
  BY DEF TypeOK, Places, Terminal
<1>2. RowFollowsThread'
  BY DEF RowFollowsThread, TypeOK, Holding, Active, Terminal
<1>3. LockFollowsThread'
  BY DEF LockFollowsThread, TypeOK, Holding
<1>4. LevelOwed'
  BY DEF LevelOwed, TypeOK
<1>5. OneActiveRow'
  BY DEF OneActiveRow
<1>6. QED
  BY <1>1, <1>2, <1>3, <1>4, <1>5

(* The level is raised and put back.                                       *)
LEMMA LevelInv ==
  ASSUME AdminInv, NEW r \in Runs,
         ReadLevel(r) \/ SetLevel(r) \/ RestoreLevel(r)
  PROVE  AdminInv'
<1> USE RunsAssumption DEF AdminInv, ReadLevel, SetLevel, RestoreLevel, Goto,
                          tableVars, streamVars, logVars
<1>1. TypeOK'
  BY DEF TypeOK, Places
<1>2. RowFollowsThread'
  BY DEF RowFollowsThread, TypeOK, Holding, Active, Terminal
<1>3. LockFollowsThread'
  BY DEF LockFollowsThread, TypeOK, Holding
<1>4. LevelOwed'
  <2>1. CASE ReadLevel(r)
    BY <2>1 DEF LevelOwed, TypeOK
  <2>2. CASE SetLevel(r)
    BY <2>2 DEF LevelOwed, TypeOK
  <2>3. CASE RestoreLevel(r)
    BY <2>3 DEF LevelOwed, TypeOK
  <2>4. QED
    BY <2>1, <2>2, <2>3
<1>5. OneActiveRow'
  BY DEF OneActiveRow
<1>6. QED
  BY <1>1, <1>2, <1>3, <1>4, <1>5

(* The final update, and then the lock.                                    *)
LEMMA SaveInv ==
  ASSUME AdminInv, NEW r \in Runs, Save(r)
  PROVE  AdminInv'
<1> USE RunsAssumption DEF AdminInv, Save, Goto, tableVars, streamVars, logVars
<1>1. TypeOK'
  <2>1. status[r] # "none"
    BY DEF RowFollowsThread, Holding
  <2>2. QED
    BY <2>1 DEF TypeOK, Active, Places, Terminal
<1>2. RowFollowsThread'
  BY DEF RowFollowsThread, TypeOK, Holding, Active, Terminal
<1>3. LockFollowsThread'
  BY DEF LockFollowsThread, TypeOK, Holding
<1>4. LevelOwed'
  BY DEF LevelOwed, TypeOK
<1>5. OneActiveRow'
  BY DEF OneActiveRow, TypeOK, Active, Terminal
<1>6. QED
  BY <1>1, <1>2, <1>3, <1>4, <1>5

LEMMA ReleaseInv ==
  ASSUME AdminInv, NEW r \in Runs, Release(r)
  PROVE  AdminInv'
<1> USE RunsAssumption DEF AdminInv, Release, Goto, tableVars, streamVars, logVars
<1>1. TypeOK'
  BY DEF TypeOK, Places
<1>2. RowFollowsThread'
  BY DEF RowFollowsThread, TypeOK, Holding, Active, Terminal
<1>3. LockFollowsThread'
  <2>1. crawler[r] \in Crawlers /\ activeRuns[crawler[r]] = r
    BY DEF LockFollowsThread, RowFollowsThread, TypeOK, Holding
  <2>2. \A s \in Runs : pc[s] \in Holding /\ crawler[s] = crawler[r] => s = r
    BY <2>1 DEF LockFollowsThread
  <2>3. QED
    BY <2>1, <2>2 DEF LockFollowsThread, RowFollowsThread, TypeOK, Holding
<1>4. LevelOwed'
  BY DEF LevelOwed, TypeOK
<1>5. OneActiveRow'
  BY DEF OneActiveRow
<1>6. QED
  BY <1>1, <1>2, <1>3, <1>4, <1>5

(* The service stops and starts.                                           *)
LEMMA RestartInv ==
  ASSUME AdminInv, Stop \/ Start
  PROVE  AdminInv'
<1> USE RunsAssumption DEF AdminInv, tableVars, streamVars, logVars
<1>1. CASE Stop
  <2> USE <1>1 DEF Stop
  <2>1. TypeOK'
    BY DEF TypeOK, Places
  <2>2. RowFollowsThread'
    BY DEF RowFollowsThread, TypeOK, Holding
  <2>3. LockFollowsThread'
    BY DEF LockFollowsThread, TypeOK, Holding
  <2>4. LevelOwed'
    BY DEF LevelOwed, TypeOK
  <2>5. OneActiveRow'
    BY DEF OneActiveRow
  <2>6. QED
    BY <2>1, <2>2, <2>3, <2>4, <2>5
<1>2. CASE Start
  <2> USE <1>2 DEF Start
  <2>1. TypeOK'
    BY DEF TypeOK, Active, Terminal
  <2>2. RowFollowsThread'
    BY DEF RowFollowsThread, LockFollowsThread, TypeOK, Holding, Active,
           Terminal, Places
  <2>3. LockFollowsThread'
    BY DEF LockFollowsThread, TypeOK
  <2>4. LevelOwed'
    BY DEF LevelOwed
  <2>5. OneActiveRow'
    BY DEF OneActiveRow, TypeOK, Active
  <2>6. QED
    BY <2>1, <2>2, <2>3, <2>4, <2>5
<1>3. QED
  BY <1>1, <1>2

LEMMA StutterInv == AdminInv /\ UNCHANGED vars => AdminInv'
BY DEF AdminInv, vars, TypeOK, RowFollowsThread, LockFollowsThread, LevelOwed,
       OneActiveRow

(* AdminInv holds in every state of the service.                           *)
THEOREM AdminInvariant == Spec => []AdminInv
<1>1. AdminInv /\ [Next]_vars => AdminInv'
  BY StartActionInv, MarkRunningInv, FaultInv, RedirectInv, LevelInv, SaveInv,
     ReleaseInv, RestartInv, StutterInv
  DEF Next, RunStep
<1>2. QED
  BY AdminInit, <1>1, PTL DEF Spec

-----------------------------------------------------------------------------
(* The table never shows two active runs of one crawler.                   *)
THEOREM OneActive == Spec => []OneActiveRow
<1>1. AdminInv => OneActiveRow
  BY DEF AdminInv
<1>2. QED
  BY <1>1, AdminInvariant, PTL

(* The locks in memory and the statuses in the table agree.                *)
THEOREM LockAgrees == Spec => []LockMatchesTable
<1>1. AdminInv => LockMatchesTable
  <2> SUFFICES ASSUME AdminInv, up PROVE LockMatchesTable
    BY DEF LockMatchesTable
  <2> USE DEF AdminInv, RowFollowsThread, LockFollowsThread, TypeOK, Holding
  <2>1. \A r \in Runs : status[r] \in Active => activeRuns[crawler[r]] = r
    BY DEF Active, Terminal, Places
  <2>2. ASSUME NEW c \in Crawlers, activeRuns[c] # None
        PROVE  \E r \in Runs : /\ activeRuns[c] = r /\ crawler[r] = c
                               /\ (status[r] \in Active \/ pc[r] = "release")
    BY <2>2
  <2>3. QED
    BY <2>1, <2>2 DEF LockMatchesTable
<1>2. QED
  BY <1>1, AdminInvariant, PTL

(* The root logger has its level back when no run executes.                *)
THEOREM LevelBack == Spec => []LevelRestored
<1>1. AdminInv => LevelRestored
  BY DEF AdminInv, LevelOwed, LevelRestored, Logging, TypeOK
<1>2. QED
  BY <1>1, AdminInvariant, PTL

(* A final status is final.                                                *)
THEOREM TerminalFinal == Spec => TerminalStaysTerminal
<1> DEFINE Kept == \A r \in Runs : status[r] \in Terminal => status'[r] = status[r]
<1>1. AdminInv /\ [Next]_vars => [Kept]_vars
  <2> SUFFICES ASSUME AdminInv, Next, NEW r \in Runs, status[r] \in Terminal
               PROVE  status'[r] = status[r]
    BY DEF vars
  <2> USE DEF AdminInv, TypeOK, RowFollowsThread, Holding, Active, Terminal,
              Goto, tableVars
  <2>1. ASSUME NEW s \in Runs, NEW c \in Crawlers, StartAction(c, s)
        PROVE  status'[r] = status[r]
    BY <2>1 DEF StartAction
  <2>2. ASSUME NEW s \in Runs, MarkRunning(s) \/ Save(s)
        PROVE  status'[r] = status[r]
    BY <2>2 DEF MarkRunning, Save
  <2>3. CASE Start
    BY <2>3 DEF Start
  <2>4. CASE Stop
    BY <2>4 DEF Stop
  <2>5. ASSUME NEW s \in Runs,
               BeginFails(s) \/ SaveFails(s) \/ ReadLevel(s) \/ SetLevel(s)
                 \/ Redirect(s) \/ Execute(s, "succeeded")
                 \/ Execute(s, "failed") \/ RestoreLevel(s) \/ Release(s)
        PROVE  status'[r] = status[r]
    BY <2>5 DEF BeginFails, SaveFails, ReadLevel, SetLevel, Redirect, Execute,
                RestoreLevel, Release
  <2>6. QED
    BY <2>1, <2>2, <2>3, <2>4, <2>5 DEF Next, RunStep
<1>2. QED
  BY <1>1, AdminInvariant, PTL DEF Spec, TerminalStaysTerminal

-----------------------------------------------------------------------------
(* The configuration's file.  A page of one read vouches for what it       *)
(* shows, a page that waits for its request is not rendered anew, and what *)
(* the file holds once it has been compared is the text compared with or   *)
(* came later.                                                             *)

Submitted == UNION {[{s} -> Values] : s \in Store!Sections}

HandlerType ==
  [step : {"update", "check", "write", "fill", "rerender"}, user : Users,
   text : Store!Content \cup Submitted, section : Store!Sections \cup {"none"}, since : SUBSET Store!Content]

(* What the types of TypeOK rest on: the fields of a request.              *)
FieldTypes ==
  /\ file \in Store!Texts
  /\ page \in [Users -> [kind : Store!Kinds, shown : Store!Texts, hash : Store!Texts]]
  /\ \/ handler = Store!Idle
     \/ /\ handler \in HandlerType
        /\ handler.step = "update" => /\ handler.section \in Store!Sections
                                      /\ handler.text \in [{handler.section} -> Values]
        /\ handler.step \in {"check", "write", "fill"} => handler.text \in Store!Content

(* The editor and the dashboard have text and hash from one read.          *)
FromOneRead ==
  \A u \in Users : page[u].kind \in {"editor", "dashboard"} => page[u].hash = page[u].shown

(* A window whose request is handled is not being rendered, except for the *)
(* page that a refused save renders anew.                                  *)
StaysAsItWas ==
  handler.step \in {"update", "check", "write", "fill"} => page[handler.user].kind # "loading"

(* After the comparison the file is what it was compared with, or what     *)
(* others have written since, or what the handler has left of it.          *)
ComparedOrNewer ==
  /\ handler.step = "write" => file \in {page[handler.user].hash} \cup handler.since
  /\ handler.step = "fill" => file \in {Store!Empty} \cup handler.since

StoreInv == FieldTypes /\ FromOneRead /\ StaysAsItWas /\ ComparedOrNewer

-----------------------------------------------------------------------------
(* A file without sections is no configuration.                            *)
LEMMA EmptyIsNoContent == Store!Empty \notin Store!Content
  BY DEF Store!Empty, Store!Content, Store!Sections

LEMMA StoreInit == Store!Init => StoreInv
  BY SMT DEF Store!Init, StoreInv, FieldTypes, FromOneRead, StaysAsItWas, ComparedOrNewer,
             Store!NoPage, Store!Idle, Store!Texts, Store!Kinds

(* A page that is rendered has the fields of a page.                       *)
LEMMA ShowType ==
  ASSUME page \in [Users -> [kind : Store!Kinds, shown : Store!Texts, hash : Store!Texts]],
         NEW u \in Users, NEW kind \in Store!Kinds, NEW shown \in Store!Texts, NEW hash \in Store!Texts,
         Store!Show(u, kind, shown, hash)
  PROVE  /\ page' \in [Users -> [kind : Store!Kinds, shown : Store!Texts, hash : Store!Texts]]
         /\ page'[u] = [kind |-> kind, shown |-> shown, hash |-> hash]
         /\ \A w \in Users \ {u} : page'[w] = page[w]
  BY DEF Store!Show

LEMMA StoreStep == StoreInv /\ [Store!Next]_(Store!vars) => StoreInv'
<1> USE DEF Store!Kinds, Store!Idle
<1> SUFFICES ASSUME StoreInv, [Store!Next]_(Store!vars) PROVE StoreInv'
  OBVIOUS
<1>0. Store!Empty \in Store!Texts
  BY DEF Store!Texts
<1>1. ASSUME NEW c \in Store!Content, Store!ExternalEdit(c) PROVE StoreInv'
  <2>1. CASE handler = Store!Idle
    BY <1>1, <2>1 DEF StoreInv, FieldTypes, FromOneRead, StaysAsItWas, ComparedOrNewer, Store!ExternalEdit, Store!Texts
  <2>2. CASE handler \in HandlerType
    <3>1. handler' = [handler EXCEPT !.since = @ \cup {c}]
      BY <1>1, <2>2 DEF Store!ExternalEdit, HandlerType
    <3> QED BY <1>1, <2>2, <3>1 DEF StoreInv, FieldTypes, FromOneRead, StaysAsItWas, ComparedOrNewer,
                                    Store!ExternalEdit, Store!Texts, HandlerType
  <2> QED BY <2>1, <2>2 DEF StoreInv, FieldTypes
<1>2. ASSUME NEW u \in Users, NEW k \in {"editor", "dashboard"}, Store!OpenPage(u, k) PROVE StoreInv'
  <2>1. /\ page' \in [Users -> [kind : Store!Kinds, shown : Store!Texts, hash : Store!Texts]]
        /\ page'[u] = [kind |-> k, shown |-> file, hash |-> file]
        /\ \A w \in Users \ {u} : page'[w] = page[w]
    BY <1>2, ShowType DEF Store!OpenPage, StoreInv, FieldTypes
  <2> QED BY <1>2, <2>1 DEF Store!OpenPage, Store!Waits, StoreInv, FieldTypes, FromOneRead, StaysAsItWas,
                            ComparedOrNewer, HandlerType
<1>3. ASSUME NEW u \in Users, Store!OpenDetail(u) PROVE StoreInv'
  <2>1. /\ page' \in [Users -> [kind : Store!Kinds, shown : Store!Texts, hash : Store!Texts]]
        /\ page'[u] = [kind |-> "loading", shown |-> file, hash |-> Store!Empty]
        /\ \A w \in Users \ {u} : page'[w] = page[w]
    BY <1>0, <1>3, ShowType DEF Store!OpenDetail, StoreInv, FieldTypes
  <2> QED BY <1>3, <2>1 DEF Store!OpenDetail, Store!Waits, StoreInv, FieldTypes, FromOneRead, StaysAsItWas,
                            ComparedOrNewer, HandlerType
<1>4. ASSUME NEW u \in Users, Store!HashDetail(u) PROVE StoreInv'
  <2>1. /\ page' \in [Users -> [kind : Store!Kinds, shown : Store!Texts, hash : Store!Texts]]
        /\ page'[u] = [kind |-> "detail", shown |-> page[u].shown, hash |-> file]
        /\ \A w \in Users \ {u} : page'[w] = page[w]
    BY <1>4, ShowType DEF Store!HashDetail, StoreInv, FieldTypes
  <2>2. handler' \in {handler, Store!Idle} /\ UNCHANGED file
    BY <1>4 DEF Store!HashDetail
  <2>3. handler.step \in {"update", "check", "write", "fill"} => handler.user # u
    BY <1>4 DEF Store!HashDetail, StoreInv, StaysAsItWas
  <2>4. FromOneRead'
    BY <2>1 DEF StoreInv, FromOneRead
  <2>5. CASE handler' = Store!Idle
    BY <2>1, <2>2, <2>4, <2>5 DEF StoreInv, FieldTypes, StaysAsItWas, ComparedOrNewer
  <2>6. CASE handler' = handler /\ handler = Store!Idle
    BY <2>1, <2>2, <2>4, <2>6 DEF StoreInv, FieldTypes, StaysAsItWas, ComparedOrNewer
  <2>7. CASE handler' = handler /\ handler \in HandlerType
    <3>1. handler.step \in {"update", "check", "write", "fill"} => page'[handler.user] = page[handler.user]
      BY <2>1, <2>3, <2>7 DEF HandlerType
    <3> QED BY <2>1, <2>2, <2>4, <2>7, <3>1 DEF StoreInv, FieldTypes, StaysAsItWas, ComparedOrNewer
  <2> QED BY <2>2, <2>5, <2>6, <2>7 DEF StoreInv, FieldTypes
<1>5. ASSUME NEW u \in Users, NEW c \in Store!Content, Store!SubmitEditor(u, c) PROVE StoreInv'
  BY <1>5 DEF Store!SubmitEditor, Store!Request, StoreInv, FieldTypes, FromOneRead, StaysAsItWas, ComparedOrNewer, HandlerType
<1>6. ASSUME NEW u \in Users, NEW v \in Values, Store!SubmitForm(u, v) PROVE StoreInv'
  <2>1. PICK s \in Store!Sections :
          /\ page[u].kind \in {"dashboard", "detail"}
          /\ handler' = Store!Request(u, "update", [t \in {s} |-> v], s)
    BY <1>6 DEF Store!SubmitForm
  <2>2. [t \in {s} |-> v] \in [{s} -> Values] /\ [t \in {s} |-> v] \in Submitted
    BY DEF Submitted
  <2> QED BY <1>6, <2>1, <2>2 DEF Store!SubmitForm, Store!Request, StoreInv, FieldTypes, FromOneRead, StaysAsItWas,
                                  ComparedOrNewer, HandlerType
<1>7. ASSUME handler \in HandlerType, Store!Refuse(handler.user), UNCHANGED file,
             handler.step \in {"update", "check"}
      PROVE  StoreInv'
  <2>1. handler.user \in Users
    BY <1>7 DEF HandlerType
  <2>2. CASE handler' = Store!Idle /\ UNCHANGED page
    BY <1>7, <2>2 DEF StoreInv, FieldTypes, FromOneRead, StaysAsItWas, ComparedOrNewer
  <2>3. CASE handler' = Store!Idle /\ Store!Show(handler.user, "dashboard", file, file)
    <3>1. /\ page' \in [Users -> [kind : Store!Kinds, shown : Store!Texts, hash : Store!Texts]]
          /\ page'[handler.user] = [kind |-> "dashboard", shown |-> file, hash |-> file]
          /\ \A w \in Users \ {handler.user} : page'[w] = page[w]
      BY <2>1, <2>3, ShowType DEF StoreInv, FieldTypes
    <3> QED BY <1>7, <2>3, <3>1 DEF StoreInv, FieldTypes, FromOneRead, StaysAsItWas, ComparedOrNewer
  <2>4. CASE handler' = [handler EXCEPT !.step = "rerender"] /\ Store!Show(handler.user, "loading", file, Store!Empty)
    <3>1. /\ page' \in [Users -> [kind : Store!Kinds, shown : Store!Texts, hash : Store!Texts]]
          /\ page'[handler.user] = [kind |-> "loading", shown |-> file, hash |-> Store!Empty]
          /\ \A w \in Users \ {handler.user} : page'[w] = page[w]
      BY <1>0, <2>1, <2>4, ShowType DEF StoreInv, FieldTypes
    <3> QED BY <1>7, <2>4, <3>1 DEF StoreInv, FieldTypes, FromOneRead, StaysAsItWas, ComparedOrNewer, HandlerType
  <2>5. CASE handler' = Store!Idle /\ page' = [page EXCEPT ![handler.user] = Store!NoPage]
    BY <1>0, <1>7, <2>1, <2>5 DEF StoreInv, FieldTypes, FromOneRead, StaysAsItWas, ComparedOrNewer, Store!NoPage
  <2> QED BY <1>7, <2>2, <2>3, <2>4, <2>5 DEF Store!Refuse
<1>8. CASE Store!Update
  <2>1. handler \in HandlerType
    BY <1>8 DEF Store!Update, StoreInv, FieldTypes
  <2>2. CASE file = Store!Empty
    BY <1>7, <1>8, <2>1, <2>2 DEF Store!Update
  <2>3. CASE file # Store!Empty
    <3> DEFINE updated == [file EXCEPT ![handler.section] = handler.text[handler.section]]
    <3>1. handler' = [handler EXCEPT !.step = "check", !.text = updated] /\ UNCHANGED <<page, file>>
      BY <1>8, <2>3 DEF Store!Update
    <3>2. file \in Store!Content /\ handler.section \in Store!Sections /\ handler.text[handler.section] \in Values
      BY <1>8, <2>1, <2>3 DEF StoreInv, FieldTypes, Store!Texts, Store!Update
    <3>3. updated \in Store!Content
      BY <3>2 DEF Store!Content
    <3> HIDE DEF updated
    <3> QED BY <1>8, <2>1, <3>1, <3>3 DEF Store!Update, StoreInv, FieldTypes, FromOneRead, StaysAsItWas,
                                          ComparedOrNewer, HandlerType
  <2> QED BY <2>2, <2>3
<1>9. CASE Store!Check
  <2>1. handler \in HandlerType
    BY <1>9 DEF Store!Check, StoreInv, FieldTypes
  <2>2. CASE file = page[handler.user].hash
    BY <1>9, <2>1, <2>2 DEF Store!Check, StoreInv, FieldTypes, FromOneRead, StaysAsItWas, ComparedOrNewer, HandlerType
  <2>3. CASE file # page[handler.user].hash
    BY <1>7, <1>9, <2>1, <2>3 DEF Store!Check
  <2> QED BY <2>2, <2>3
<1>10. ASSUME handler.step \in {"write", "fill"}, Store!Saved PROVE StoreInv'
  <2>1. handler \in HandlerType /\ handler.text \in Store!Content /\ handler.user \in Users
    BY <1>10 DEF StoreInv, FieldTypes, HandlerType
  <2> QED BY <1>0, <1>10, <2>1 DEF Store!Saved, StoreInv, FieldTypes, FromOneRead, StaysAsItWas, ComparedOrNewer,
                                   Store!NoPage, Store!Texts
<1>11. CASE Store!Truncate
  BY <1>0, <1>11 DEF Store!Truncate, StoreInv, FieldTypes, FromOneRead, StaysAsItWas, ComparedOrNewer, HandlerType
<1>12. CASE Store!Restart
  <2>1. \A u \in Users : page'[u] \in {Store!NoPage, page[u]}
    BY <1>12 DEF Store!Restart
  <2>2. page' \in [Users -> [kind : Store!Kinds, shown : Store!Texts, hash : Store!Texts]]
    BY <1>0, <1>12 DEF Store!Restart, StoreInv, FieldTypes, Store!NoPage
  <2> QED BY <1>12, <2>1, <2>2 DEF Store!Restart, StoreInv, FieldTypes, FromOneRead, StaysAsItWas,
                                   ComparedOrNewer, Store!NoPage
<1>13. CASE UNCHANGED Store!vars
  BY <1>13 DEF Store!vars, StoreInv, FieldTypes, FromOneRead, StaysAsItWas, ComparedOrNewer
<1> QED BY <1>1, <1>2, <1>3, <1>4, <1>5, <1>6, <1>8, <1>9, <1>10, <1>11, <1>12, <1>13
        DEF Store!Next, Store!Handle, Store!Replace, Store!Fill

(* The invariant in every reachable state.                                 *)
THEOREM StoreInvariant == Store!Spec => []StoreInv
  BY StoreInit, StoreStep, PTL DEF Store!Spec

-----------------------------------------------------------------------------
(* The variables keep their types: whatever is checked or written is a     *)
(* text with every section.                                                *)
THEOREM StoreTypes == Store!Spec => []Store!TypeOK
<1>1. StoreInv => Store!TypeOK
  BY DEF StoreInv, FieldTypes, Store!TypeOK, Store!Idle, HandlerType
<1> QED BY <1>1, StoreInvariant, PTL

(* docs/source/crawler_admin.md: a save from the editor or the dashboard   *)
(* only writes over what its page has shown, over what others wrote after  *)
(* the request, or over the file it has truncated itself.                  *)
THEOREM Unseen == Store!Spec => NoUnseenOverwrite
<1>1. StoreInv /\ [Store!Next]_(Store!vars)
        => [Store!Overwrites => file \in {page[handler.user].shown, Store!Empty} \cup handler.since]_(Store!vars)
  <2> SUFFICES ASSUME StoreInv, Store!Next, Store!Overwrites
               PROVE  file \in {page[handler.user].shown, Store!Empty} \cup handler.since
    OBVIOUS
  <2>1. handler.user \in Users
    BY DEF Store!Overwrites, StoreInv, FieldTypes, Store!Idle, HandlerType
  <2>2. page[handler.user].hash = page[handler.user].shown
    BY <2>1 DEF Store!Overwrites, StoreInv, FromOneRead
  <2> QED BY <2>2 DEF Store!Overwrites, StoreInv, ComparedOrNewer
<1> QED BY <1>1, StoreInvariant, PTL DEF Store!Spec, NoUnseenOverwrite, Store!NoUnseenOverwrite

-----------------------------------------------------------------------------
(* The texts.  Both programs' merges agree at every key, so both expand a  *)
(* section into the same entries; a save sets one section, and so changes  *)
(* the entry of that section alone.  This holds for any text, whether or   *)
(* not a behaviour reaches it.                                             *)

(* A job locks every table that it writes.                                 *)
LEMMA LocksHold == Forms!LocksCover
<1>1. ASSUME NEW c PROVE Forms!TargetTables(c) \subseteq Forms!GetJobLockKeys(c)
  BY DEF Forms!TargetTables, Forms!GetJobLockKeys
<1> QED BY <1>1 DEF Forms!LocksCover

(* Both programs merge alike.                                              *)
LEMMA MergesAgree ==
  ASSUME NEW d, NEW c
  PROVE  Forms!MergeWithDefaults(d, c) = Forms!GetCrawlerConfigWithDefaults(d, c)
<1> DEFINE M == Forms!MergeWithDefaults(d, c)
           G == Forms!GetCrawlerConfigWithDefaults(d, c)
           Deeper(k) == /\ k \in DOMAIN d \cap DOMAIN c \cap {"jobs", "more"}
                        /\ Forms!IsMapping(d[k]) /\ Forms!IsMapping(c[k])
           kept == [k \in DOMAIN d \ DOMAIN c |-> d[k]]
           deep == [k \in {k \in DOMAIN c : Deeper(k)} |->
                      [n \in DOMAIN d[k] \cup DOMAIN c[k] |->
                         IF Forms!Has(c[k], n) THEN c[k][n] ELSE d[k][n]]]
<1>1. M = Forms!Over(Forms!Over(deep, c), kept)
  BY DEF Forms!MergeWithDefaults
<1>2. DOMAIN deep = {k \in DOMAIN c : Deeper(k)} /\ DOMAIN kept = DOMAIN d \ DOMAIN c
  OBVIOUS
<1>3. DOMAIN Forms!Over(deep, c) = DOMAIN c
  BY <1>2 DEF Forms!Over
<1>4. M = [k \in DOMAIN d \cup DOMAIN c |-> M[k]]
  <2>1. DOMAIN kept \cup DOMAIN Forms!Over(deep, c) = DOMAIN d \cup DOMAIN c
    BY <1>2, <1>3
  <2>2. M = [k \in DOMAIN kept \cup DOMAIN Forms!Over(deep, c) |-> M[k]]
    <3> HIDE DEF M, deep, kept
    <3> QED BY <1>1 DEF Forms!Over
  <2> HIDE DEF M, deep, kept
  <2> QED BY <2>1, <2>2, Zenon
<1>5. G = [k \in DOMAIN d \cup DOMAIN c |-> G[k]]
  BY DEF Forms!GetCrawlerConfigWithDefaults
<1>6. ASSUME NEW k \in DOMAIN d \cup DOMAIN c PROVE M[k] = G[k]
  <2>1. CASE k \notin DOMAIN c
    <3>1. M[k] = kept[k]
      <4> HIDE DEF M, deep, kept
      <4> QED BY <1>1, <1>2, <1>3, <2>1 DEF Forms!Over, Forms!Has
    <3>2. kept[k] = d[k] /\ G[k] = d[k]
      BY <2>1 DEF Forms!GetCrawlerConfigWithDefaults, Forms!Has
    <3> QED BY <3>1, <3>2, Zenon
  <2>2. CASE k \in DOMAIN c /\ ~Deeper(k)
    <3>1. M[k] = c[k]
      <4> HIDE DEF M, deep, kept, Deeper
      <4> QED BY <1>1, <1>2, <1>3, <2>2 DEF Forms!Over, Forms!Has
    <3>2. G[k] = c[k]
      BY <2>2 DEF Forms!GetCrawlerConfigWithDefaults, Forms!Has
    <3> QED BY <3>1, <3>2, Zenon
  <2>3. CASE k \in DOMAIN c /\ Deeper(k)
    <3>1. M[k] = deep[k]
      <4> HIDE DEF M, deep, kept, Deeper
      <4> QED BY <1>1, <1>2, <1>3, <2>3 DEF Forms!Over, Forms!Has
    <3>2. deep[k] = [n \in DOMAIN d[k] \cup DOMAIN c[k] |-> IF Forms!Has(c[k], n) THEN c[k][n] ELSE d[k][n]]
      BY <2>3
    <3>3. G[k] = Forms!Over(c[k], d[k])
      BY <2>3 DEF Forms!GetCrawlerConfigWithDefaults, Forms!Has
    <3> QED BY <3>1, <3>2, <3>3, Zenon DEF Forms!Over
  <2> QED BY <2>1, <2>2, <2>3
<1> HIDE DEF M, G
<1> QED BY <1>4, <1>5, <1>6 DEF M, G

(* What a merge takes from where.                                          *)
LEMMA MergeIs ==
  ASSUME NEW d, NEW c
  PROVE  /\ DOMAIN Forms!MergeWithDefaults(d, c) = DOMAIN d \cup DOMAIN c
         /\ \A k \in DOMAIN c :
              k \notin {"jobs", "more"} \/ ~Forms!Has(d, k) => Forms!MergeWithDefaults(d, c)[k] = c[k]
         /\ \A k \in DOMAIN d \ DOMAIN c : Forms!MergeWithDefaults(d, c)[k] = d[k]
         /\ Forms!MergeWithDefaults(d, c) =
              [k \in DOMAIN Forms!MergeWithDefaults(d, c) |-> Forms!MergeWithDefaults(d, c)[k]]
  BY MergesAgree DEF Forms!GetCrawlerConfigWithDefaults, Forms!Has

(* Scalars are taken from the nearer section.                              *)
LEMMA MergeTakes ==
  ASSUME NEW d, NEW c, NEW k \in DOMAIN c, k \notin {"jobs", "more"}
  PROVE  Forms!MergeWithDefaults(d, c)[k] = c[k]
  BY MergesAgree DEF Forms!GetCrawlerConfigWithDefaults, Forms!Has

(* A merge has at a key what both have there.                              *)
LEMMA MergeAt ==
  ASSUME NEW d, NEW e, NEW b, NEW c, NEW k,
         Forms!Has(d, k) <=> Forms!Has(e, k), Forms!Has(d, k) => d[k] = e[k],
         Forms!Has(b, k) <=> Forms!Has(c, k), Forms!Has(b, k) => b[k] = c[k], Forms!Has(d, k) \/ Forms!Has(b, k)
  PROVE  Forms!MergeWithDefaults(d, b)[k] = Forms!MergeWithDefaults(e, c)[k]
<1>1. Forms!GetCrawlerConfigWithDefaults(d, b)[k] = Forms!GetCrawlerConfigWithDefaults(e, c)[k]
  BY DEF Forms!GetCrawlerConfigWithDefaults, Forms!Has
<1> QED BY <1>1, MergesAgree

HasJobs(s) == Forms!Has(s, "jobs") /\ Forms!IsMapping(s.jobs) /\ DOMAIN s.jobs # {}
BaseOf(d, s) == Forms!Without(Forms!MergeWithDefaults(d, s), "jobs")

(* The jobs of a section s that has the defaults d.                        *)
Entries(d, s) ==
  IF HasJobs(s)
  THEN {<<j, Forms!MergeWithDefaults(BaseOf(d, s), s.jobs[j])>> : j \in {j \in DOMAIN s.jobs : Forms!IsMapping(s.jobs[j])}}
  ELSE {<<"default", BaseOf(d, s)>>}

Loadable(j) == /\ Forms!Has(j[2], "schedule") /\ Forms!Parses(j[2].schedule)
               /\ Forms!Has(j[2], "enable") /\ j[2].enable = "true"

PlainText == Forms!Has(text, "default") /\ Forms!IsMapping(text.default) /\ ~Forms!Has(text.default, "jobs")
HasSection == Forms!Has(text, "crawler") /\ Forms!IsMapping(text.crawler)

(* The scheduler loads what the entries of the section say.                *)
LEMMA LoadsAre ==
  PlainText /\ HasSection => Forms!ScheduledJobs = {j \in Entries(text.default, text.crawler) : Loadable(j)}
<1> SUFFICES ASSUME PlainText, HasSection
             PROVE  Forms!ScheduledJobs = {j \in Entries(text.default, text.crawler) : Loadable(j)}
  OBVIOUS
<1> DEFINE d == text.default  s == text.crawler  C == Forms!MergeWithDefaults(d, s)
<1>1. Forms!DefaultConfig = d
  BY DEF Forms!DefaultConfig, PlainText
<1>a. /\ DOMAIN C = DOMAIN d \cup DOMAIN s
      /\ \A k \in DOMAIN s : k \notin {"jobs", "more"} \/ ~Forms!Has(d, k) => C[k] = s[k]
      /\ \A k \in DOMAIN d \ DOMAIN s : C[k] = d[k]
      /\ C = [k \in DOMAIN C |-> C[k]]
  BY MergeIs, Zenon
<1>b. "jobs" \notin DOMAIN d
  BY DEF PlainText, Forms!Has
<1>2. Forms!LoadConfig = C
  <2> DEFINE m == Forms!GetCrawlerConfigWithDefaults(d, Forms!Without(s, "jobs"))
             L == IF Forms!Has(s, "jobs") THEN Forms!Over([jobs |-> s.jobs], m) ELSE m
  <2>1. Forms!LoadConfig = L
    BY <1>1 DEF Forms!LoadConfig
  <2>2. m = Forms!MergeWithDefaults(d, Forms!Without(s, "jobs"))
    BY MergesAgree
  <2>3. DOMAIN Forms!Without(s, "jobs") = DOMAIN s \ {"jobs"} /\ \A k \in DOMAIN s \ {"jobs"} : Forms!Without(s, "jobs")[k] = s[k]
    BY DEF Forms!Without
  <2>4. DOMAIN m = DOMAIN d \cup (DOMAIN s \ {"jobs"})
    BY <2>3 DEF Forms!GetCrawlerConfigWithDefaults
  <2>5. DOMAIN L = DOMAIN C
    <3>1. DOMAIN C = DOMAIN d \cup DOMAIN s
      BY MergeIs
    <3>2. "jobs" \notin DOMAIN d
      BY DEF PlainText, Forms!Has
    <3> HIDE DEF m, C
    <3>3. CASE Forms!Has(s, "jobs")
      BY <2>4, <3>1, <3>2, <3>3 DEF Forms!Over, Forms!Has
    <3>4. CASE ~Forms!Has(s, "jobs")
      BY <2>4, <3>1, <3>2, <3>4 DEF Forms!Has
    <3> QED BY <3>3, <3>4
  <2>6. ASSUME NEW k \in DOMAIN C PROVE L[k] = C[k]
    <3>1. CASE k = "jobs"
      <4>1. k \in DOMAIN s /\ ~Forms!Has(d, k)
        <5> HIDE DEF C
        <5> QED BY <3>1, <1>a, <1>b DEF Forms!Has
      <4>2. C[k] = s[k]
        BY <4>1, <1>a, Zenon
      <4>3. L[k] = s[k]
        <5> HIDE DEF m
        <5> QED BY <3>1, <4>1 DEF Forms!Over, Forms!Has
      <4> QED BY <4>2, <4>3
    <3>2. CASE k # "jobs"
      <4>1. L[k] = m[k]
        <5>1. k \in DOMAIN m
          <6> HIDE DEF C, m
          <6> QED BY <1>a, <2>4, <3>2
        <5> HIDE DEF m, C
        <5> QED BY <3>2, <5>1 DEF Forms!Over, Forms!Has
      <4>2. m[k] = C[k]
        <5>1. Forms!Has(Forms!Without(s, "jobs"), k) <=> Forms!Has(s, k)
          BY <2>3, <3>2 DEF Forms!Has
        <5>2. Forms!Has(s, k) => Forms!Without(s, "jobs")[k] = s[k]
          BY <2>3, <3>2 DEF Forms!Has
        <5>3. Forms!Has(d, k) \/ Forms!Has(s, k)
          <6> HIDE DEF C
          <6> QED BY <1>a DEF Forms!Has
        <5>4. Forms!MergeWithDefaults(d, Forms!Without(s, "jobs"))[k] = C[k]
          BY <5>1, <5>2, <5>3, MergeAt
        <5> QED BY <2>2, <5>4, Zenon
      <4> QED BY <4>1, <4>2
    <3> QED BY <3>1, <3>2
  <2>7. C = [k \in DOMAIN C |-> C[k]]
    BY MergeIs
  <2>8. L = [k \in DOMAIN L |-> L[k]]
    <3>1. m = [k \in DOMAIN m |-> m[k]]
      BY DEF Forms!GetCrawlerConfigWithDefaults
    <3> HIDE DEF m
    <3> QED BY <3>1 DEF Forms!Over
  <2> HIDE DEF L, C
  <2> QED BY <2>1, <2>5, <2>6, <2>7, <2>8
<1>3. /\ Forms!Has(C, "jobs") <=> Forms!Has(s, "jobs")
      /\ Forms!Has(s, "jobs") => C.jobs = s.jobs
  <2> HIDE DEF C
  <2> QED BY <1>a, <1>b DEF Forms!Has
<1>4. Forms!ExpandCrawlerJobConfigs(C) = Entries(d, s)
  <2>1. CASE HasJobs(s)
    <3>1. Forms!ExpandCrawlerJobConfigs(C) =
            {<<j, Forms!GetCrawlerConfigWithDefaults(Forms!Without(C, "jobs"), s.jobs[j])>> :
               j \in {j \in DOMAIN s.jobs : Forms!IsMapping(s.jobs[j])}}
      <4> HIDE DEF C
      <4> QED BY <1>3, <2>1 DEF Forms!ExpandCrawlerJobConfigs, HasJobs
    <3>2. \A j : Forms!GetCrawlerConfigWithDefaults(Forms!Without(C, "jobs"), s.jobs[j])
                   = Forms!MergeWithDefaults(Forms!Without(C, "jobs"), s.jobs[j])
      BY MergesAgree
    <3> HIDE DEF C
    <3>3. Forms!ExpandCrawlerJobConfigs(C) =
            {<<j, Forms!MergeWithDefaults(Forms!Without(C, "jobs"), s.jobs[j])>> :
               j \in {j \in DOMAIN s.jobs : Forms!IsMapping(s.jobs[j])}}
      BY <3>1, <3>2
    <3> QED BY <2>1, <3>3 DEF Entries, BaseOf, C
  <2>2. CASE ~HasJobs(s)
    <3>1. Forms!ExpandCrawlerJobConfigs(C) = {<<"default", Forms!Without(C, "jobs")>>}
      <4> HIDE DEF C
      <4> QED BY <1>3, <2>2 DEF Forms!ExpandCrawlerJobConfigs, HasJobs
    <3> QED BY <2>2, <3>1 DEF Entries, BaseOf
  <2> QED BY <2>1, <2>2
<1> HIDE DEF C
<1> QED BY <1>2, <1>4 DEF Forms!ScheduledJobs, HasSection, Loadable

(* The jobs that are loaded, of a section s with the defaults d.           *)
Loads(d, s) == {j \in Entries(d, s) : Loadable(j)}

(* The admin shows the same entries, and a sound schedule with each.       *)
LEMMA ShownAre ==
  Forms!Valid /\ Forms!NoDefaultJobs =>
    /\ PlainText
    /\ ~Forms!Has(text, "crawler") => Forms!Shown = {}
    /\ Forms!Has(text, "crawler") =>
         /\ HasSection
         /\ IF HasJobs(text.crawler)
            THEN /\ Forms!Shown = Entries(text.default, text.crawler)
                 /\ Forms!JobPreviews = Forms!Shown
                 /\ \A j \in DOMAIN text.crawler.jobs : Forms!IsMapping(text.crawler.jobs[j])
            ELSE /\ Forms!Shown = {<<"default", Forms!MergeWithDefaults(text.default, text.crawler)>>}
                 /\ Forms!JobPreviews = {}
                 /\ Forms!Has(text.crawler, "jobs") => ~Forms!IsMapping(text.crawler.jobs) \/ DOMAIN text.crawler.jobs = {}
         /\ \A j \in Forms!Shown : Forms!Sound(j[2])
<1> SUFFICES ASSUME Forms!Valid, Forms!NoDefaultJobs
             PROVE  /\ PlainText
                    /\ ~Forms!Has(text, "crawler") => Forms!Shown = {}
                    /\ Forms!Has(text, "crawler") =>
                         /\ HasSection
                         /\ IF HasJobs(text.crawler)
                            THEN /\ Forms!Shown = Entries(text.default, text.crawler)
                                 /\ Forms!JobPreviews = Forms!Shown
                                 /\ \A j \in DOMAIN text.crawler.jobs : Forms!IsMapping(text.crawler.jobs[j])
                            ELSE /\ Forms!Shown = {<<"default", Forms!MergeWithDefaults(text.default, text.crawler)>>}
                                 /\ Forms!JobPreviews = {}
                                 /\ Forms!Has(text.crawler, "jobs") => ~Forms!IsMapping(text.crawler.jobs) \/ DOMAIN text.crawler.jobs = {}
                         /\ \A j \in Forms!Shown : Forms!Sound(j[2])
  OBVIOUS
<1> DEFINE d == text.default  s == text.crawler  C == Forms!MergeWithDefaults(d, s)
<1>1. PlainText /\ Forms!DefaultConfig = d
  BY DEF Forms!Valid, Forms!NoDefaultJobs, Forms!DefaultConfig, PlainText
<1>2. ~Forms!Has(text, "crawler") => Forms!Shown = {}
  BY DEF Forms!Shown
<1>3. ASSUME Forms!Has(text, "crawler")
      PROVE  /\ HasSection
             /\ IF HasJobs(s)
                THEN /\ Forms!Shown = Entries(d, s) /\ Forms!JobPreviews = Forms!Shown
                     /\ \A j \in DOMAIN s.jobs : Forms!IsMapping(s.jobs[j])
                ELSE /\ Forms!Shown = {<<"default", C>>} /\ Forms!JobPreviews = {}
                     /\ Forms!Has(s, "jobs") => ~Forms!IsMapping(s.jobs) \/ DOMAIN s.jobs = {}
             /\ \A j \in Forms!Shown : Forms!Sound(j[2])
  <2>1. HasSection /\ Forms!Sound(C)
    BY <1>3 DEF Forms!Valid, HasSection
  <2>2. CASE HasJobs(s)
    <3>1. ~Forms!IsNull(s.jobs)
      BY <2>2 DEF HasJobs, Forms!IsNull
    <3>2. Forms!JobsSound(s.jobs, Forms!Without(C, "jobs"))
      BY <1>3, <2>2, <3>1 DEF Forms!Valid, HasJobs
    <3>3. \A j \in DOMAIN s.jobs : Forms!IsMapping(s.jobs[j]) /\ Forms!Sound(Forms!MergeWithDefaults(BaseOf(d, s), s.jobs[j]))
      <4> HIDE DEF C
      <4> QED BY <3>2 DEF Forms!JobsSound, BaseOf, C
    <3>4. Forms!JobPreviews = Entries(d, s)
      <4> HIDE DEF s
      <4> QED BY <1>1, <2>2 DEF Forms!JobPreviews, Entries, HasJobs, BaseOf, s
    <3>5. Entries(d, s) = {<<j, Forms!MergeWithDefaults(BaseOf(d, s), s.jobs[j])>> : j \in DOMAIN s.jobs}
      BY <2>2, <3>3 DEF Entries
    <3>6. Entries(d, s) # {} /\ \A j \in Entries(d, s) : Forms!Sound(j[2])
      <4> DEFINE e(j) == <<j, Forms!MergeWithDefaults(BaseOf(d, s), s.jobs[j])>>
      <4>1. \A j \in DOMAIN s.jobs : e(j) \in Entries(d, s) /\ Forms!Sound(e(j)[2])
        BY <3>3, <3>5
      <4>2. \A x \in Entries(d, s) : \E j \in DOMAIN s.jobs : x = e(j)
        BY <3>5
      <4>3. DOMAIN s.jobs # {}
        BY <2>2 DEF HasJobs
      <4> HIDE DEF e
      <4> QED BY <4>1, <4>2, <4>3, Zenon
    <3>7. Forms!Shown = Entries(d, s)
      BY <1>3, <2>1, <3>4, <3>6 DEF Forms!Shown, HasSection
    <3> QED BY <2>1, <2>2, <3>3, <3>4, <3>6, <3>7
  <2>3. CASE ~HasJobs(s)
    <3>1. Forms!JobPreviews = {}
      BY <2>3 DEF Forms!JobPreviews, HasJobs
    <3>2. Forms!Shown = {<<"default", C>>}
      BY <1>1, <1>3, <2>1, <3>1 DEF Forms!Shown, HasSection, Forms!Card
    <3> QED BY <2>1, <2>3, <3>1, <3>2 DEF HasJobs
  <2> QED BY <2>2, <2>3
<1> QED BY <1>1, <1>2, <1>3

(* One entry is listed as what it is due and has set, if it is enabled.    *)
LEMMA ListedOne ==
  ASSUME NEW x
  PROVE  Forms!Listed({x}) = IF x[2].enable = "true" THEN {<<x[1], Forms!Due(x[2].schedule), Forms!Settings(x[2])>>} ELSE {}
<1>1. CASE x[2].enable = "true"
  <2>1. {j \in {x} : j[2].enable = "true"} = {x}
    BY <1>1
  <2>2. Forms!Listed({x}) = {<<j[1], Forms!Due(j[2].schedule), Forms!Settings(j[2])>> : j \in {x}}
    BY <2>1, Zenon DEF Forms!Listed
  <2> QED BY <1>1, <2>2
<1>2. CASE x[2].enable # "true"
  BY <1>2 DEF Forms!Listed
<1> QED BY <1>1, <1>2

(* A section without jobs is loaded as one.                                *)
LEMMA ListedSingle ==
  ASSUME NEW d, NEW s, ~HasJobs(s), NEW C, C = Forms!MergeWithDefaults(d, s),
         Forms!Has(C, "schedule"), Forms!Parses(C.schedule), Forms!Has(C, "enable")
  PROVE  Forms!Listed(Loads(d, s)) = IF C.enable = "true" THEN {<<"default", Forms!Due(C.schedule), Forms!Settings(C)>>} ELSE {}
<1> DEFINE y == <<"default", BaseOf(d, s)>>
<1>1. Entries(d, s) = {y}
  BY DEF Entries
<1>2. DOMAIN BaseOf(d, s) = DOMAIN C \ {"jobs"} /\ \A k \in DOMAIN C \ {"jobs"} : BaseOf(d, s)[k] = C[k]
  BY DEF BaseOf, Forms!Without
<1>3. /\ Loadable(y) <=> C.enable = "true"
      /\ BaseOf(d, s).schedule = C.schedule /\ BaseOf(d, s).enable = C.enable
  BY <1>2 DEF Loadable, Forms!Has
<1>4. Forms!Settings(BaseOf(d, s)) = Forms!Settings(C)
  <2>1. DOMAIN C \ {"enable", "schedule", "jobs"} = DOMAIN BaseOf(d, s) \ {"enable", "schedule", "jobs"}
    BY <1>2
  <2> QED BY <1>2, <2>1 DEF Forms!Settings
<1>5. CASE C.enable = "true"
  <2>1. Loads(d, s) = {y}
    BY <1>1, <1>3, <1>5 DEF Loads
  <2>2. Forms!Listed({y}) = {<<"default", Forms!Due(C.schedule), Forms!Settings(C)>>}
    <3>1. y[1] = "default" /\ y[2] = BaseOf(d, s)
      OBVIOUS
    <3> HIDE DEF y
    <3> QED BY <1>3, <1>4, <1>5, <3>1, ListedOne
  <2> QED BY <1>5, <2>1, <2>2
<1>6. CASE C.enable # "true"
  <2>1. Loads(d, s) = {}
    BY <1>1, <1>3, <1>6 DEF Loads
  <2> QED BY <1>6, <2>1 DEF Forms!Listed
<1> QED BY <1>5, <1>6

(* What it shows is listed like what is loaded.                            *)
LEMMA ListedAlike ==
  ASSUME Forms!Valid, Forms!NoDefaultJobs, Forms!Has(text, "crawler")
  PROVE  Forms!Listed(Forms!Shown) = Forms!Listed(Loads(text.default, text.crawler))
<1> DEFINE d == text.default  s == text.crawler  C == Forms!MergeWithDefaults(d, s)
<1>1. CASE HasJobs(s)
  <2>1. Forms!Shown = Entries(d, s) /\ \A j \in Forms!Shown : Forms!Sound(j[2])
    BY <1>1, ShownAre
  <2>2. \A j \in Forms!Shown : j[2].enable = "true" <=> Loadable(j)
    BY <2>1 DEF Forms!Sound, Loadable
  <2>3. {j \in Forms!Shown : j[2].enable = "true"} = {j \in Loads(d, s) : j[2].enable = "true"}
    BY <2>1, <2>2 DEF Loads, Loadable
  <2> QED BY <2>3 DEF Forms!Listed
<1>2. CASE ~HasJobs(s)
  <2> DEFINE x == <<"default", C>>
  <2>0. Forms!Shown = {x} /\ \A j \in Forms!Shown : Forms!Sound(j[2])
    BY <1>2, ShownAre
  <2>1. x[1] = "default" /\ x[2] = C
    OBVIOUS
  <2>2. Forms!Sound(C)
    BY <2>0
  <2>3. Forms!Listed({x}) = IF C.enable = "true" THEN {<<"default", Forms!Due(C.schedule), Forms!Settings(C)>>} ELSE {}
    <3> HIDE DEF x, C
    <3> QED BY <2>1, ListedOne
  <2>4. Forms!Listed(Loads(d, s)) = IF C.enable = "true" THEN {<<"default", Forms!Due(C.schedule), Forms!Settings(C)>>} ELSE {}
    <3> HIDE DEF d, s
    <3> QED BY <1>2, <2>2, ListedSingle DEF Forms!Sound
  <2> QED BY <2>0, <2>3, <2>4
<1> QED BY <1>1, <1>2

(* So it shows as enabled what the scheduler loads.                        *)
LEMMA ShownLoaded == Forms!ShownIsLoaded
<1> SUFFICES ASSUME Forms!Valid, Forms!NoDefaultJobs PROVE Forms!Listed(Forms!Shown) = Forms!Listed(Forms!ScheduledJobs)
  BY DEF Forms!ShownIsLoaded
<1>1. CASE ~Forms!Has(text, "crawler")
  BY <1>1, ShownAre DEF Forms!ScheduledJobs
<1>2. CASE Forms!Has(text, "crawler")
  <2>1. Forms!ScheduledJobs = Loads(text.default, text.crawler)
    BY <1>2, ShownAre, LoadsAre DEF Loads
  <2> QED BY <1>2, <2>1, ListedAlike
<1> QED BY <1>1, <1>2

(* A section whose enable and schedule are set.                            *)
LEMMA SetsIs ==
  ASSUME NEW s, NEW enable, NEW c
  PROVE  /\ DOMAIN Forms!Sets(s, enable, c) = DOMAIN s \cup {"enable", "schedule"}
         /\ Forms!Sets(s, enable, c).enable = enable /\ Forms!Sets(s, enable, c).schedule = c
         /\ \A k \in DOMAIN s \ {"enable", "schedule"} : Forms!Sets(s, enable, c)[k] = s[k]
  BY DEF Forms!Sets, Forms!Over, Forms!Has

(* A section t is s with enable and schedule set; so is a merge of it.     *)
IsSet(t, s, enable, c) ==
  /\ DOMAIN t = DOMAIN s \cup {"enable", "schedule"} /\ t.enable = enable /\ t.schedule = c
  /\ \A k \in DOMAIN s \ {"enable", "schedule", "jobs"} : t[k] = s[k]

IsSetTo(M, N, enable, c) ==
  /\ Forms!Has(M, "enable") /\ M.enable = enable
  /\ Forms!Has(M, "schedule") /\ M.schedule = c
  /\ Forms!Settings(M) = Forms!Settings(N)

(* A merge of a section that is set is set.                                *)
LEMMA SetsMerged ==
  ASSUME NEW d, NEW s, NEW t, NEW enable, NEW c, IsSet(t, s, enable, c)
  PROVE  IsSetTo(Forms!MergeWithDefaults(d, t), Forms!MergeWithDefaults(d, s), enable, c)
<1> USE DEF IsSet
<1> DEFINE M == Forms!MergeWithDefaults(d, t)  N == Forms!MergeWithDefaults(d, s)
<1>1. DOMAIN M = DOMAIN d \cup DOMAIN t /\ DOMAIN N = DOMAIN d \cup DOMAIN s
  BY MergeIs, Zenon
<1>2. M.enable = enable /\ M.schedule = c
  <2>1. /\ "enable" \in DOMAIN t /\ "enable" \notin {"jobs", "more"}
        /\ "schedule" \in DOMAIN t /\ "schedule" \notin {"jobs", "more"}
    OBVIOUS
  <2>2. Forms!MergeWithDefaults(d, t)["enable"] = t["enable"] /\ Forms!MergeWithDefaults(d, t)["schedule"] = t["schedule"]
    BY <2>1, MergeTakes
  <2> QED BY <2>2
<1>3. DOMAIN M \ {"enable", "schedule", "jobs"} = DOMAIN N \ {"enable", "schedule", "jobs"}
  <2> HIDE DEF M, N
  <2> QED BY <1>1
<1>4. ASSUME NEW k \in DOMAIN N \ {"enable", "schedule", "jobs"} PROVE M[k] = N[k]
  <2>1. Forms!Has(t, k) <=> Forms!Has(s, k)
    BY DEF Forms!Has
  <2>2. Forms!Has(t, k) => t[k] = s[k]
    BY DEF Forms!Has
  <2>3. Forms!Has(d, k) \/ Forms!Has(t, k)
    <3> HIDE DEF M, N
    <3> QED BY <1>1 DEF Forms!Has
  <2>4. Forms!MergeWithDefaults(d, t)[k] = Forms!MergeWithDefaults(d, s)[k]
    <3> HIDE DEF M, N, IsSet
    <3> QED BY <2>1, <2>2, <2>3, MergeAt
  <2> QED BY <2>4
<1>5. Forms!Settings(M) = Forms!Settings(N)
  <2> HIDE DEF M, N
  <2> QED BY <1>3, <1>4 DEF Forms!Settings
<1>6. Forms!Has(M, "enable") /\ Forms!Has(M, "schedule")
  <2> HIDE DEF M, N
  <2> QED BY <1>1 DEF Forms!Has
<1> HIDE DEF M, N
<1>7. IsSetTo(M, N, enable, c)
  BY <1>2, <1>5, <1>6 DEF IsSetTo
<1> QED BY <1>7 DEF M, N

(* The dialog sets a section so.                                           *)
LEMMA SetsSet ==
  ASSUME NEW s, NEW enable, NEW c
  PROVE  IsSet(Forms!Sets(s, enable, c), s, enable, c)
  BY DEF IsSet, Forms!Sets, Forms!Over, Forms!Has

(* And what is merged from it.                                             *)
LEMMA SetsOfSection ==
  ASSUME NEW d, NEW s, NEW enable, NEW c
  PROVE  IsSetTo(Forms!MergeWithDefaults(d, Forms!Sets(s, enable, c)), Forms!MergeWithDefaults(d, s), enable, c)
  BY SetsSet, SetsMerged

(* The other keys stay.                                                    *)
LEMMA SetsHas ==
  ASSUME NEW s, NEW enable, NEW c
  PROVE  /\ "scalar" \in DOMAIN Forms!Sets(s, enable, c) <=> "scalar" \in DOMAIN s
         /\ "jobs" \in DOMAIN Forms!Sets(s, enable, c) <=> "jobs" \in DOMAIN s
         /\ Forms!Has(s, "jobs") => Forms!Sets(s, enable, c).jobs = s.jobs
  BY DEF Forms!Sets, Forms!Over, Forms!Has

(* The form of the dialog has the same hours and days.                     *)
LEMMA FormKeepsDue ==
  ASSUME NEW c, NEW e \in Forms!ResolveSchedulerSchedule(Forms!ParseScheduleIntoFormState(c))
  PROVE  Forms!Due(e) = Forms!Due(c)
<1> DEFINE f == Forms!ParseScheduleIntoFormState(c)
<1>1. CASE c.kind = "guided" /\ c.days = {} /\ c.hours = "every"
  <2>1. f = [mode |-> "hourly", minute |-> c.minute, n |-> 1, days |-> {}, padded |-> c.padded]
    BY <1>1 DEF Forms!ParseScheduleIntoFormState
  <2>2. e = Forms!Cron("guided", c.minute, "every", 1, {}, FALSE)
    <3> HIDE DEF f
    <3> QED BY <2>1 DEF Forms!ResolveSchedulerSchedule, f
  <2> QED BY <1>1, <2>2 DEF Forms!Due, Forms!Cron
<1>2. CASE c.kind = "guided" /\ c.days = {} /\ c.hours = "step"
  <2>1. f = [mode |-> "hourly", minute |-> c.minute, n |-> c.n, days |-> {}, padded |-> c.padded]
    BY <1>2 DEF Forms!ParseScheduleIntoFormState
  <2>2. e = Forms!Cron("guided", c.minute, IF c.n = 1 THEN "every" ELSE "step", c.n, {}, FALSE)
    <3> HIDE DEF f
    <3> QED BY <2>1 DEF Forms!ResolveSchedulerSchedule, f
  <2>3. {h \in 0 .. 23 : h % 1 = 0} = 0 .. 23
    OBVIOUS
  <2>4. CASE c.n = 1
    BY <1>2, <2>2, <2>3, <2>4 DEF Forms!Due, Forms!Cron
  <2>5. CASE c.n # 1
    BY <1>2, <2>2, <2>5 DEF Forms!Due, Forms!Cron
  <2> QED BY <2>4, <2>5
<1>3. CASE c.kind = "guided" /\ c.days = {} /\ c.hours = "at"
  <2>1. f = [mode |-> "daily", minute |-> c.minute, n |-> c.n, days |-> {}, padded |-> c.padded]
    BY <1>3 DEF Forms!ParseScheduleIntoFormState
  <2>2. e = Forms!Cron("guided", c.minute, "at", c.n, {}, FALSE)
    <3> HIDE DEF f
    <3> QED BY <2>1 DEF Forms!ResolveSchedulerSchedule, f
  <2> QED BY <1>3, <2>2 DEF Forms!Due, Forms!Cron
<1>4. CASE c.kind = "guided" /\ c.days # {} /\ c.hours = "at"
  <2>1. f = [mode |-> "weekly", minute |-> c.minute, n |-> c.n, days |-> Forms!Normalize(c.days), padded |-> c.padded]
    BY <1>4 DEF Forms!ParseScheduleIntoFormState
  <2>2. e = Forms!Cron("guided", c.minute, "at", c.n, Forms!Normalize(c.days), FALSE) /\ Forms!Normalize(c.days) # {}
    <3>1. f.mode = "weekly" /\ f.minute = c.minute /\ f.n = c.n /\ f.days = Forms!Normalize(c.days)
      BY <2>1
    <3> HIDE DEF f
    <3>2. e \in {Forms!Cron("guided", f.minute, "at", f.n, days, FALSE) : days \in {f.days} \ {{}}}
      BY <3>1 DEF Forms!ResolveSchedulerSchedule, f
    <3> QED BY <3>1, <3>2
  <2>3. Forms!Normalize(Forms!Normalize(c.days)) = Forms!Normalize(c.days)
    BY DEF Forms!Normalize
  <2> QED BY <1>4, <2>2, <2>3 DEF Forms!Due, Forms!Cron
<1>5. CASE ~(c.kind = "guided" /\ ((c.days = {} /\ c.hours \in {"every", "step"}) \/ c.hours = "at"))
  <2>1. f = [mode |-> "advanced", expression |-> c]
    BY <1>5 DEF Forms!ParseScheduleIntoFormState
  <2>2. e = c
    <3> HIDE DEF f
    <3> QED BY <2>1 DEF Forms!ResolveSchedulerSchedule, f
  <2> QED BY <2>2
<1> QED BY <1>1, <1>2, <1>3, <1>4, <1>5

(* Without a padded number, the form is shown as it is.                    *)
LEMMA FormIsShown ==
  ASSUME NEW c, ~c.padded
  PROVE  Forms!Rendered(Forms!ParseScheduleIntoFormState(c)) = Forms!ParseScheduleIntoFormState(c)
  BY DEF Forms!Rendered, Forms!ParseScheduleIntoFormState

EntryOf(d, s, j) == Forms!MergeWithDefaults(BaseOf(d, s), s.jobs[j])

(* The jobs of a section that are listed.                                  *)
LEMMA ListedJobs ==
  ASSUME NEW d, NEW s, HasJobs(s), \A j \in DOMAIN s.jobs : Forms!IsMapping(s.jobs[j])
  PROVE  Forms!Listed(Loads(d, s)) =
           {<<j, Forms!Due(EntryOf(d, s, j).schedule), Forms!Settings(EntryOf(d, s, j))>> :
              j \in {j \in DOMAIN s.jobs : Loadable(<<j, EntryOf(d, s, j)>>)}}
<1> DEFINE E(j) == EntryOf(d, s, j)  J == {j \in DOMAIN s.jobs : Loadable(<<j, E(j)>>)}
<1>1. Entries(d, s) = {<<j, E(j)>> : j \in DOMAIN s.jobs}
  BY DEF Entries, EntryOf
<1>2. Loads(d, s) = {<<j, E(j)>> : j \in J}
  BY <1>1 DEF Loads
<1>3. \A j \in J : E(j).enable = "true"
  BY DEF Loadable
<1>4. {x \in Loads(d, s) : x[2].enable = "true"} = {<<j, E(j)>> : j \in J}
  <2> HIDE DEF J
  <2> QED BY <1>2, <1>3
<1>5. Forms!Listed(Loads(d, s)) = {<<x[1], Forms!Due(x[2].schedule), Forms!Settings(x[2])>> : x \in {<<j, E(j)>> : j \in J}}
  <2> HIDE DEF J
  <2> QED BY <1>4, Zenon DEF Forms!Listed
<1>6. {<<x[1], Forms!Due(x[2].schedule), Forms!Settings(x[2])>> : x \in {<<j, E(j)>> : j \in J}}
        = {<<j, Forms!Due(E(j).schedule), Forms!Settings(E(j))>> : j \in J}
  <2> DEFINE L(x) == <<x[1], Forms!Due(x[2].schedule), Forms!Settings(x[2])>>
             X(j) == <<j, Forms!Due(E(j).schedule), Forms!Settings(E(j))>>
  <2>1. \A j : L(<<j, E(j)>>) = X(j)
    OBVIOUS
  <2> HIDE DEF J, L, X, E
  <2>2. {L(x) : x \in {<<j, E(j)>> : j \in J}} = {X(j) : j \in J}
    BY <2>1
  <2> QED BY <2>2 DEF L, X
<1> QED BY <1>5, <1>6

(* One job whose enable and schedule are set.                              *)
SetJob(s, job, enable, c) == [s EXCEPT !.jobs[job] = Forms!Sets(@, enable, c)]

(* Setting one job changes that one in the list.                           *)
LEMMA JobSet ==
  ASSUME NEW d, ~Forms!Has(d, "jobs"), NEW s, HasJobs(s), \A j \in DOMAIN s.jobs : Forms!IsMapping(s.jobs[j]),
         NEW job \in DOMAIN s.jobs, NEW enable, NEW c, Forms!Parses(c)
  PROVE  Forms!Listed(Loads(d, SetJob(s, job, enable, c))) =
           {x \in Forms!Listed(Loads(d, s)) : x[1] # job} \cup
             (IF enable = "true"
              THEN {<<job, Forms!Due(c), Forms!Settings(EntryOf(d, s, job))>>} ELSE {})
<1>t. PICK t : t = SetJob(s, job, enable, c)
  OBVIOUS
<1> DEFINE E(j) == EntryOf(d, s, j)
           F(j) == EntryOf(d, t, j)
           J == {j \in DOMAIN s.jobs : Loadable(<<j, E(j)>>)}
           K == {j \in DOMAIN t.jobs : Loadable(<<j, F(j)>>)}
           X(j) == <<j, Forms!Due(E(j).schedule), Forms!Settings(E(j))>>
           Y(j) == <<j, Forms!Due(F(j).schedule), Forms!Settings(F(j))>>
<1>1. /\ DOMAIN t = DOMAIN s /\ \A k \in DOMAIN s \ {"jobs"} : t[k] = s[k]
      /\ DOMAIN t.jobs = DOMAIN s.jobs
      /\ \A j \in DOMAIN s.jobs \ {job} : t.jobs[j] = s.jobs[j]
      /\ t.jobs[job] = Forms!Sets(s.jobs[job], enable, c)
  BY <1>t DEF SetJob, HasJobs, Forms!Has
<1>0. "scalar" \in DOMAIN t.jobs[job] <=> "scalar" \in DOMAIN s.jobs[job]
  BY <1>1, SetsHas
<1>2. Forms!IsMapping(t.jobs[job])
  BY <1>0 DEF Forms!IsMapping
<1>3. HasJobs(t) /\ \A j \in DOMAIN t.jobs : Forms!IsMapping(t.jobs[j])
  BY <1>1, <1>2 DEF HasJobs, Forms!IsMapping, Forms!Has
<1>4. BaseOf(d, t) = BaseOf(d, s)
  <2> DEFINE M == Forms!MergeWithDefaults(d, s)  N == Forms!MergeWithDefaults(d, t)
  <2>1. DOMAIN M = DOMAIN d \cup DOMAIN s /\ DOMAIN N = DOMAIN d \cup DOMAIN t
    BY MergeIs, Zenon
  <2>2. ASSUME NEW k \in DOMAIN M \ {"jobs"} PROVE N[k] = M[k]
    <3>1. (Forms!Has(t, k) <=> Forms!Has(s, k)) /\ (Forms!Has(t, k) => t[k] = s[k])
      BY <1>1 DEF Forms!Has
    <3>2. Forms!Has(d, k) \/ Forms!Has(t, k)
      <4> HIDE DEF M, N
      <4> QED BY <1>1, <2>1 DEF Forms!Has
    <3> QED BY <3>1, <3>2, MergeAt
  <2>3. DOMAIN N = DOMAIN M
    <3> HIDE DEF M, N
    <3> QED BY <1>1, <2>1
  <2> HIDE DEF M, N
  <2>4. Forms!Without(N, "jobs") = Forms!Without(M, "jobs")
    BY <2>2, <2>3 DEF Forms!Without
  <2> QED BY <2>4 DEF BaseOf, M, N
<1>5. \A j \in DOMAIN s.jobs \ {job} : F(j) = E(j)
  BY <1>1, <1>4 DEF EntryOf
<1>6. /\ Forms!Has(F(job), "enable") /\ F(job).enable = enable
      /\ Forms!Has(F(job), "schedule") /\ F(job).schedule = c
      /\ Forms!Settings(F(job)) = Forms!Settings(E(job))
  <2>1. F(job) = Forms!MergeWithDefaults(BaseOf(d, s), Forms!Sets(s.jobs[job], enable, c))
    BY <1>1, <1>4 DEF EntryOf
  <2>2. IsSetTo(F(job), E(job), enable, c)
    BY <2>1, SetsOfSection DEF EntryOf
  <2> HIDE DEF E, F
  <2> QED BY <2>2 DEF IsSetTo
<1>7. Loadable(<<job, F(job)>>) <=> enable = "true"
  <2> HIDE DEF F
  <2> QED BY <1>6 DEF Loadable
<1>8. K \ {job} = J \ {job} /\ (job \in K <=> enable = "true")
  <2>1. \A j \in DOMAIN s.jobs \ {job} : Loadable(<<j, F(j)>>) <=> Loadable(<<j, E(j)>>)
    <3> HIDE DEF E, F
    <3> QED BY <1>5
  <2> HIDE DEF E, F
  <2> QED BY <1>1, <1>7, <2>1
<1>9. (\A j \in J \ {job} : Y(j) = X(j)) /\ Y(job) = <<job, Forms!Due(c), Forms!Settings(E(job))>>
  <2> HIDE DEF E, F
  <2> QED BY <1>5, <1>6
<1>10. Forms!Listed(Loads(d, s)) = {X(j) : j \in J} /\ Forms!Listed(Loads(d, t)) = {Y(j) : j \in K}
  <2>1. Forms!Listed(Loads(d, s)) = {X(j) : j \in J}
    BY ListedJobs
  <2>2. Forms!Listed(Loads(d, t)) = {Y(j) : j \in K}
    BY ONLY <1>3, ListedJobs
  <2> QED BY <2>1, <2>2
<1>11. \A j : X(j)[1] = j
  OBVIOUS
<1> HIDE DEF J, K, X, Y, E, F
<1>12. {Y(j) : j \in K} = {x \in {X(j) : j \in J} : x[1] # job}
                            \cup (IF enable = "true" THEN {Y(job)} ELSE {})
  <2>1. ASSUME NEW y \in {Y(j) : j \in K}
        PROVE  y \in {x \in {X(j) : j \in J} : x[1] # job} \cup (IF enable = "true" THEN {Y(job)} ELSE {})
    <3>1. PICK j \in K : y = Y(j)
      OBVIOUS
    <3>2. CASE j = job
      BY <1>8, <3>1, <3>2
    <3>3. CASE j # job
      BY <1>8, <1>9, <1>11, <3>1, <3>3
    <3> QED BY <3>2, <3>3
  <2>2. ASSUME NEW x \in {X(j) : j \in J}, x[1] # job PROVE x \in {Y(j) : j \in K}
    <3>1. PICK j \in J : x = X(j)
      OBVIOUS
    <3> QED BY <1>8, <1>9, <1>11, <2>2, <3>1
  <2>3. enable = "true" => Y(job) \in {Y(j) : j \in K}
    BY <1>8
  <2> QED BY <2>1, <2>2, <2>3
<1> QED BY <1>t, <1>9, <1>10, <1>12 DEF E

LoadsAreNext == PlainText /\ HasSection => Forms!ScheduledJobs = Loads(text.default, text.crawler)

(* It holds after a step as well.                                          *)
LEMMA LoadsNext == LoadsAreNext'
<1>1. LoadsAreNext
  BY LoadsAre DEF LoadsAreNext, Loads
<1> QED BY <1>1, PTL

(* What the scheduler loads after a dialog has written its text.           *)
LEMMA UpdateListed ==
  ASSUME Forms!Valid, Forms!NoDefaultJobs, NEW job \in Forms!JobChoices, NEW enable, NEW c, Forms!Parses(c),
         text' \in Forms!UpdateCrawlerScheduleConfigText(job, enable, c)
  PROVE  Forms!Listed(Forms!ScheduledJobs') = Forms!Others(job) \cup
           (IF enable = "true" THEN {<<Forms!Name(job), Forms!Due(c), Forms!SettingsOf(Forms!Name(job))>>} ELSE {})
<1> DEFINE d == text.default  s == text.crawler
<1>1. CASE ~Forms!Has(text, "crawler")
  <2> DEFINE u == [enable |-> enable, schedule |-> c]  N == Forms!MergeWithDefaults(d, u)
  <2>1. job = "none" /\ text' = Forms!Over([crawler |-> u], text)
    BY <1>1 DEF Forms!UpdateCrawlerScheduleConfigText, Forms!JobChoices
  <2>2. PlainText /\ Forms!Shown = {} /\ Forms!ScheduledJobs = {} /\ Forms!DefaultConfig = d
    BY <1>1, ShownAre DEF Forms!ScheduledJobs, Forms!DefaultConfig, PlainText
  <2>3. Forms!Has(text', "crawler") /\ text'.crawler = u /\ Forms!Has(text', "default") /\ text'.default = d
    BY <2>1, <2>2 DEF Forms!Over, Forms!Has, PlainText
  <2>4. Forms!IsMapping(u) /\ ~HasJobs(u)
    BY DEF Forms!IsMapping, HasJobs, Forms!Has
  <2>5. Forms!ScheduledJobs' = Loads(d, u)
    <3>1. PlainText' /\ HasSection'
      <4> HIDE DEF u, d
      <4> QED BY <2>2, <2>3, <2>4 DEF PlainText, HasSection, d
    <3> HIDE DEF u, d
    <3> QED BY <2>3, <3>1, LoadsNext DEF LoadsAreNext
  <2>6. /\ Forms!Has(N, "enable") /\ N.enable = enable
        /\ Forms!Has(N, "schedule") /\ N.schedule = c
        /\ Forms!Settings(N) = Forms!Settings(Forms!MergeWithDefaults(d, <<>>))
    <3>1. DOMAIN <<>> = {}
      OBVIOUS
    <3>2. IsSet(u, <<>>, enable, c)
      BY <3>1 DEF IsSet
    <3> HIDE DEF u, d
    <3>3. IsSetTo(Forms!MergeWithDefaults(d, u), Forms!MergeWithDefaults(d, <<>>), enable, c)
      BY <3>2, SetsMerged
    <3> QED BY <3>3 DEF IsSetTo
  <2>7. Forms!Settings(Forms!MergeWithDefaults(d, <<>>)) = Forms!Settings(d)
    <3> DEFINE e == <<>>  M == Forms!MergeWithDefaults(d, e)
    <3>1. DOMAIN e = {}
      OBVIOUS
    <3>2. DOMAIN M = DOMAIN d
      <4>1. DOMAIN M = DOMAIN d \cup DOMAIN e
        BY MergeIs, Zenon
      <4> HIDE DEF M, e
      <4> QED BY <3>1, <4>1
    <3>3. \A k \in DOMAIN d : M[k] = d[k]
      <4>1. M = Forms!GetCrawlerConfigWithDefaults(d, e)
        BY MergesAgree
      <4> HIDE DEF M, e
      <4> QED BY <3>1, <4>1 DEF Forms!GetCrawlerConfigWithDefaults, Forms!Has
    <3> HIDE DEF M, d
    <3>4. Forms!Settings(M) = Forms!Settings(d)
      BY <3>2, <3>3 DEF Forms!Settings
    <3> QED BY <3>4 DEF M, e
  <2>8. Forms!Listed(Loads(d, u)) = IF enable = "true" THEN {<<"default", Forms!Due(c), Forms!Settings(d)>>} ELSE {}
    <3> HIDE DEF d, u, N
    <3>1. N = Forms!MergeWithDefaults(d, u)
      BY DEF N
    <3> QED BY <2>4, <2>6, <2>7, <3>1, ListedSingle
  <2>9. Forms!Others(job) = {}
    BY <2>2 DEF Forms!Others, Forms!Listed
  <2>10. Forms!Name(job) = "default" /\ Forms!SettingsOf("default") = Forms!Settings(d)
    BY <2>1, <2>2 DEF Forms!Name, Forms!SettingsOf
  <2> QED BY <2>5, <2>8, <2>9, <2>10
<1>2. CASE Forms!Has(text, "crawler") /\ job = "none"
  <2> DEFINE u == Forms!Sets(s, enable, c)  N == Forms!MergeWithDefaults(d, u)  C == Forms!MergeWithDefaults(d, s)
  <2>1. PlainText /\ HasSection
    BY <1>2, ShownAre
  <2>2. /\ text' = [text EXCEPT !.crawler = u]
        /\ Forms!Has(s, "jobs") => ~Forms!IsMapping(s.jobs)
    BY <1>2, <2>1 DEF Forms!UpdateCrawlerScheduleConfigText, HasSection
  <2>3. Forms!Has(text', "crawler") /\ text'.crawler = u /\ Forms!Has(text', "default") /\ text'.default = d
    <3> HIDE DEF u
    <3> QED BY <2>1, <2>2 DEF PlainText, HasSection, Forms!Has
  <2>4. Forms!IsMapping(u) /\ ~HasJobs(u) /\ ~HasJobs(s)
    <3>1. /\ "scalar" \in DOMAIN u <=> "scalar" \in DOMAIN s
          /\ "jobs" \in DOMAIN u <=> "jobs" \in DOMAIN s
          /\ Forms!Has(s, "jobs") => u.jobs = s.jobs
      BY SetsHas
    <3> HIDE DEF u, s
    <3> QED BY <2>1, <2>2, <3>1 DEF Forms!IsMapping, HasJobs, Forms!Has, HasSection, s
  <2>5. Forms!ScheduledJobs' = Loads(d, u)
    <3> HIDE DEF u, d
    <3>1. PlainText' /\ HasSection'
      BY <2>1, <2>3, <2>4 DEF PlainText, HasSection, d
    <3> QED BY <2>3, <3>1, LoadsNext DEF LoadsAreNext
  <2>6. /\ Forms!Has(N, "enable") /\ N.enable = enable
        /\ Forms!Has(N, "schedule") /\ N.schedule = c
        /\ Forms!Settings(N) = Forms!Settings(C)
    <3> HIDE DEF d, s
    <3> QED BY SetsOfSection DEF IsSetTo
  <2>7. Forms!Listed(Loads(d, u)) = IF enable = "true" THEN {<<"default", Forms!Due(c), Forms!Settings(C)>>} ELSE {}
    <3> HIDE DEF d, u, N, C
    <3>1. N = Forms!MergeWithDefaults(d, u)
      BY DEF N
    <3> QED BY <2>4, <2>6, <3>1, ListedSingle
  <2>8. Forms!Shown = {<<"default", C>>}
    BY <1>2, <2>4, ShownAre
  <2>9. Forms!Others(job) = {}
    <3>1. Forms!ScheduledJobs = {j \in {<<"default", BaseOf(d, s)>>} : Loadable(j)}
      BY <2>1, <2>4, LoadsAre DEF Entries
    <3> QED BY <1>2, <3>1 DEF Forms!Others, Forms!Listed, Forms!Name
  <2>10. Forms!Name(job) = "default" /\ Forms!SettingsOf("default") = Forms!Settings(C)
    <3> DEFINE x == CHOOSE j \in Forms!Shown : j[1] = "default"
    <3>1. <<"default", C>>[1] = "default" /\ <<"default", C>>[2] = C
      OBVIOUS
    <3>2. x = <<"default", C>>
      <4> HIDE DEF C
      <4> QED BY <2>8, <3>1
    <3>3. x[2] = C
      BY <3>1, <3>2, Zenon
    <3>4. Forms!SettingsOf("default") = Forms!Settings(x[2])
      <4>1. Forms!Shown # {}
        BY <2>8
      <4> QED BY <4>1 DEF Forms!SettingsOf
    <3> HIDE DEF x, C
    <3> QED BY <1>2, <3>3, <3>4 DEF Forms!Name
  <2> QED BY <2>5, <2>7, <2>9, <2>10
<1>3. CASE Forms!Has(text, "crawler") /\ job # "none"
  <2> DEFINE u == SetJob(s, job, enable, c)
  <2>1. PlainText /\ HasSection
    BY <1>3, ShownAre
  <2>2. /\ text' = [text EXCEPT !.crawler.jobs[job] = Forms!Sets(@, enable, c)]
        /\ Forms!Has(s, "jobs") /\ Forms!IsMapping(s.jobs) /\ Forms!Has(s.jobs, job)
    BY <1>3, <2>1 DEF Forms!UpdateCrawlerScheduleConfigText, HasSection, Forms!IsMapping
  <2>3. Forms!Has(text', "crawler") /\ text'.crawler = u /\ Forms!Has(text', "default") /\ text'.default = d
    BY <2>1, <2>2 DEF PlainText, HasSection, Forms!Has, SetJob
  <2>4. HasJobs(s) /\ job \in DOMAIN s.jobs /\ ~Forms!Has(d, "jobs") /\ \A j \in DOMAIN s.jobs : Forms!IsMapping(s.jobs[j])
    <3>1. HasJobs(s)
      BY <2>2 DEF HasJobs, Forms!Has
    <3> QED BY <1>3, <2>1, <2>2, <3>1, ShownAre DEF PlainText, Forms!Has
  <2>5. Forms!ScheduledJobs' = Loads(d, u)
    <3>1. Forms!IsMapping(u)
      BY <2>1 DEF Forms!IsMapping, HasSection, SetJob
    <3> HIDE DEF u, d
    <3>2. PlainText' /\ HasSection'
      BY <2>1, <2>3, <3>1 DEF PlainText, HasSection, d
    <3> QED BY <2>3, <3>2, LoadsNext DEF LoadsAreNext
  <2>6. Forms!Listed(Loads(d, u)) =
           {x \in Forms!Listed(Loads(d, s)) : x[1] # job} \cup
             (IF enable = "true" THEN {<<job, Forms!Due(c), Forms!Settings(EntryOf(d, s, job))>>} ELSE {})
    <3> HIDE DEF d, s
    <3> QED BY <2>4, JobSet
  <2>7. Forms!ScheduledJobs = Loads(d, s)
    BY <2>1, LoadsAre DEF Loads
  <2>8. Forms!Name(job) = job /\ Forms!Others(job) = {x \in Forms!Listed(Loads(d, s)) : x[1] # job}
    BY <1>3, <2>7 DEF Forms!Others, Forms!Name
  <2>9. Forms!SettingsOf(job) = Forms!Settings(EntryOf(d, s, job))
    <3>1. Forms!Shown = Entries(d, s)
      BY <1>3, <2>4, ShownAre
    <3>2. Forms!Shown = {<<j, EntryOf(d, s, j)>> : j \in DOMAIN s.jobs}
      BY <2>4, <3>1 DEF Entries, EntryOf
    <3>3. <<job, EntryOf(d, s, job)>> \in Forms!Shown /\ \A x \in Forms!Shown : x[1] = job => x[2] = EntryOf(d, s, job)
      BY <2>4, <3>2
    <3>4. (CHOOSE j \in Forms!Shown : j[1] = job)[2] = EntryOf(d, s, job)
      <4>1. <<job, EntryOf(d, s, job)>>[1] = job
        OBVIOUS
      <4> QED BY <3>3, <4>1
    <3>5. Forms!Shown # {}
      BY <3>3
    <3> QED BY <3>4, <3>5 DEF Forms!SettingsOf
  <2> HIDE DEF u, d, s
  <2> QED BY <2>5, <2>6, <2>8, <2>9
<1> QED BY <1>1, <1>2, <1>3

(* What is listed, but for one job, and that job.                          *)
LEMMA ListedSplit ==
  ASSUME NEW S, NEW y \in S, \A x \in S : x[1] = y[1] => x = y
  PROVE  Forms!Listed(S) = {x \in Forms!Listed(S) : x[1] # y[1]} \cup
           (IF y[2].enable = "true" THEN {<<y[1], Forms!Due(y[2].schedule), Forms!Settings(y[2])>>} ELSE {})
<1> DEFINE L(x) == <<x[1], Forms!Due(x[2].schedule), Forms!Settings(x[2])>>
           T == {x \in S : x[2].enable = "true"}
<1>1. Forms!Listed(S) = {L(x) : x \in T}
  BY DEF Forms!Listed
<1>2. \A x : L(x)[1] = x[1]
  OBVIOUS
<1> SUFFICES {L(x) : x \in T} = {z \in {L(x) : x \in T} : z[1] # y[1]} \cup
               (IF y[2].enable = "true" THEN {L(y)} ELSE {})
  BY <1>1
<1>3. y \in T <=> y[2].enable = "true"
  OBVIOUS
<1>4. \A x \in T : x[1] = y[1] => x = y
  OBVIOUS
<1> HIDE DEF L, T
<1> QED BY <1>2, <1>3, <1>4

(* Every save changes what is loaded as it says.                           *)
LEMMA SavesAreExact == Forms!SavesExactly
<1> SUFFICES ASSUME Forms!Valid, Forms!NoDefaultJobs
             PROVE  /\ \A job \in Forms!JobChoices, enable \in {"true", "false"}, c \in NewSchedules :
                         Forms!SaveChanged(job, enable, c) =>
                           Forms!Listed(Forms!ScheduledJobs') = Forms!Others(job) \cup
                             (IF enable = "true" THEN {<<Forms!Name(job), Forms!Due(c), Forms!SettingsOf(Forms!Name(job))>>} ELSE {})
                    /\ \A j \in Forms!Shown :
                         Forms!SaveUntouched(j[1], j[2]) /\ ~j[2].schedule.padded
                           => Forms!Listed(Forms!ScheduledJobs') = Forms!Listed(Forms!ScheduledJobs)
  BY DEF Forms!SavesExactly
<1>1. ASSUME NEW job \in Forms!JobChoices, NEW enable \in {"true", "false"}, NEW c \in NewSchedules,
             Forms!SaveChanged(job, enable, c)
      PROVE  Forms!Listed(Forms!ScheduledJobs') = Forms!Others(job) \cup
               (IF enable = "true" THEN {<<Forms!Name(job), Forms!Due(c), Forms!SettingsOf(Forms!Name(job))>>} ELSE {})
  <2>1. PICK e \in Forms!ResolveSchedulerSchedule(Forms!ParseScheduleIntoFormState(c)) :
               Forms!Parses(e) /\ text' \in Forms!UpdateCrawlerScheduleConfigText(job, enable, e)
    BY <1>1 DEF Forms!SaveChanged, Forms!Save
  <2>2. Forms!Due(e) = Forms!Due(c)
    BY FormKeepsDue
  <2>3. Forms!Listed(Forms!ScheduledJobs') = Forms!Others(job) \cup
          (IF enable = "true" THEN {<<Forms!Name(job), Forms!Due(e), Forms!SettingsOf(Forms!Name(job))>>} ELSE {})
    BY <2>1, UpdateListed
  <2> QED BY <2>2, <2>3
<1>2. ASSUME NEW j \in Forms!Shown, Forms!SaveUntouched(j[1], j[2]), ~j[2].schedule.padded
      PROVE  Forms!Listed(Forms!ScheduledJobs') = Forms!Listed(Forms!ScheduledJobs)
  <2> DEFINE s == text.crawler  c == j[2].schedule  enable == j[2].enable
             job == IF Forms!Has(s, "jobs") /\ j[1] \in Forms!JobChoices THEN j[1] ELSE "none"
  <2>1. Forms!Has(text, "crawler")
    BY DEF Forms!Shown
  <2>2. PICK e \in Forms!ResolveSchedulerSchedule(Forms!Rendered(Forms!ParseScheduleIntoFormState(c))) :
               Forms!Parses(e) /\ text' \in Forms!UpdateCrawlerScheduleConfigText(job, enable, e)
    BY <1>2 DEF Forms!SaveUntouched, Forms!Save
  <2>3. Forms!Due(e) = Forms!Due(c)
    <3>1. Forms!Rendered(Forms!ParseScheduleIntoFormState(c)) = Forms!ParseScheduleIntoFormState(c)
      BY <1>2, FormIsShown
    <3> QED BY <2>2, <3>1, FormKeepsDue
  <2>4. job \in Forms!JobChoices /\ Forms!Name(job) = j[1] /\ \A x \in Forms!Shown : x[1] = j[1] => x = j
    <3>1. CASE HasJobs(s)
      <4>1. Forms!Shown = Entries(text.default, s) /\ Forms!JobPreviews = Forms!Shown /\ HasSection
        BY <2>1, <3>1, ShownAre
      <4>2. Forms!Has(s, "jobs") /\ Forms!IsMapping(s.jobs)
        BY <3>1 DEF HasJobs
      <4>3. j[1] \in Forms!JobChoices
        BY <2>1, <4>1 DEF Forms!JobChoices, HasSection
      <4>4. job = j[1]
        BY <4>2, <4>3
      <4>5. job # "none"
        <5>1. ~Forms!Has(text, "crawler") \/ ~(job = "none")
          BY <2>2, <4>2 DEF Forms!UpdateCrawlerScheduleConfigText
        <5> QED BY <2>1, <5>1
      <4>6. \A x \in Forms!Shown : x[1] = j[1] => x = j
        <5> DEFINE E(i) == <<i, Forms!MergeWithDefaults(BaseOf(text.default, s), s.jobs[i])>>
        <5>1. \A x \in Forms!Shown : \E i : x = E(i)
          BY <3>1, <4>1 DEF Entries
        <5>2. \A i : E(i)[1] = i
          OBVIOUS
        <5> HIDE DEF E
        <5> QED BY <5>1, <5>2
      <4> QED BY <4>3, <4>4, <4>5, <4>6 DEF Forms!Name
    <3>2. CASE ~HasJobs(s)
      <4>1. Forms!Shown = {<<"default", Forms!MergeWithDefaults(text.default, s)>>} /\ Forms!JobPreviews = {}
        BY <2>1, <3>2, ShownAre
      <4>2. Forms!JobChoices = {"none"} /\ j[1] = "default"
        BY <4>1 DEF Forms!JobChoices
      <4> QED BY <4>1, <4>2 DEF Forms!Name
    <3> QED BY <3>1, <3>2
  <2> HIDE DEF job
  <2>5. Forms!Listed(Forms!ScheduledJobs') = Forms!Others(job) \cup
          (IF enable = "true" THEN {<<Forms!Name(job), Forms!Due(e), Forms!SettingsOf(Forms!Name(job))>>} ELSE {})
    BY <2>2, <2>4, UpdateListed
  <2>6. Forms!SettingsOf(Forms!Name(job)) = Forms!Settings(j[2])
    <3>1. (CHOOSE x \in Forms!Shown : x[1] = j[1]) = j
      BY <2>4
    <3> QED BY <2>4, <3>1 DEF Forms!SettingsOf
  <2>7. Forms!Listed(Forms!ScheduledJobs) = Forms!Listed(Forms!Shown)
    BY ShownLoaded DEF Forms!ShownIsLoaded
  <2>8. Forms!Listed(Forms!Shown) = {x \in Forms!Listed(Forms!Shown) : x[1] # j[1]} \cup
          (IF enable = "true" THEN {<<j[1], Forms!Due(c), Forms!Settings(j[2])>>} ELSE {})
    BY <2>4, ListedSplit
  <2> QED BY <2>3, <2>4, <2>5, <2>6, <2>7, <2>8 DEF Forms!Others
<1> QED BY <1>1, <1>2

-----------------------------------------------------------------------------
(* Two jobs that write one table share a key of the locks: every table of  *)
(* _get_target_data_items is among the keys of get_job_lock_keys.          *)
THEOREM SharedTables == ConfigSpec => []LocksCover
<1>1. LocksCover
  BY LocksHold DEF LocksCover
<1> QED BY <1>1, PTL

(* Of a valid text without default jobs, the dashboard shows as enabled    *)
(* the jobs that the scheduler loads.                                      *)
THEOREM DashboardTells == ConfigSpec => []ShownIsLoaded
<1>1. ShownIsLoaded
  BY ShownLoaded DEF ShownIsLoaded
<1> QED BY <1>1, PTL

(* docs/source/crawler_config.md: "The dialog updates only the selected    *)
(* job's enable and schedule values."                                      *)
THEOREM DialogIsExact == ConfigSpec => SaveIsExact
<1>1. [text # NoText => Forms!SavesExactly]_text
  BY SavesAreExact
<1> QED BY <1>1, PTL DEF SaveIsExact

-----------------------------------------------------------------------------
(* Forms.  What is kept of one: it will be prepared as it was meant, or is *)
(* one of those whose lists are lost when it is shown again.               *)
ListLost(wish) ==
  \/ wish.action = "gapfill_backfill" /\ Page!IsAtMostOne(wish.gapfill_tables)
  \/ wish.action = "entsoe_targeted" /\ Page!IsAtMostOne(wish.target_data_items)

Meant(wish, again, sent) ==
  \/ \A c \in FormConfigs : Page!PrepareAction(sent, c) \subseteq Page!PrepareAction(wish, c)
  \/ again /\ ListLost(wish)

IsFilled(step) ==
  \E wish \in Wishes, again \in BOOLEAN : \E sent :
    /\ form = [step |-> step, wish |-> wish, again |-> again, form |-> sent]
    /\ Meant(wish, again, sent)

IsQueued ==
  /\ form = [step |-> "queued", wish |-> form.wish, again |-> form.again, form |-> form.form,
             seen |-> form.seen, prepared |-> form.prepared]
  /\ form.wish \in Wishes /\ form.seen \in FormConfigs
  /\ \/ form.prepared \in Page!PrepareAction(form.wish, form.seen)
     \/ form.again /\ ListLost(form.wish)

FormInv ==
  form.step # "off" =>
    /\ config \in FormConfigs
    /\ form.step \in {"none", "filled", "refused", "queued", "succeeded", "failed", "rejected"}
    /\ form.step \in {"filled", "refused"} => IsFilled(form.step)
    /\ form.step = "queued" => IsQueued
    /\ Page!ActsAsAsked

(* A field with one value.                                                 *)
LEMMA OneValue ==
  ASSUME NEW field, Page!IsOne(field)
  PROVE  /\ field # {} /\ \E x : field = {x}
         /\ \A x \in field : field = {x} /\ Page!Only(field) = x
<1>1. PICK x \in field : field = {x}
  BY DEF Page!IsOne
<1>2. Page!Only(field) = x
  BY <1>1 DEF Page!Only
<1> QED BY <1>1, <1>2

(* The values of a list arrive whether they are sent as a text or a list.  *)
LEMMA ListArrives ==
  ASSUME NEW selected
  PROVE  Page!EnsureList(Page!FormToPayload(selected)) = selected
<1>1. PICK value : value = Page!FormToPayload(selected)
  OBVIOUS
<1>2. CASE selected = {}
  <2>1. value = [is |-> "absent"]
    BY <1>1, <1>2, Zenon DEF Page!FormToPayload, Page!IsOne
  <2> QED BY <1>1, <1>2, <2>1 DEF Page!EnsureList
<1>3. CASE Page!IsOne(selected)
  <2>1. PICK x : x \in selected /\ selected = {x} /\ (CHOOSE y \in selected : TRUE) = x
    BY <1>3, OneValue DEF Page!Only
  <2>2. value = [is |-> "text", text |-> x]
    BY <1>1, <1>3, <2>1, Zenon DEF Page!FormToPayload
  <2> QED BY <1>1, <2>1, <2>2 DEF Page!EnsureList
<1>4. CASE selected # {} /\ ~Page!IsOne(selected)
  <2>1. value = [is |-> "list", items |-> selected]
    BY <1>1, <1>4, Zenon DEF Page!FormToPayload
  <2> QED BY <1>1, <2>1 DEF Page!EnsureList
<1> QED BY <1>2, <1>3, <1>4

-----------------------------------------------------------------------------
(* What is called for what was prepared, action by action.                 *)
Done(f, p, at) == Page!Executor(f.crawler, p, at)

(* What was prepared is that of the form's action, which its crawler has.  *)
LEMMA PreparedIs ==
  ASSUME NEW f, NEW c, NEW p \in Page!PrepareAction(f, c)
  PROVE  /\ f.action \in Page!Actions(f.crawler)
         /\ f.action = "run_now" => p \in Page!RunNow(c)
         /\ f.action = "weather_window" => p \in Page!WeatherWindow(f, c)
         /\ f.action = "eurostat_range" => p \in Page!EurostatRange(f, c)
         /\ f.action = "entsoe_targeted" => p \in Page!EntsoeTargeted(f, c)
         /\ f.action = "entsoe_backfill" => p \in Page!EntsoeBackfill(f)
         /\ f.action = "gapfill_backfill" => p \in Page!GapfillBackfill(f)
         /\ f.action = "price_forecast" => p \in Page!PriceForecast(f)
<1>1. c.section /\ f.action \in Page!Actions(f.crawler)
  BY DEF Page!PrepareAction
<1>2. p \in CASE f.action = "run_now"          -> Page!RunNow(c)
            [] f.action = "weather_window"   -> Page!WeatherWindow(f, c)
            [] f.action = "eurostat_range"   -> Page!EurostatRange(f, c)
            [] f.action = "entsoe_targeted"  -> Page!EntsoeTargeted(f, c)
            [] f.action = "entsoe_backfill"  -> Page!EntsoeBackfill(f)
            [] f.action = "gapfill_backfill" -> Page!GapfillBackfill(f)
            [] f.action = "price_forecast"   -> Page!PriceForecast(f)
  BY <1>1, Zenon DEF Page!PrepareAction
<1> HIDE DEF Page!PrepareAction
<1>3. f.action = "run_now" => p \in Page!RunNow(c)
  BY <1>2, Zenon
<1>4. f.action = "weather_window" => p \in Page!WeatherWindow(f, c)
  BY <1>2, Zenon
<1>5. f.action = "eurostat_range" => p \in Page!EurostatRange(f, c)
  BY <1>2, Zenon
<1>6. f.action = "entsoe_targeted" => p \in Page!EntsoeTargeted(f, c)
  BY <1>2, Zenon
<1>7. f.action = "entsoe_backfill" => p \in Page!EntsoeBackfill(f)
  BY <1>2, Zenon
<1>8. f.action = "gapfill_backfill" => p \in Page!GapfillBackfill(f)
  BY <1>2, Zenon
<1>9. f.action = "price_forecast" => p \in Page!PriceForecast(f)
  BY <1>2, Zenon
<1> QED BY <1>1, <1>3, <1>4, <1>5, <1>6, <1>7, <1>8, <1>9

(* The crawler that has an action.                                         *)
LEMMA CrawlerOf ==
  ASSUME NEW f, f.action \in Page!Actions(f.crawler),
         f.crawler \in {"weather_forecast", "eurostat_crawler", "entsoe_api", "entsoe_fms"}
  PROVE  /\ f.action \in {"run_now", "weather_window", "eurostat_range", "entsoe_targeted",
                          "entsoe_backfill", "gapfill_backfill", "price_forecast"}
         /\ f.action = "weather_window" => f.crawler = "weather_forecast"
         /\ f.action = "eurostat_range" => f.crawler = "eurostat_crawler"
         /\ f.action = "entsoe_targeted" => f.crawler = "entsoe_fms"
<1>1. CASE f.crawler = "weather_forecast"
  <2>1. Page!Actions(f.crawler) = {"run_now"} \cup {"weather_window"}
    BY <1>1, Zenon DEF Page!Actions
  <2> QED BY <1>1, <2>1
<1>2. CASE f.crawler = "eurostat_crawler"
  <2>1. Page!Actions(f.crawler) = {"run_now"} \cup {"eurostat_range"}
    BY <1>2, Zenon DEF Page!Actions
  <2> QED BY <1>2, <2>1
<1>3. CASE f.crawler = "entsoe_api"
  <2>1. Page!Actions(f.crawler) = {"run_now"} \cup {"price_forecast"}
    BY <1>3, Zenon DEF Page!Actions
  <2> QED BY <1>3, <2>1
<1>4. CASE f.crawler = "entsoe_fms"
  <2>1. Page!Actions(f.crawler) =
          {"run_now"} \cup {"entsoe_targeted", "entsoe_backfill", "gapfill_backfill"}
    BY <1>4, Zenon DEF Page!Actions
  <2> QED BY <1>4, <2>1
<1> QED BY <1>1, <1>2, <1>3, <1>4

(* Where a form does not do what its page says, sent once.                 *)
Spared(f, seen, at) ==
  \/ f.action = "entsoe_targeted" /\ f.target_data_items = {} /\ seen.target_data_items # {}
  \/ f.action = "weather_window" /\ f.location_ids \cap seen.off # {}
  \/ f.action = "gapfill_backfill" /\ ~at.gapfill_enabled
  \/ f.action = "entsoe_backfill" /\ Page!NoDates(f)

(* What is known of a form that a user means to send.                      *)
LEMMA FieldsAre ==
  ASSUME NEW f \in Wishes
  PROVE  /\ f.crawler \in {"weather_forecast", "eurostat_crawler", "entsoe_api", "entsoe_fms"}
         /\ f.action = "weather_window" =>
              Page!IsOne(f.forecast_hours) /\ Page!IsOne(f.past_hours) /\ f.location_ids # NotSet
         /\ f.action = "eurostat_range" =>
              Page!IsOne(f.dataset_id) /\ Page!IsOne(f.start_year) /\ Page!IsOne(f.end_year)
         /\ f.action = "entsoe_backfill" =>
              Page!IsOne(f.data_item) /\ Page!IsAtMostOne(f.start) /\ Page!IsAtMostOne(f.end)
         /\ f.action = "gapfill_backfill" => Page!IsOne(f.gapfill_start)
         /\ f.action = "price_forecast" =>
              /\ Page!IsOne(f.run_mode) /\ Page!IsOne(f.train_days)
              /\ Page!IsOne(f.backtest_days) /\ Page!IsOne(f.model_backend)
<1>1. Page!IsForm(f)
  BY FormConstants DEF Page!ActionsAssumption
<1>2. Page!Fields(f) /\ f.crawler \in {"weather_forecast", "eurostat_crawler", "entsoe_api", "entsoe_fms"}
  BY <1>1 DEF Page!IsForm
<1>3. f.action = "weather_window" =>
        Page!IsOne(f.forecast_hours) /\ Page!IsOne(f.past_hours) /\ f.location_ids # NotSet
  BY <1>2, Zenon DEF Page!Fields
<1>4. f.action = "eurostat_range" =>
        Page!IsOne(f.dataset_id) /\ Page!IsOne(f.start_year) /\ Page!IsOne(f.end_year)
  BY <1>2, Zenon DEF Page!Fields
<1>5. f.action = "entsoe_backfill" =>
        Page!IsOne(f.data_item) /\ Page!IsAtMostOne(f.start) /\ Page!IsAtMostOne(f.end)
  BY <1>2, Zenon DEF Page!Fields
<1>6. f.action = "gapfill_backfill" => Page!IsOne(f.gapfill_start)
  BY <1>2, Zenon DEF Page!Fields
<1>7. f.action = "price_forecast" =>
        /\ Page!IsOne(f.run_mode) /\ Page!IsOne(f.train_days)
        /\ Page!IsOne(f.backtest_days) /\ Page!IsOne(f.model_backend)
  BY <1>2, Zenon DEF Page!Fields
<1> QED BY <1>2, <1>3, <1>4, <1>5, <1>6, <1>7

(* What the page says, action by action.                                   *)
LEMMA AskedIs ==
  ASSUME NEW f, NEW seen, NEW at
  PROVE  /\ f.action = "run_now" => Page!Asked(f, seen, at) = Page!Crawl(f.crawler, seen)
         /\ f.action = "weather_window" => Page!Asked(f, seen, at) = Page!AskedWeather(f, seen)
         /\ f.action = "eurostat_range" => Page!Asked(f, seen, at) = Page!AskedYears(f)
         /\ f.action = "entsoe_targeted" => Page!Asked(f, seen, at) = Page!AskedItems(f)
         /\ f.action = "entsoe_backfill" => Page!Asked(f, seen, at) = Page!AskedPeriods(f)
         /\ f.action = "gapfill_backfill" => Page!Asked(f, seen, at) = Page!AskedTables(f, at)
         /\ f.action = "price_forecast" => Page!Asked(f, seen, at) = Page!AskedForecast(f)
<1>1. f.action = "run_now" => Page!Asked(f, seen, at) = Page!Crawl(f.crawler, seen)
  BY Zenon DEF Page!Asked
<1>2. f.action = "weather_window" => Page!Asked(f, seen, at) = Page!AskedWeather(f, seen)
  BY Zenon DEF Page!Asked
<1>3. f.action = "eurostat_range" => Page!Asked(f, seen, at) = Page!AskedYears(f)
  BY Zenon DEF Page!Asked
<1>4. f.action = "entsoe_targeted" => Page!Asked(f, seen, at) = Page!AskedItems(f)
  BY Zenon DEF Page!Asked
<1>5. f.action = "entsoe_backfill" => Page!Asked(f, seen, at) = Page!AskedPeriods(f)
  BY Zenon DEF Page!Asked
<1>6. f.action = "gapfill_backfill" => Page!Asked(f, seen, at) = Page!AskedTables(f, at)
  BY Zenon DEF Page!Asked
<1>7. f.action = "price_forecast" => Page!Asked(f, seen, at) = Page!AskedForecast(f)
  BY Zenon DEF Page!Asked
<1> QED BY <1>1, <1>2, <1>3, <1>4, <1>5, <1>6, <1>7

(* A weather run takes the hours and the locations of its form.            *)
LEMMA WeatherAsked ==
  ASSUME NEW f \in Wishes, f.action = "weather_window", NEW c \in FormConfigs, NEW at,
         NEW p \in Page!PrepareAction(f, c), Done(f, p, at) # Page!Error
  PROVE  Done(f, p, at) = Page!Asked(f, c, at) \/ Spared(f, c, at)
<1>1. f.crawler = "weather_forecast" /\ p \in Page!WeatherWindow(f, c)
  BY PreparedIs, FieldsAre, CrawlerOf
<1>2. PICK h \in f.forecast_hours, b \in f.past_hours :
        p = [calls |-> "crawler", config |-> Page!WithWindow(c, h, b, f.location_ids)]
  BY <1>1 DEF Page!WeatherWindow, Page!ParseInt
<1>3. c \in Page!ConfigType
  BY FormConstants DEF Page!ActionsAssumption
<1> DEFINE d == p.config
<1>4. /\ p.calls = "crawler" /\ d.forecast_hours = h /\ d.past_hours = b /\ d.off = c.off
      /\ d.locations = IF f.location_ids = {} THEN c.locations ELSE f.location_ids
  BY <1>2, <1>3 DEF Page!ConfigType, Page!WithWindow
<1>5. Done(f, p, at) = Page!Crawl("weather_forecast", d)
  BY <1>1, <1>4 DEF Done, Page!Executor
<1> HIDE DEF d
<1>6. Done(f, p, at) = [forecast |-> h, past |-> b, at |-> Page!Locations(d) \ c.off]
  BY <1>4, <1>5 DEF Page!Crawl
<1>7. Page!Locations(d) = IF f.location_ids = {} THEN Page!Locations(c) ELSE f.location_ids
  BY <1>4, FieldsAre DEF Page!Locations
<1>8. Page!Only(f.forecast_hours) = h /\ Page!Only(f.past_hours) = b
  BY OneValue, FieldsAre
<1>9. f.location_ids \cap c.off = {} => f.location_ids \ c.off = f.location_ids
  OBVIOUS
<1> QED BY <1>6, <1>7, <1>8, <1>9, AskedIs DEF Spared, Page!AskedWeather

(* A eurostat run takes the dataset and the years of its form.             *)
LEMMA EurostatAsked ==
  ASSUME NEW f \in Wishes, f.action = "eurostat_range", NEW c \in FormConfigs, NEW at,
         NEW p \in Page!PrepareAction(f, c)
  PROVE  Done(f, p, at) = Page!Asked(f, c, at)
<1>1. f.crawler = "eurostat_crawler" /\ p \in Page!EurostatRange(f, c)
  BY PreparedIs, FieldsAre, CrawlerOf
<1>2. PICK x \in f.dataset_id, y \in Page!ParseInt(f.start_year, 1990, 2100) \X Page!ParseInt(f.end_year, 1990, 2100) :
        p = [calls |-> "crawler", config |-> Page!WithRange(c, x, y[1], y[2])]
  BY <1>1 DEF Page!EurostatRange
<1>3. PICK s, e : s = y[1] /\ e = y[2]
  OBVIOUS
<1>4. s \in f.start_year /\ e \in f.end_year /\ s \in 1990 .. 2100 /\ e \in 1990 .. 2100
  BY <1>3 DEF Page!ParseInt
<1>5. c \in Page!ConfigType
  BY FormConstants DEF Page!ActionsAssumption
<1>6. p = [calls |-> "crawler", config |-> Page!WithRange(c, x, s, e)]
  BY <1>2, <1>3
<1>7. p.calls = "crawler" /\ p.config.dataset_id = x /\ p.config.start_year = s /\ p.config.end_year = e
  <2>1. PICK d : d = Page!WithRange(c, x, s, e)
    OBVIOUS
  <2>2. d.dataset_id = x /\ d.start_year = s /\ d.end_year = e
    BY <1>5, <2>1 DEF Page!ConfigType, Page!WithRange
  <2> QED BY <1>6, <2>1, <2>2
<1>8. Done(f, p, at) = Page!Crawl("eurostat_crawler", p.config)
  BY <1>1, <1>7 DEF Done, Page!Executor
<1>9. Done(f, p, at) = [dataset |-> x, years |-> s .. e]
  BY <1>7, <1>8 DEF Page!Crawl
<1>10. f.dataset_id = {x} /\ f.start_year = {s} /\ f.end_year = {e} /\ Page!Only(f.dataset_id) = x
  BY <1>4, OneValue, FieldsAre
<1>11. Page!YearsOf(f) = s .. e
  <2>1. ASSUME NEW n \in 1990 .. 2100
        PROVE  ((\E a \in f.start_year : a <= n) /\ \E b \in f.end_year : n <= b) <=> n \in s .. e
    BY <1>4, <1>10
  <2>2. \A n \in s .. e : n \in 1990 .. 2100
    BY <1>4
  <2> QED BY <2>1, <2>2 DEF Page!YearsOf
<1>12. Page!AskedYears(f) = [dataset |-> x, years |-> s .. e]
  BY <1>10, <1>11 DEF Page!AskedYears
<1> QED BY <1>9, <1>12, AskedIs

(* A targeted run takes the items of its form.                             *)
LEMMA TargetedAsked ==
  ASSUME NEW f \in Wishes, f.action = "entsoe_targeted", NEW c \in FormConfigs, NEW at,
         NEW p \in Page!PrepareAction(f, c)
  PROVE  Done(f, p, at) = Page!Asked(f, c, at) \/ Spared(f, c, at)
<1> DEFINE S == f.target_data_items
<1>1. f.crawler = "entsoe_fms" /\ p \in Page!EntsoeTargeted(f, c)
  BY PreparedIs, FieldsAre, CrawlerOf
<1>2. Page!EnsureList(Page!FormToPayload(S)) = S
  BY ListArrives
<1>3. /\ S \subseteq Page!Elements(AdminItems)
      /\ p = [calls |-> "crawler", config |-> [c EXCEPT !.target_data_items = IF S = {} THEN @ ELSE S]]
  BY <1>1, <1>2 DEF Page!EntsoeTargeted
<1>4. c \in Page!ConfigType /\ AdminItems = CrawlerItems
  BY FormConstants DEF Page!ActionsAssumption
<1>5. p.calls = "crawler" /\ p.config.target_data_items = IF S = {} THEN c.target_data_items ELSE S
  BY <1>3, <1>4 DEF Page!ConfigType
<1>6. Done(f, p, at) = [items |-> Page!Targets(p.config)]
  BY <1>1, <1>5 DEF Done, Page!Executor, Page!Crawl
<1>7. CASE S = {}
  <2>1. c.target_data_items = {} => Page!Targets(p.config) = Page!Elements(CrawlerItems)
    BY <1>5, <1>7 DEF Page!Targets
  <2> QED BY <1>6, <1>7, <2>1, AskedIs DEF Spared, Page!AskedItems
<1>8. CASE S # {}
  <2>1. Page!Targets(p.config) = S
    BY <1>3, <1>4, <1>5, <1>8 DEF Page!Targets
  <2> QED BY <1>6, <1>8, <2>1, AskedIs DEF Page!AskedItems
<1> QED BY <1>7, <1>8

(* A backfill takes the item whose place it is told, and its periods.      *)
LEMMA BackfillAsked ==
  ASSUME NEW f \in Wishes, f.action = "entsoe_backfill", NEW c \in FormConfigs, NEW at,
         NEW p \in Page!PrepareAction(f, c)
  PROVE  Done(f, p, at) = Page!Asked(f, c, at) \/ Spared(f, c, at)
<1>1. p \in Page!EntsoeBackfill(f)
  BY PreparedIs
<1>2. PICK item \in f.data_item \cap Page!Elements(AdminItems) :
        \E range \in Page!BackfillRanges(f, item) :
          p = [calls |-> "backwards_update", index |-> Page!TargetIndex(item), range |-> range]
  BY <1>1 DEF Page!EntsoeBackfill
<1>3. PICK range \in Page!BackfillRanges(f, item) :
        p = [calls |-> "backwards_update", index |-> Page!TargetIndex(item), range |-> range]
  BY <1>2
<1>4. p.calls = "backwards_update" /\ p.index = Page!TargetIndex(item) /\ p.range = range
  BY <1>3
<1>5. CrawlerItems[p.index] = item
  <2>1. \E i \in DOMAIN AdminItems : AdminItems[i] = item
    BY <1>2 DEF Page!Elements
  <2>2. AdminItems[Page!TargetIndex(item)] = item
    BY <2>1 DEF Page!TargetIndex
  <2> QED BY <1>4, <2>2, FormConstants DEF Page!ActionsAssumption
<1>6. Done(f, p, at) = Page!BackwardsUpdate(p)
  BY <1>4 DEF Done, Page!Executor
<1>7. Page!Only(f.data_item) = item
  BY <1>2, OneValue, FieldsAre
<1>8. CASE Cadence[item] = "single"
  <2>1. range = <<>>
    BY <1>8 DEF Page!BackfillRanges
  <2>2. Done(f, p, at) = [item |-> item, periods |-> {}]
    BY <1>4, <1>5, <1>6, <2>1 DEF Page!BackwardsUpdate
  <2> QED BY <1>7, <1>8, <2>2, AskedIs DEF Page!AskedPeriods
<1>9. CASE Cadence[item] # "single"
  <2>1. range \in f.start \X f.end
    BY <1>9 DEF Page!BackfillRanges
  <2>2. PICK s \in f.start, e \in f.end : range = <<s, e>>
    BY <2>1
  <2>3. range # <<>> /\ range[1] = s /\ range[2] = e
    BY <2>2
  <2>4. CASE ~Page!HasDates(s, e)
    BY <1>7, <1>9, <2>2, <2>4 DEF Spared, Page!NoDates
  <2>5. CASE Page!HasDates(s, e)
    <3>1. Done(f, p, at) = [item |-> item, periods |-> s.number .. e.number]
      BY <1>4, <1>5, <1>6, <2>3, <2>5 DEF Page!BackwardsUpdate
    <3>2. f.start = {s} /\ f.end = {e}
      BY <2>2, OneValue, FieldsAre DEF Page!IsAtMostOne
    <3>3. Page!FromTo(f) = s.number .. e.number
      <4> DEFINE span(x, y) == x.number .. y.number
      <4>1. Page!FromTo(f) = UNION {span(x, y) : x \in {s}, y \in {e}}
        BY <3>2 DEF Page!FromTo
      <4> HIDE DEF span
      <4>2. UNION {span(x, y) : x \in {s}, y \in {e}} = span(s, e)
        OBVIOUS
      <4> QED BY <4>1, <4>2 DEF span
    <3>4. Page!AskedPeriods(f) = [item |-> item, periods |-> s.number .. e.number]
      BY <1>7, <1>9, <3>3 DEF Page!AskedPeriods
    <3> QED BY <3>1, <3>4, AskedIs
  <2> QED BY <2>4, <2>5
<1> QED BY <1>8, <1>9

(* The script is given the tables and the window of its form.              *)
LEMMA GapfillAsked ==
  ASSUME NEW f \in Wishes, f.action = "gapfill_backfill", NEW c \in FormConfigs, NEW at,
         NEW p \in Page!PrepareAction(f, c), Done(f, p, at) # Page!Error
  PROVE  Done(f, p, at) = Page!Asked(f, c, at) \/ Spared(f, c, at)
<1> DEFINE S == f.gapfill_tables
<1>1. p \in Page!GapfillBackfill(f)
  BY PreparedIs
<1>2. Page!EnsureList(Page!FormToPayload(S)) = S
  BY ListArrives
<1>3. PICK s \in f.gapfill_start :
        p = [calls |-> "gapfill_timeseries", start |-> s, end |-> f.gapfill_end, tables |-> S]
  BY <1>1, <1>2 DEF Page!GapfillBackfill
<1>4. p.calls = "gapfill_timeseries" /\ p.start = s /\ p.end = f.gapfill_end /\ p.tables = S
  BY <1>3
<1>5. Done(f, p, at) = Page!GapfillTimeseries(p, at)
  BY <1>4 DEF Done, Page!Executor
<1>6. f.gapfill_start = {s}
  BY OneValue, FieldsAre
<1>7. Page!Only(f.gapfill_start) = s
  BY OneValue, FieldsAre
<1>8. at.gapfill_enabled =>
        Done(f, p, at) = [tables |-> IF S = {} THEN Page!ConfiguredTables(at) ELSE S,
                          from |-> Page!Utc(s), to |-> {Page!Utc(e) : e \in f.gapfill_end}]
  BY <1>4, <1>5 DEF Page!GapfillTimeseries
<1> QED BY <1>7, <1>8, AskedIs DEF Spared, Page!AskedTables

(* The forecast is given what its form says.                               *)
LEMMA ForecastAsked ==
  ASSUME NEW f \in Wishes, f.action = "price_forecast", NEW c \in FormConfigs, NEW at,
         NEW p \in Page!PrepareAction(f, c)
  PROVE  Done(f, p, at) = Page!Asked(f, c, at)
<1>1. p \in Page!PriceForecast(f)
  BY PreparedIs
<1>2. Page!IsOne(f.run_mode) /\ Page!IsOne(f.train_days) /\ Page!IsOne(f.backtest_days) /\ Page!IsOne(f.model_backend)
  BY FieldsAre
<1>3. f.run_mode # {} /\ f.model_backend # {}
  BY <1>2, OneValue
<1>4. PICK mode \in f.run_mode, train \in f.train_days, backtest \in f.backtest_days, backend \in f.model_backend :
        p = [calls |-> "run_price_forecast", mode |-> mode, target |-> f.target_date,
             train |-> train, backtest |-> backtest, backend |-> backend]
  <2>1. Page!OrDefault(f.run_mode, "forecast") = f.run_mode /\ Page!OrDefault(f.model_backend, "auto") = f.model_backend
    BY <1>3 DEF Page!OrDefault
  <2> QED BY <1>1, <2>1 DEF Page!PriceForecast, Page!ParseInt
<1>5. Done(f, p, at) = [mode |-> mode, target |-> f.target_date, train |-> train, backtest |-> backtest,
                        backend |-> backend]
  BY <1>4 DEF Done, Page!Executor, Page!RunPriceForecast
<1>6. /\ Page!Only(f.run_mode) = mode /\ Page!Only(f.train_days) = train
      /\ Page!Only(f.backtest_days) = backtest /\ Page!Only(f.model_backend) = backend
  BY <1>2, OneValue
<1> QED BY <1>5, <1>6, AskedIs DEF Page!AskedForecast

(* Whatever the action, sent once.                                         *)
LEMMA CalledFor ==
  ASSUME NEW f \in Wishes, NEW c \in FormConfigs, NEW at,
         NEW p \in Page!PrepareAction(f, c), Done(f, p, at) # Page!Error
  PROVE  Done(f, p, at) = Page!Asked(f, c, at) \/ Spared(f, c, at)
<1>1. CASE f.action = "run_now"
  <2>1. p = [calls |-> "crawler", config |-> c]
    BY <1>1, PreparedIs DEF Page!RunNow
  <2>2. Done(f, p, at) = Page!Crawl(f.crawler, c)
    BY <2>1 DEF Done, Page!Executor
  <2> QED BY <1>1, <2>2, AskedIs
<1>2. f.action \in {"run_now", "weather_window", "eurostat_range", "entsoe_targeted",
                    "entsoe_backfill", "gapfill_backfill", "price_forecast"}
  BY PreparedIs, FieldsAre, CrawlerOf
<1> QED BY <1>1, <1>2, WeatherAsked, EurostatAsked, TargetedAsked, BackfillAsked, GapfillAsked,
           ForecastAsked

(* A list of several values is shown again as it was.                      *)
LEMMA ShownAsSent ==
  ASSUME NEW f \in Wishes, ~ListLost(f), NEW c
  PROVE  Page!ShownAgain(f, c) = f
<1>1. /\ f = [x \in DOMAIN f |-> f[x]]
      /\ "target_data_items" \in DOMAIN f => f.action = "entsoe_targeted"
      /\ "gapfill_tables" \in DOMAIN f => f.action = "gapfill_backfill"
  BY FormConstants DEF Page!ActionsAssumption, Page!IsForm
<1>2. ASSUME NEW selected, NEW default, ~Page!IsAtMostOne(selected)
      PROVE  Page!Reshown(selected, default) = selected
  <2>1. PICK value : value = Page!FormToPayload(selected)
    OBVIOUS
  <2>2. value = [is |-> "list", items |-> selected]
    BY <1>2, <2>1, Zenon DEF Page!FormToPayload, Page!IsAtMostOne
  <2>3. value.is = "list" /\ value.items = selected
    BY <2>2
  <2>4. value.is # "absent" /\ value.is # "text"
    BY <2>3
  <2> QED BY <2>1, <2>3, <2>4, Zenon DEF Page!Reshown
<1> DEFINE shown(x) == CASE x = "gapfill_tables" ->
                              Page!Reshown(f[x], IF c.gapfill_tables = NotSet THEN {}
                                                 ELSE c.gapfill_tables \cap GapfillTables)
                         [] x = "target_data_items" ->
                              Page!Reshown(f[x], c.target_data_items \cap Page!Elements(AdminItems))
                         [] OTHER -> f[x]
<1>3. Page!ShownAgain(f, c) = [x \in DOMAIN f |-> shown(x)]
  BY DEF Page!ShownAgain
<1>4. ASSUME NEW x \in DOMAIN f PROVE shown(x) = f[x]
  <2>1. CASE x = "gapfill_tables"
    <3>1. ~Page!IsAtMostOne(f[x])
      BY <1>1, <2>1 DEF ListLost
    <3> QED BY <1>2, <2>1, <3>1, Zenon
  <2>2. CASE x = "target_data_items"
    <3>1. ~Page!IsAtMostOne(f[x])
      BY <1>1, <2>2 DEF ListLost
    <3>2. x # "gapfill_tables"
      BY <2>2
    <3> QED BY <1>2, <2>2, <3>1, <3>2, Zenon
  <2>3. CASE x # "gapfill_tables" /\ x # "target_data_items"
    BY <2>3, Zenon
  <2> QED BY <2>1, <2>2, <2>3
<1> HIDE DEF shown
<1> QED BY <1>1, <1>3, <1>4

-----------------------------------------------------------------------------
(* The steps of a form.                                                    *)
LEMMA FillForm ==
  ASSUME form.step # "off", FormInv, Page!Fill
  PROVE  FormInv'
<1>1. PICK wish \in Wishes, slip \in Slips \cup {<<>>} :
        /\ slip # <<>> => slip[1] \in DOMAIN wish
        /\ form' = [step |-> "filled", wish |-> wish, again |-> FALSE,
                    form |-> IF slip = <<>> THEN wish ELSE Page!Mistyped(wish, slip)]
  BY DEF Page!Fill
<1>2. config' = config
  BY DEF Page!Fill
<1>3. PICK sent : sent = IF slip = <<>> THEN wish ELSE Page!Mistyped(wish, slip)
  OBVIOUS
<1>4. Meant(wish, FALSE, sent)
  <2>1. CASE slip = <<>>
    BY <1>3, <2>1 DEF Meant
  <2>2. CASE slip # <<>>
    BY <1>1, <1>3, <2>2, FormConstants DEF Meant, Page!ActionsAssumption
  <2> QED BY <2>1, <2>2
<1>5. IsFilled("filled")'
  BY <1>1, <1>3, <1>4 DEF IsFilled, Meant
<1>6. form'.step = "filled"
  BY <1>1
<1>7. Page!ActsAsAsked'
  BY <1>6 DEF Page!ActsAsAsked
<1> QED BY <1>2, <1>5, <1>6, <1>7 DEF FormInv

(* It is sent.                                                             *)
LEMMA StartForm ==
  ASSUME form.step # "off", FormInv, Page!StartAction
  PROVE  FormInv'
<1>1. form.step = "filled" /\ config' = config /\ config \in FormConfigs
  BY DEF Page!StartAction, FormInv
<1>0. PICK wish \in Wishes, again \in BOOLEAN : \E sent :
        /\ form = [step |-> "filled", wish |-> wish, again |-> again, form |-> sent]
        /\ Meant(wish, again, sent)
  BY <1>1 DEF FormInv, IsFilled
<1>2. PICK sent :
        /\ wish \in Wishes /\ again \in BOOLEAN
        /\ form = [step |-> "filled", wish |-> wish, again |-> again, form |-> sent]
        /\ Meant(wish, again, sent)
  BY <1>0
<1>3. CASE form' = [form EXCEPT !.step = "refused"]
  <2>1. form' = [step |-> "refused", wish |-> wish, again |-> again, form |-> sent]
    BY <1>2, <1>3
  <2>2. form'.step = "refused"
    BY <2>1
  <2>3. IsFilled("refused")'
    BY <1>2, <2>1 DEF IsFilled, Meant
  <2>4. Page!ActsAsAsked'
    BY <2>2 DEF Page!ActsAsAsked
  <2> QED BY <1>1, <2>2, <2>3, <2>4 DEF FormInv
<1>4. CASE \E p \in Page!PrepareAction(form.form, config) :
             form' = [step |-> "queued", wish |-> form.wish, again |-> form.again,
                      form |-> form.form, seen |-> config, prepared |-> p]
  <2>1. PICK p \in Page!PrepareAction(sent, config) :
          form' = [step |-> "queued", wish |-> wish, again |-> again, form |-> sent,
                   seen |-> config, prepared |-> p]
    BY <1>2, <1>4
  <2>2. form'.step = "queued"
    BY <2>1
  <2>3. p \in Page!PrepareAction(wish, config) \/ (again /\ ListLost(wish))
    BY <1>1, <1>2 DEF Meant
  <2>4. IsQueued'
    <3>1. /\ form'.wish = wish /\ form'.again = again /\ form'.form = sent
          /\ form'.seen = config /\ form'.prepared = p
      BY <2>1
    <3> QED BY <1>1, <2>1, <2>3, <3>1 DEF IsQueued
  <2>5. Page!ActsAsAsked'
    BY <2>2 DEF Page!ActsAsAsked
  <2> QED BY <1>1, <2>2, <2>4, <2>5 DEF FormInv
<1> QED BY <1>3, <1>4 DEF Page!StartAction

(* It is corrected.                                                        *)
LEMMA CorrectForm ==
  ASSUME form.step # "off", FormInv, Page!Correct
  PROVE  FormInv'
<1>1. form.step = "refused" /\ config' = config /\ config \in FormConfigs
  BY DEF Page!Correct, FormInv
<1>0. PICK wish \in Wishes, again \in BOOLEAN : \E sent :
        form = [step |-> "refused", wish |-> wish, again |-> again, form |-> sent]
  BY <1>1 DEF FormInv, IsFilled
<1>2. PICK sent :
        /\ wish \in Wishes /\ again \in BOOLEAN
        /\ form = [step |-> "refused", wish |-> wish, again |-> again, form |-> sent]
  BY <1>0
<1>3. PICK shown : shown = Page!ShownAgain(wish, config)
  OBVIOUS
<1>4. form' = [step |-> "filled", wish |-> wish, again |-> TRUE, form |-> shown]
  BY <1>2, <1>3 DEF Page!Correct
<1>5. Meant(wish, TRUE, shown)
  BY <1>3, ShownAsSent DEF Meant
<1>6. form'.step = "filled"
  BY <1>4
<1>7. IsFilled("filled")'
  BY <1>4, <1>5 DEF IsFilled, Meant
<1>8. Page!ActsAsAsked'
  BY <1>6 DEF Page!ActsAsAsked
<1> QED BY <1>1, <1>6, <1>7, <1>8 DEF FormInv

(* It is carried out.                                                      *)
LEMMA ExecuteForm ==
  ASSUME form.step # "off", FormInv, Page!ExecuteRun
  PROVE  FormInv'
<1>1. form.step = "queued" /\ config' = config /\ config \in FormConfigs
  BY DEF Page!ExecuteRun, FormInv
<1>2. PICK wish, again, sent, seen, prepared :
        /\ wish = form.wish /\ again = form.again /\ sent = form.form
        /\ seen = form.seen /\ prepared = form.prepared
  OBVIOUS
<1>3. /\ wish \in Wishes /\ seen \in FormConfigs
      /\ prepared \in Page!PrepareAction(wish, seen) \/ (again /\ ListLost(wish))
  BY <1>1, <1>2 DEF FormInv, IsQueued
<1>4. PICK did : did = Done(wish, prepared, config)
  OBVIOUS
<1>5. \/ form' = [form EXCEPT !.step = "rejected"]
      \/ did # Page!Error /\ form' = [step |-> "succeeded", wish |-> wish, again |-> again,
                                      seen |-> seen, at |-> config, did |-> did]
      \/ form' = [step |-> "failed"]
  BY <1>2, <1>4 DEF Page!ExecuteRun, Done
<1>6. CASE form'.step \in {"rejected", "failed"}
  <2>1. Page!ActsAsAsked'
    BY <1>6 DEF Page!ActsAsAsked
  <2> QED BY <1>1, <1>6, <2>1 DEF FormInv
<1>7. CASE did # Page!Error /\ form' = [step |-> "succeeded", wish |-> wish, again |-> again,
                                       seen |-> seen, at |-> config, did |-> did]
  <2>1. /\ form'.step = "succeeded" /\ form'.wish = wish /\ form'.again = again
        /\ form'.seen = seen /\ form'.at = config /\ form'.did = did
    BY <1>7
  <2>2. \/ did = Page!Asked(wish, seen, config)
        \/ Spared(wish, seen, config)
        \/ again /\ ListLost(wish)
    BY <1>4, <1>7, <1>3, CalledFor
  <2>3. Page!ActsAsAsked'
    BY <2>1, <2>2 DEF Page!ActsAsAsked, Page!Excepted, Spared, ListLost
  <2> QED BY <1>1, <2>1, <2>3 DEF FormInv
<1>8. ASSUME form' = [form EXCEPT !.step = "rejected"] PROVE form'.step = "rejected"
  <2>1. "step" \in DOMAIN form
    BY <1>1 DEF FormInv, IsQueued
  <2> QED BY <1>8, <2>1
<1>9. ASSUME form' = [step |-> "failed"] PROVE form'.step = "failed"
  BY <1>9
<1> QED BY <1>5, <1>6, <1>7, <1>8, <1>9

(* Every step of a form, and none of the manual runs, keeps FormInv.       *)
LEMMA FormStep == FormInv /\ [RunsNext]_<<vars, forms, saves>> => FormInv'
<1> SUFFICES ASSUME FormInv, [RunsNext]_<<vars, forms, saves>> PROVE FormInv'
  OBVIOUS
<1>1. CASE UNCHANGED forms
  BY <1>1 DEF forms, FormInv, IsFilled, IsQueued, Page!ActsAsAsked, Page!Excepted
<1>2. CASE form.step # "off" /\ Page!Next
  <2>1. CASE Page!EditConfig
    BY <1>2, <2>1 DEF Page!EditConfig, FormInv, IsFilled, IsQueued, Page!ActsAsAsked, Page!Excepted
  <2> QED BY <1>2, <2>1, FillForm, StartForm, CorrectForm, ExecuteForm DEF Page!Next
<1> QED BY <1>1, <1>2 DEF RunsNext, forms

(* It holds of no form and of a new one.                                   *)
LEMMA FormInit == RunsInit => FormInv
<1>1. NoForm => FormInv
  BY DEF NoForm, FormInv
<1>2. Page!Init => FormInv
  BY DEF Page!Init, FormInv, Page!ActsAsAsked
<1> QED BY <1>1, <1>2 DEF RunsInit

(* crawler_admin/runtime_service.py: a run that is shown as succeeded was  *)
(* called for exactly what its form asked for, whatever the forms, the     *)
(* mistakes and the edits of the configuration, but for the cases that     *)
(* Excepted lists.                                                         *)
THEOREM CalledAsAsked == RunsSpec => []ActsAsAsked
<1>1. RunsSpec => []FormInv
  BY FormInit, FormStep, PTL DEF RunsSpec
<1>2. FormInv => ActsAsAsked
  BY DEF FormInv, ActsAsAsked
<1> QED BY <1>1, <1>2, PTL

=============================================================================
