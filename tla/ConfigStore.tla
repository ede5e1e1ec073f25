----------------------------- MODULE ConfigStore -----------------------------
(***************************************************************************)
(* How the crawler admin reads and writes CRAWLER_CONFIG.yml: the pages    *)
(* that carry a hash of the file (crawler_admin/app.py), the handlers that *)
(* save what a page submits, write_config_text_atomic of                   *)
(* crawler_admin/config_service.py, and programs that write the file       *)
(* beside it.                                                              *)
(*                                                                         *)
(* The text is the values of its sections, and a hash is the text itself.  *)
(* Pages are rendered by threads; the handlers that save are coroutines    *)
(* that do not wait once the form is there, so they run one at a time.     *)
(***************************************************************************)
EXTENDS Naturals

CONSTANTS Users,     \* browser windows
          Values     \* of a section

VARIABLES
  file,     \* the text on disk
  page,     \* what each window shows
  handler   \* the request that is being handled

vars == <<file, page, handler>>

(* The sections that the forms of the dashboard and of a crawler's page    *)
(* set.  A file that has been truncated has no section at all.             *)
Sections == {"schedule", "gapfill"}
Content  == [Sections -> Values]
Empty    == [s \in {} |-> 0]
Texts    == Content \cup {Empty}

Kinds == {"none", "editor", "dashboard", "loading", "detail"}

(* shown: the text a page was rendered from; hash: its base_hash.          *)
NoPage == [kind |-> "none", shown |-> Empty, hash |-> Empty]

(* since: what others wrote while the request was handled.                 *)
Idle == [step |-> "idle"]
Request(u, step, text, section) ==
  [step |-> step, user |-> u, text |-> text, section |-> section, since |-> {}]

(* A window waits for its request.                                         *)
Waits(u) == handler.step # "idle" /\ handler.user = u

Init ==
  /\ file \in Content
  /\ page = [u \in Users |-> NoPage]
  /\ handler = Idle

-----------------------------------------------------------------------------
Show(u, kind, shown, hash) ==
  page' = [page EXCEPT ![u] = [kind |-> kind, shown |-> shown, hash |-> hash]]

(* Someone edits the file in another terminal.                             *)
ExternalEdit(c) ==
  /\ file' = c
  /\ handler' = IF handler.step = "idle" THEN handler
                ELSE [handler EXCEPT !.since = @ \cup {c}]
  /\ UNCHANGED page

(* The editor and the dashboard take text and hash from one read.          *)
OpenPage(u, kind) ==
  /\ ~Waits(u)
  /\ Show(u, kind, file, file)
  /\ UNCHANGED <<file, handler>>

(* The page of a crawler is rendered from one read, and the hash is taken  *)
(* from another, after the database has been asked for its tables.  An     *)
(* empty file has no such crawler.                                         *)
OpenDetail(u) ==
  /\ ~Waits(u)
  /\ file # Empty
  /\ Show(u, "loading", file, Empty)
  /\ UNCHANGED <<file, handler>>

HashDetail(u) ==
  /\ page[u].kind = "loading"
  /\ Show(u, "detail", page[u].shown, file)
  /\ handler' = IF handler.step = "rerender" /\ handler.user = u THEN Idle ELSE handler
  /\ UNCHANGED file

-----------------------------------------------------------------------------
(* The editor submits a whole text, a form the value of one section.       *)
SubmitEditor(u, c) ==
  /\ handler.step = "idle" /\ page[u].kind = "editor"
  /\ handler' = Request(u, "check", c, "none")
  /\ UNCHANGED <<file, page>>

SubmitForm(u, v) ==
  /\ handler.step = "idle"
  /\ \E s \in Sections :
       /\ \/ s = "schedule" /\ page[u].kind = "dashboard"
          \/ s = "gapfill" /\ page[u].kind = "detail"
       /\ handler' = Request(u, "update", [t \in {s} |-> v], s)
  /\ UNCHANGED <<file, page>>

(* A save that is refused: the editor keeps the text and its hash, the     *)
(* others are rendered again, with a new hash.                             *)
Refuse(u) ==
  \/ /\ page[u].kind = "editor"
     /\ handler' = Idle /\ UNCHANGED page
  \/ /\ page[u].kind = "dashboard"
     /\ handler' = Idle /\ Show(u, "dashboard", file, file)
  \/ /\ page[u].kind = "detail" /\ file # Empty
     /\ handler' = [handler EXCEPT !.step = "rerender"]
     /\ Show(u, "loading", file, Empty)
  \/ /\ page[u].kind = "detail" /\ file = Empty
     /\ handler' = Idle /\ page' = [page EXCEPT ![u] = NoPage]

(* update_crawler_schedule_config_text, update_gapfill_config_text: the    *)
(* section is changed in the text that is on disk now.                     *)
Update ==
  /\ handler.step = "update"
  /\ IF file = Empty
     THEN Refuse(handler.user)
     ELSE /\ handler' = [handler EXCEPT !.step = "check",
                 !.text = [file EXCEPT ![handler.section] = handler.text[handler.section]]]
          /\ UNCHANGED page
  /\ UNCHANGED file

(* write_config_text_atomic: the file is compared with the hash of the     *)
(* page, and replaced.  A file that is mounted by itself cannot be         *)
(* replaced; it is truncated and written.                                  *)
(* Mutant: a refused editor page gets the new hash with the old text.      *)
CheckAndRehash ==
  /\ handler.step = "check"
  /\ IF file = page[handler.user].hash
     THEN handler' = [handler EXCEPT !.step = "write"] /\ UNCHANGED page
     ELSE /\ handler' = Idle
          /\ page' = [page EXCEPT ![handler.user].hash = file]
  /\ UNCHANGED file

Check ==
  /\ handler.step = "check"
  /\ IF file = page[handler.user].hash
     THEN handler' = [handler EXCEPT !.step = "write"] /\ UNCHANGED page
     ELSE Refuse(handler.user)
  /\ UNCHANGED file

(* The window is sent back to where it came from.                          *)
Saved ==
  /\ file' = handler.text
  /\ handler' = Idle
  /\ page' = [page EXCEPT ![handler.user] = NoPage]

Replace == handler.step = "write" /\ Saved

Truncate ==
  /\ handler.step = "write"
  /\ file' = Empty
  /\ handler' = [handler EXCEPT !.step = "fill"]
  /\ UNCHANGED page

Fill == handler.step = "fill" /\ Saved

(* The admin service is killed and comes back; windows stay open.          *)
Restart ==
  /\ handler' = Idle
  /\ page' = [u \in Users |->
       IF page[u].kind = "loading" \/ Waits(u)
       THEN NoPage ELSE page[u]]
  /\ UNCHANGED file

-----------------------------------------------------------------------------
Handle == Update \/ Check \/ Replace \/ Truncate \/ Fill

Next ==
  \/ \E c \in Content : ExternalEdit(c)
  \/ \E u \in Users :
       \/ \E k \in {"editor", "dashboard"} : OpenPage(u, k)
       \/ OpenDetail(u) \/ HashDetail(u)
       \/ \E c \in Content : SubmitEditor(u, c)
       \/ \E v \in Values : SubmitForm(u, v)
  \/ Handle
  \/ Restart

Spec == Init /\ [][Next]_vars

-----------------------------------------------------------------------------
TypeOK ==
  /\ file \in Texts
  /\ page \in [Users -> [kind : Kinds, shown : Texts, hash : Texts]]
  /\ handler.step \in {"idle", "update", "check", "write", "fill", "rerender"}
  /\ handler.step # "idle" =>
       /\ handler.user \in Users /\ handler.since \subseteq Content
       /\ handler.step \in {"check", "write", "fill"} => handler.text \in Content

(* A handler writes over the file for a page whose text and hash come from *)
(* one read.  A crawler page reads the file once for what it shows and     *)
(* once more for the hash, and has no such promise.                        *)
Overwrites ==
  /\ handler.step \in {"write", "fill"} /\ handler'.step # handler.step
  /\ file' \in {handler.text, Empty}
  /\ page[handler.user].kind \in {"editor", "dashboard"}

(* docs/source/crawler_admin.md: a change before the save request arrives  *)
(* is not overwritten.  From the editor and the dashboard, a save only     *)
(* writes over the text the page was rendered from, over what came after   *)
(* the request, or over its own truncated file.                            *)
NoUnseenOverwrite ==
  [][Overwrites => file \in {page[handler.user].shown, Empty} \cup handler.since]_vars

=============================================================================
