---------------------------- MODULE HostPlaybooks ----------------------------
(***************************************************************************)
(* The playbooks that change the database of a host: oeds-docker-config,   *)
(* oeds-update, oeds-db-migrate and oeds-db-rollback.  A playbook is a     *)
(* list of tasks; any of them may fail, and what the earlier ones have     *)
(* done stays as it is.  Operators run one playbook after another, in any  *)
(* order, while services write and passwords are rotated.                  *)
(*                                                                         *)
(* A data directory is a PostgreSQL cluster with a major version, rows and *)
(* the passwords of its roles, all taken as one number: 0 is the default   *)
(* of compose.yml, n what the n-th rotation has set.  The backup that an   *)
(* update takes is a file that none of them reads.                         *)
(***************************************************************************)
EXTENDS Naturals, Sequences

CONSTANTS Ids,           \* oeds_migration_run_id, oeds_rollback_run_id
          MaxPlays,      \* a bound on the runs of playbooks
          MaxRows,       \* a bound on the rows that are written
          MaxRotations   \* a bound on the rotations

Majors == {"16", "18"}
Release == "18"          \* oeds_target_pg_major

VARIABLES
  live,       \* docker_data/postgres-home
  staged,     \* migration/<id>/pgdata
  aside,      \* backups/<id>/postgres-home-pre-cutover or -pre-rollback
  dump,       \* backups/<id>/db
  stack,      \* "down", or the major version of the image of open-data
  repo,       \* the major version in the compose.yml of the checkout
  checkout,   \* "git" or "archive": how the checkout was deployed
  leftover,   \* the checkout has a file that git neither knows nor ignores
  env,        \* the passwords in .env
  container,  \* the passwords the services were created with
  written,    \* the rows that were ever committed in the live database
  rotations,
  play,       \* the playbook that runs, or the last one
  plays

disk     == <<live, staged, aside, dump>>
compose  == <<stack, repo, checkout, leftover, env, container>>
counters == <<written, rotations, plays>>
vars     == <<live, staged, aside, dump, stack, repo, checkout, leftover, env,
              container, written, rotations, play, plays>>

Directory(is, major, rows, password) ==
  [is |-> is, major |-> major, rows |-> rows, password |-> password]

(* A fresh cluster has no application database, a partial one a part of it. *)
Absent  == Directory("absent", "none", {}, 0)
Empty   == Directory("empty", "none", {}, 0)
Fresh   == Directory("fresh", Release, {}, 0)
Partial == Directory("partial", Release, {}, 0)
Cluster(major, rows, password) == Directory("cluster", major, rows, password)
NoPassword == MaxRotations + 1

(* A run of a playbook: the tasks it has still to do, its arguments, and   *)
(* promised, the rows that it keeps live.                                  *)
Playbook(name, tasks, args, promised) ==
  [name |-> name, todo |-> tasks, outcome |-> "none", args |-> args, promised |-> promised]

(* pg_isready succeeds: PostgreSQL starts on a cluster of its own version. *)
Ready == stack = live.major

(* The application database can be asked.                                  *)
Serving == Ready /\ live.is = "cluster"

Init ==
  /\ \E major \in Majors : live = Cluster(major, {}, 0) /\ stack = major /\ repo = major
  /\ staged = [i \in Ids |-> Absent] /\ aside = [i \in Ids |-> Absent]
  /\ dump = [i \in Ids |-> Absent]
  /\ checkout = "git" /\ leftover = FALSE
  /\ env = 0 /\ container = 0
  /\ written = {} /\ rotations = 0 /\ plays = 0
  /\ play = Playbook("none", <<>>, <<>>, {})

-----------------------------------------------------------------------------
(* What goes on beside the playbooks: services write while they can log    *)
(* in; a rotation in full (PasswordRotation has its steps) leaves .env.bak *)
(* in the checkout; an operator removes such files, or checks out the new  *)
(* release, whose compose.yml a cutover needs.                             *)
Write ==
  /\ Serving /\ container = live.password
  /\ \E row \in 1 .. MaxRows \ written :
       /\ \A r \in written : r < row
       /\ live' = [live EXCEPT !.rows = @ \cup {row}] /\ written' = written \cup {row}
  /\ UNCHANGED <<staged, aside, dump, compose, rotations, play, plays>>

Rotate ==
  /\ Serving /\ rotations < MaxRotations
  /\ rotations' = rotations + 1
  /\ live' = [live EXCEPT !.password = rotations'] /\ env' = rotations' /\ container' = rotations'
  /\ leftover' = TRUE
  /\ UNCHANGED <<staged, aside, dump, stack, repo, checkout, written, play, plays>>

Tidy ==
  /\ leftover /\ leftover' = FALSE
  /\ UNCHANGED <<disk, stack, repo, checkout, env, container, counters, play>>

CheckOut ==
  /\ repo # Release /\ checkout = "git" /\ play.todo = <<>>
  /\ repo' = Release
  /\ UNCHANGED <<disk, stack, checkout, leftover, env, container, counters, play>>

-----------------------------------------------------------------------------
Begin(name, tasks, args, promised) ==
  /\ play.todo = <<>> /\ plays < MaxPlays
  /\ plays' = plays + 1
  /\ play' = Playbook(name, tasks, args, promised)
  /\ UNCHANGED <<disk, compose, written, rotations>>

Deployment == <<"prepare", "down", "deploy", "env", "up", "wait">>
Cutover    == <<"down", "aside", "in", "up", "wait">>

BeginInstall(source) == Begin("install", Deployment, [source |-> source], live.rows)

BeginUpdate(source, allow) ==
  Begin("update", <<"check">> \o Deployment, [source |-> source, allow |-> allow], live.rows)

(* A run id serves one cutover: otherwise mv would put the old directory   *)
(* into the one it has moved aside before.                                 *)
BeginMigrate(id, backup, cutover) ==
  /\ aside[id] = Absent
  /\ Begin("migrate",
           <<"running">> \o (IF backup THEN <<"globals", "dump">> ELSE <<>>) \o <<"staging", "restore">>
             \o (IF cutover THEN Cutover ELSE <<>>),
           [id |-> id, from |-> "staged", of |-> id], {})

BeginRollback(id, from, of) ==
  /\ aside[id] = Absent
  /\ LET source == IF from = "staged" THEN staged[of] ELSE aside[of]
     IN  /\ source # Absent
         /\ Begin("rollback", Cutover, [id |-> id, from |-> from, of |-> of], source.rows)

-----------------------------------------------------------------------------
At(task) == play.todo # <<>> /\ Head(play.todo) = task

Stopped == play' = [play EXCEPT !.todo = <<>>, !.outcome = "failed"]

Passed(p) ==
  play' = [p EXCEPT !.todo = Tail(@), !.outcome = IF Len(p.todo) = 1 THEN "success" ELSE @]

TaskFails == play.todo # <<>> /\ Stopped /\ UNCHANGED <<disk, compose, counters>>

(* The version is asked of a database that runs, and of no other.          *)
CheckMajor ==
  /\ At("check") /\ (Ready => Serving /\ (live.major = Release \/ play.args.allow)) /\ Passed(play)
  /\ UNCHANGED <<disk, compose, counters>>

(* A checkout that git does not find clean blocks the update.              *)
PrepareRepo ==
  /\ At("prepare") /\ ~(play.args.source = "git" /\ checkout = "git" /\ leftover) /\ Passed(play)
  /\ UNCHANGED <<disk, compose, counters>>

Down ==
  /\ At("down") /\ stack' = "down" /\ Passed(play)
  /\ UNCHANGED <<disk, repo, checkout, leftover, env, container, counters>>

(* An archive, and a clone in the place of one, starts from no directory.  *)
DeployRepo ==
  /\ At("deploy") /\ Passed(play)
  /\ repo' = Release /\ checkout' = play.args.source
  /\ IF "archive" \in {play.args.source, checkout} THEN env' = 0 /\ leftover' = FALSE
     ELSE UNCHANGED <<env, leftover>>
  /\ UNCHANGED <<disk, stack, container, counters>>

(* Two lines, whatever the file has held.                                  *)
WriteEnv ==
  /\ At("env") /\ env' = 0 /\ Passed(play)
  /\ UNCHANGED <<disk, stack, repo, checkout, leftover, container, counters>>

(* The image sets up a new cluster in an empty data directory.  Without    *)
(* one the volume refuses to mount, or makes it.                           *)
Up ==
  /\ At("up") /\ stack' = repo /\ container' = env /\ Passed(play)
  /\ LET new == Cluster(repo, {}, env)
     IN  live' \in IF live = Empty THEN {new} ELSE IF live = Absent THEN {live, new} ELSE {live}
  /\ UNCHANGED <<staged, aside, dump, repo, checkout, leftover, env, counters>>

Wait ==
  /\ At("wait") /\ Ready /\ Passed(play)
  /\ UNCHANGED <<disk, compose, counters>>

-----------------------------------------------------------------------------
(* The directories of the run, and the container to dump from.             *)
SourceRunning ==
  /\ At("running") /\ Serving /\ Passed(play)
  /\ staged' = [staged EXCEPT ![play.args.id] = IF @ = Absent THEN Empty ELSE @]
  /\ UNCHANGED <<live, aside, dump, compose, counters>>

(* The shell makes each file before a dump can fail: roles may lack their  *)
(* passwords, an archive its end, whatever rows it was to hold.            *)
DumpGlobals ==
  /\ At("globals") /\ Serving
  /\ \/ dump' = [dump EXCEPT ![play.args.id].password = live.password] /\ Passed(play)
     \/ dump' = [dump EXCEPT ![play.args.id].password = NoPassword] /\ Stopped
  /\ UNCHANGED <<live, staged, aside, compose, counters>>

DumpDatabase ==
  /\ At("dump") /\ Serving
  /\ \/ dump' = [dump EXCEPT ![play.args.id].is = "cluster", ![play.args.id].rows = live.rows] /\ Passed(play)
     \/ dump' = [dump EXCEPT ![play.args.id].is = "partial", ![play.args.id].rows = live.rows] /\ Stopped
  /\ UNCHANGED <<live, staged, aside, compose, counters>>

(* Both files exist; the image sets up a cluster unless there is one.      *)
StartStaging ==
  /\ At("staging") /\ dump[play.args.id].is # "absent" /\ Passed(play)
  /\ staged' = [staged EXCEPT ![play.args.id] = IF @ = Empty THEN Fresh ELSE @]
  /\ UNCHANGED <<live, aside, dump, compose, counters>>

(* Mutant: pg_restore skips what it cannot read and the run goes on.       *)
RestoreWhatIsThere ==
  LET id == play.args.id
  IN  /\ At("restore") /\ staged[id] = Fresh
      /\ \/ /\ staged' = [staged EXCEPT ![id] = Cluster(Release, {}, dump[id].password)]
            /\ Passed([play EXCEPT !.promised = dump[id].rows])
         \/ staged' = [staged EXCEPT ![id] = Partial] /\ Stopped
      /\ UNCHANGED <<live, aside, dump, compose, counters>>

(* The roles and tables must all be new, and the archive must be whole:    *)
(* otherwise the restore ends with an error.                               *)
Restore ==
  LET id == play.args.id
  IN  /\ At("restore") /\ staged[id] = Fresh
      /\ \/ /\ dump[id].is = "cluster"
            /\ staged' = [staged EXCEPT ![id] = Cluster(Release, dump[id].rows, dump[id].password)]
            /\ Passed([play EXCEPT !.promised = dump[id].rows])
         \/ staged' = [staged EXCEPT ![id] = Partial] /\ Stopped
      /\ UNCHANGED <<live, aside, dump, compose, counters>>

-----------------------------------------------------------------------------
(* Mutant: the directory gives way to the new one instead of being kept.   *)
RemoveLive ==
  /\ At("aside") /\ live # Absent /\ Passed(play)
  /\ live' = Absent
  /\ UNCHANGED <<staged, aside, dump, compose, counters>>

MoveAside ==
  /\ At("aside") /\ live # Absent /\ Passed(play)
  /\ aside' = [aside EXCEPT ![play.args.id] = live] /\ live' = Absent
  /\ UNCHANGED <<staged, dump, compose, counters>>

MoveIn ==
  /\ At("in") /\ Passed(play)
  /\ \/ /\ play.args.from = "staged" /\ live' = staged[play.args.of]
        /\ staged' = [staged EXCEPT ![play.args.of] = Absent] /\ UNCHANGED aside
     \/ /\ play.args.from = "aside" /\ live' = aside[play.args.of]
        /\ aside' = [aside EXCEPT ![play.args.of] = Absent] /\ UNCHANGED staged
  /\ UNCHANGED <<dump, compose, counters>>

Next ==
  \/ Write \/ Rotate \/ Tidy \/ CheckOut
  \/ \E source \in {"git", "archive"} :
       BeginInstall(source) \/ \E allow \in BOOLEAN : BeginUpdate(source, allow)
  \/ \E id \in Ids, backup \in BOOLEAN, cutover \in BOOLEAN : BeginMigrate(id, backup, cutover)
  \/ \E id, of \in Ids, from \in {"staged", "aside"} : BeginRollback(id, from, of)
  \/ TaskFails
  \/ CheckMajor \/ PrepareRepo \/ Down \/ DeployRepo \/ WriteEnv \/ Up \/ Wait
  \/ SourceRunning \/ DumpGlobals \/ DumpDatabase \/ StartStaging \/ Restore
  \/ MoveAside \/ MoveIn

Spec == Init /\ [][Next]_vars

-----------------------------------------------------------------------------
Kept == live.rows \cup UNION {staged[i].rows \cup aside[i].rows : i \in Ids}

(* Whatever was committed in a database that was live is still in a data   *)
(* directory, wherever playbooks fail, whichever is run next, and however  *)
(* often: only a directory that was moved aside is a way back.             *)
NothingLost == written \subseteq Kept

(* A deployment, cutover or rollback that reports success has left a       *)
(* server that answers, with the rows that were live before it, in the     *)
(* dump, or in the directory that was asked for.                           *)
EndsServing ==
  play.todo = <<"wait">> /\ play'.outcome = "success"
    => Ready' /\ play.promised \subseteq live'.rows

(* playbooks/README.md: .env holds the rotated passwords and Compose loads *)
(* it.  After an update that succeeds the services can log in.             *)
KeepsAccess ==
  play.todo # <<>> /\ play.name = "update" /\ play'.outcome = "success"
    => container = live.password

=============================================================================
