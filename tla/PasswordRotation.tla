-------------------------- MODULE PasswordRotation --------------------------
(***************************************************************************)
(* PasswordRotator of oeds_ops/password_rotation.py.  One run at a time    *)
(* changes the four passwords of SECRET_SPECS in five places: the live     *)
(* services, the compose .env, the containers created from it, and the     *)
(* Bitwarden wallet, with a backup of .env and a pending file to recover   *)
(* from.  Any command may fail before or after it took effect, the run may *)
(* be killed between any two, and an operator runs the script again        *)
(* afterwards.                                                             *)
(*                                                                         *)
(* A password is the number of the run that generated it.  A dry run, the  *)
(* Bitwarden login and the retries of a verification change none of this.  *)
(***************************************************************************)
EXTENDS Naturals

CONSTANTS Always,    \* consumers that every rotation restarts
          Optional,  \* OPTIONAL_ROTATED_SERVICES
          MaxRuns    \* a bound on the runs of the script

ASSUME RotationAssumption == MaxRuns \in Nat /\ Always \cap Optional = {}

(* In the order of SECRET_SPECS and of the rotation: opendata, readonly,   *)
(* Grafana, pgAdmin.  The script can log in with all but the last.         *)
Secrets  == 1 .. 4
Verified == 1 .. 3
Runs     == 0 .. MaxRuns
Services == Always \cup Optional

VARIABLES
  live,       \* the password in force for each secret
  env,        \* the passwords in .env
  container,  \* .env as each service's container was created with it
  up,         \* the services that run
  wallet,     \* the passwords in Bitwarden
  backups,    \* the .env.bak files
  pending,    \* runs whose pending-secret file exists
  pc,         \* the next step of the run
  phase,      \* "forward", or "rollback"
  at,         \* the next secret of a step that goes through all of them
  run,        \* the number of the run
  text,       \* compose_env_text and old_passwords, read at the start
  running,    \* running_services
  outcome     \* how the last run ended

world  == <<live, env, container, up, wallet, backups, pending>>
script == <<pc, phase, at, run, text, running, outcome>>
vars   == <<live, env, container, up, wallet, backups, pending,
            pc, phase, at, run, text, running, outcome>>

Init ==
  /\ live      = [k \in Secrets |-> 0]
  /\ env       = [k \in Secrets |-> 0]
  /\ container = [s \in Services |-> env]
  /\ up \in {Always \cup O : O \in SUBSET Optional}
  /\ wallet    = [k \in Secrets |-> 0]
  /\ backups   = {}
  /\ pending   = {}
  /\ pc        = "idle"
  /\ phase     = "forward"
  /\ at        = 1
  /\ run       = 0
  /\ text      = env
  /\ running   = {}
  /\ outcome   = "success"

-----------------------------------------------------------------------------
(* __init__, check_stack_state: the file and the running services are read *)
(* once.                                                                   *)
Begin ==
  /\ pc = "idle" /\ run < MaxRuns
  /\ pc'      = "backup"
  /\ phase'   = "forward"
  /\ at'      = 1
  /\ run'     = run + 1
  /\ text'    = env
  /\ running' = up
  /\ outcome' = "none"
  /\ UNCHANGED world

End(how) ==
  /\ pc'      = "idle"
  /\ outcome' = how
  /\ UNCHANGED <<phase, at, run, text, running>>

Goto(step, k) ==
  /\ pc' = step /\ at' = k
  /\ UNCHANGED <<phase, run, text, running, outcome>>

(* Before the inner try: an error ends the run and nothing is undone.      *)
Backup ==
  /\ pc = "backup"
  /\ backups' = backups \cup {env}
  /\ UNCHANGED <<live, env, container, up, wallet, pending>>
  /\ (Goto("pending", 1) \/ End("refused"))

CreatePending ==
  /\ pc = "pending"
  /\ pending' = pending \cup {run}
  /\ UNCHANGED <<live, env, container, up, wallet, backups>>
  /\ (Goto("rotate", 1) \/ End("refused"))

Refuse ==
  /\ pc \in {"backup", "pending"}
  /\ End("refused")
  /\ UNCHANGED world

-----------------------------------------------------------------------------
(* The steps that the rotation and the rollback share.  An error in the    *)
(* rotation starts the rollback; an error in the rollback ends it, except  *)
(* that an error in its last step, the wallet, is only logged.             *)

Target == IF phase = "forward" THEN [k \in Secrets |-> run] ELSE text

(* Mutant: an error of the rollback is only logged.                        *)
FailCarriesOn ==
  IF phase = "forward"
  THEN /\ phase' = "rollback" /\ pc' = "rotate" /\ at' = 1
       /\ UNCHANGED <<run, text, running, outcome>>
  ELSE End("rolledback")

Fail ==
  IF phase = "forward"
  THEN /\ phase' = "rollback" /\ pc' = "rotate" /\ at' = 1
       /\ UNCHANGED <<run, text, running, outcome>>
  ELSE End(IF pc = "wallet" THEN "rolledback" ELSE "incomplete")

(* rotate_database_passwords, rotate_grafana_password,                     *)
(* rotate_pgadmin_password.                                                *)
SetLive == live' = [live EXCEPT ![at] = Target[at]]

Rotate ==
  /\ pc = "rotate"
  /\ \/ SetLive /\ (IF at < 4 THEN Goto("rotate", at + 1) ELSE Goto("env", 1))
     \/ (SetLive \/ UNCHANGED live) /\ Fail
  /\ UNCHANGED <<env, container, up, wallet, backups, pending>>

(* write_new_compose_env, restore_compose_env: a file is replaced by a     *)
(* rename.                                                                 *)
WriteEnv ==
  /\ pc = "env"
  /\ \/ env' = Target /\ Goto("restart", 1)
     \/ env' \in {env, Target} /\ Fail
  /\ UNCHANGED <<live, container, up, wallet, backups, pending>>

(* restart_dependent_services: docker compose up creates a container anew  *)
(* when its settings have changed.                                         *)
Recreate(S) ==
  /\ container' = [s \in Services |-> IF s \in S THEN env ELSE container[s]]
  /\ up' = up \cup S

Restarted == Always \cup (Optional \cap running)

AfterRestart == Goto(IF phase = "forward" THEN "verify" ELSE "wallet", 1)

Restart ==
  /\ pc = "restart"
  /\ \/ Recreate(Restarted) /\ AfterRestart
     \/ \E S \in SUBSET Restarted : Recreate(S) /\ Fail
  /\ UNCHANGED <<live, env, wallet, backups, pending>>

(* verify: only in the rotation.  The services can be too slow to answer.  *)
Verify ==
  /\ pc = "verify"
  /\ \/ (\A k \in Verified : live[k] = run) /\ Goto("wallet", 1)
     \/ Fail
  /\ UNCHANGED world

(* write_bitwarden_items.                                                  *)
SetWallet == wallet' = [wallet EXCEPT ![at] = Target[at]]

(* Mutant: the wallet has not been filled when the run counts as finished. *)
WalletPart ==
  /\ pc = "wallet"
  /\ \/ SetWallet /\ (IF at < 3 THEN Goto("wallet", at + 1) ELSE Goto("finish", 1))
     \/ (SetWallet \/ UNCHANGED wallet) /\ Fail
  /\ UNCHANGED <<live, env, container, up, backups, pending>>

Wallet ==
  /\ pc = "wallet"
  /\ \/ /\ SetWallet
        /\ IF at < 4 THEN Goto("wallet", at + 1)
           ELSE IF phase = "forward" THEN Goto("finish", 1)
           ELSE End("rolledback")
     \/ (SetWallet \/ UNCHANGED wallet) /\ Fail
  /\ UNCHANGED <<live, env, container, up, backups, pending>>

-----------------------------------------------------------------------------
(* Mutant: the pending file goes away with every run that has ended.       *)
KillCleansUp ==
  /\ pc # "idle"
  /\ End("killed")
  /\ pending' = pending \ {run}
  /\ UNCHANGED <<live, env, container, up, wallet, backups>>

(* The else clause; the file may refuse to go away.                        *)
Finish ==
  /\ pc = "finish"
  /\ pending' \in {pending, pending \ {run}}
  /\ End("success")
  /\ UNCHANGED <<live, env, container, up, wallet, backups>>

(* The process is killed or interrupted: KeyboardInterrupt is no Exception *)
(* and starts no rollback.                                                 *)
Kill ==
  /\ pc # "idle"
  /\ End("killed")
  /\ UNCHANGED world

(* An optional service stops or crashes; its container is started again,   *)
(* or created anew.                                                        *)
ServiceDown(s) ==
  /\ s \in up
  /\ up' = up \ {s}
  /\ UNCHANGED <<live, env, container, wallet, backups, pending, script>>

ServiceUp(s) ==
  /\ s \notin up
  /\ up' = up \cup {s}
  /\ container' \in {container, [container EXCEPT ![s] = env]}
  /\ UNCHANGED <<live, env, wallet, backups, pending, script>>

-----------------------------------------------------------------------------
Next ==
  \/ Begin \/ Backup \/ CreatePending \/ Refuse
  \/ Rotate \/ WriteEnv \/ Restart \/ Verify \/ Wallet \/ Finish \/ Kill
  \/ \E s \in Optional : ServiceDown(s) \/ ServiceUp(s)

Spec == Init /\ [][Next]_vars

-----------------------------------------------------------------------------
Passwords == [Secrets -> Runs]

TypeOK ==
  /\ live \in Passwords /\ env \in Passwords /\ wallet \in Passwords
  /\ container \in [Services -> Passwords]
  /\ up \subseteq Services
  /\ backups \subseteq Passwords
  /\ pending \subseteq Runs
  /\ pc \in {"idle", "backup", "pending", "rotate", "env", "restart", "verify",
             "wallet", "finish"}
  /\ phase \in {"forward", "rollback"}
  /\ at \in Secrets
  /\ run \in Runs
  /\ text \in Passwords
  /\ running \subseteq Services
  /\ outcome \in {"none", "success", "rolledback", "incomplete", "refused", "killed"}

(* Nobody is locked out: a password in force can always be read from .env, *)
(* from a backup of it or from a pending file, wherever runs fail or are   *)
(* killed, in the rollback as well, and however often they are repeated.   *)
OnDisk(k) == {env[k]} \cup {b[k] : b \in backups} \cup pending

NoLockOut == \A k \in Secrets : live[k] \in OnDisk(k)

(* A run that reports success, or a completed rollback, leaves the live    *)
(* services, .env and the containers that it restarted in agreement, also  *)
(* when they did not agree before it.                                      *)
EndsInAgreement ==
  pc = "idle" /\ outcome \in {"success", "rolledback"}
    => /\ live = env
       /\ \A s \in Restarted : container[s] = env

(* The wallet holds what is in force when a run reports success.           *)
WalletCurrent == pc = "idle" /\ outcome = "success" => wallet = live

-----------------------------------------------------------------------------
(* The inductive invariant: what .env can hold is also in a backup or the  *)
(* pending file, and each step of a run has done its part for good.        *)
AfterSaving == {"rotate", "env", "restart", "verify", "wallet", "finish"}

SavedFirst ==
  /\ pc \in {"backup", "pending"} => env = text
  /\ pc \in {"pending"} \cup AfterSaving => text \in backups
  /\ pc \in AfterSaving => run \in pending /\ env \in {text, [k \in Secrets |-> run]}
  /\ pc \in {"backup", "pending", "verify", "finish"} => phase = "forward"

StepsDone ==
  /\ pc = "rotate" => \A k \in Secrets : k < at => live[k] = Target[k]
  /\ pc \in AfterSaving \ {"rotate"} => live = Target
  /\ pc \in AfterSaving \ {"rotate", "env"} => env = Target
  /\ pc \in {"verify", "wallet", "finish"} => \A s \in Restarted : container[s] = env
  /\ pc = "wallet" => \A k \in Secrets : k < at => wallet[k] = Target[k]
  /\ pc = "finish" => wallet = Target

RotationInv ==
  TypeOK /\ SavedFirst /\ StepsDone /\ NoLockOut /\ EndsInAgreement /\ WalletCurrent

=============================================================================
