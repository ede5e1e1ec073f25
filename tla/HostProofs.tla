----------------------------- MODULE HostProofs -----------------------------
(* Proofs about PasswordRotation, for every number of runs of the script   *)
(* and every set of services; and below about HostPlaybooks, as its run    *)
(* checks it.                                                              *)
EXTENDS MCPasswordRotation, SequenceTheorems, TLAPS

(* Every step keeps the types.                                             *)
LEMMA TypeStep ==
  ASSUME RotationInv, [Next]_vars
  PROVE  TypeOK'
<1> USE RotationAssumption DEF Secrets, Runs, Passwords
<1> SUFFICES ASSUME Next PROVE TypeOK'
  BY DEF vars, RotationInv, TypeOK
<1> USE DEF RotationInv, TypeOK
<1>0. Target \in Passwords
  BY DEF Target
<1>1. CASE Begin
  BY <1>1, <1>0 DEF Begin, world, End, Goto
<1>2. CASE Backup
  BY <1>2, <1>0 DEF Backup, world, End, Goto
<1>3. CASE CreatePending
  BY <1>3, <1>0 DEF CreatePending, world, End, Goto
<1>4. CASE Refuse
  BY <1>4, <1>0 DEF Refuse, world, End, Goto
<1>5. CASE Rotate
  BY <1>5, <1>0 DEF Rotate, world, End, Goto, SetLive, Fail
<1>6. CASE WriteEnv
  BY <1>6, <1>0 DEF WriteEnv, world, End, Goto, Fail
<1>7. CASE Restart
  BY <1>7, <1>0 DEF Restart, world, End, Goto, Recreate, AfterRestart, Fail, Restarted, Services
<1>8. CASE Verify
  BY <1>8, <1>0 DEF Verify, world, End, Goto, Fail, Verified
<1>9. CASE Wallet
  BY <1>9, <1>0 DEF Wallet, world, End, Goto, SetWallet, Fail
<1>10. CASE Finish
  BY <1>10, <1>0 DEF Finish, world, End, Goto
<1>11. CASE Kill
  BY <1>11, <1>0 DEF Kill, world, End, Goto
<1>12. CASE \E s \in Optional : ServiceDown(s) \/ ServiceUp(s)
  <2>1. PICK s \in Optional : ServiceDown(s) \/ ServiceUp(s)
    BY <1>12
  <2>2. CASE ServiceDown(s)
    BY <2>2 DEF ServiceDown, script
  <2>3. CASE ServiceUp(s)
    BY <2>3 DEF ServiceUp, script, Services
  <2> QED
    BY <2>1, <2>2, <2>3
<1> QED
  BY <1>1, <1>2, <1>3, <1>4, <1>5, <1>6, <1>7, <1>8, <1>9, <1>10, <1>11, <1>12 DEF Next

(* Every step of a run leaves what the run can put into .env on disk.      *)
LEMMA SavedStep ==
  ASSUME RotationInv, [Next]_vars
  PROVE  SavedFirst'
<1> SUFFICES ASSUME Next PROVE SavedFirst'
  BY DEF vars, RotationInv, SavedFirst
<1> USE DEF RotationInv, SavedFirst, AfterSaving
<1>1. CASE Begin
  BY <1>1 DEF Begin, world, End, Goto
<1>2. CASE Backup
  BY <1>2 DEF Backup, world, End, Goto
<1>3. CASE CreatePending
  BY <1>3 DEF CreatePending, world, End, Goto
<1>4. CASE Refuse
  BY <1>4 DEF Refuse, world, End, Goto
<1>5. CASE Rotate
  BY <1>5 DEF Rotate, world, End, Goto, SetLive, Fail
<1>6. CASE WriteEnv
  BY <1>6 DEF WriteEnv, world, End, Goto, Fail, Target
<1>7. CASE Restart
  BY <1>7 DEF Restart, world, End, Goto, Recreate, AfterRestart, Fail
<1>8. CASE Verify
  BY <1>8 DEF Verify, world, End, Goto, Fail
<1>9. CASE Wallet
  BY <1>9 DEF Wallet, world, End, Goto, SetWallet, Fail
<1>10. CASE Finish
  BY <1>10 DEF Finish, world, End, Goto
<1>11. CASE Kill
  BY <1>11 DEF Kill, world, End, Goto
<1>12. CASE \E s \in Optional : ServiceDown(s) \/ ServiceUp(s)
  <2>1. PICK s \in Optional : ServiceDown(s) \/ ServiceUp(s)
    BY <1>12
  <2>2. CASE ServiceDown(s)
    BY <2>2 DEF ServiceDown, script
  <2>3. CASE ServiceUp(s)
    BY <2>3 DEF ServiceUp, script, Services
  <2> QED
    BY <2>1, <2>2, <2>3
<1> QED
  BY <1>1, <1>2, <1>3, <1>4, <1>5, <1>6, <1>7, <1>8, <1>9, <1>10, <1>11, <1>12 DEF Next

(* Every step of a run finds the steps before it done.                     *)
LEMMA DoneStep ==
  ASSUME RotationInv, [Next]_vars
  PROVE  StepsDone'
<1> USE DEF Secrets, Runs, Passwords
<1> SUFFICES ASSUME Next PROVE StepsDone'
  BY DEF vars, RotationInv, StepsDone, Target, Restarted
<1> USE DEF RotationInv, SavedFirst, StepsDone, AfterSaving, TypeOK
<1>1. CASE Begin
  BY <1>1 DEF Begin, world, End, Goto, Target, Restarted
<1>2. CASE Backup
  BY <1>2 DEF Backup, world, End, Goto, Target, Restarted
<1>3. CASE CreatePending
  BY <1>3 DEF CreatePending, world, End, Goto, Target, Restarted
<1>4. CASE Refuse
  BY <1>4 DEF Refuse, world, End, Goto, Target, Restarted
<1>5. CASE Rotate
  <2>1. CASE SetLive /\ Goto("rotate", at + 1) /\ at < 4
    BY <1>5, <2>1 DEF Rotate, Goto, SetLive, Target, Restarted
  <2>2. CASE SetLive /\ Goto("env", 1) /\ ~(at < 4)
    <3>1. live' \in Passwords /\ Target \in Passwords
      BY <1>5, <2>2 DEF Rotate, SetLive, Target
    <3>2. \A k \in Secrets : live'[k] = Target[k]
      BY <1>5, <2>2, <3>1 DEF Rotate, SetLive
    <3>3. live' = Target
      BY <3>1, <3>2
    <3> QED
      BY <1>5, <2>2, <3>3 DEF Rotate, Goto, Target, Restarted
  <2>3. CASE (SetLive \/ UNCHANGED live) /\ Fail
    BY <1>5, <2>3 DEF Rotate, Fail, End, Target, Restarted
  <2> QED
    BY <1>5, <2>1, <2>2, <2>3 DEF Rotate
<1>6. CASE WriteEnv
  BY <1>6 DEF WriteEnv, world, End, Goto, Target, Restarted, Fail
<1>7. CASE Restart
  BY <1>7 DEF Restart, world, End, Goto, Target, Restarted, Recreate, AfterRestart, Fail, Services
<1>8. CASE Verify
  BY <1>8 DEF Verify, world, End, Goto, Target, Restarted, Fail
<1>9. CASE Wallet
  BY <1>9 DEF Wallet, world, End, Goto, Target, Restarted, SetWallet, Fail
<1>10. CASE Finish
  BY <1>10 DEF Finish, world, End, Goto, Target, Restarted
<1>11. CASE Kill
  BY <1>11 DEF Kill, world, End, Goto, Target, Restarted
<1>12. CASE \E s \in Optional : ServiceDown(s) \/ ServiceUp(s)
  <2>1. PICK s \in Optional : ServiceDown(s) \/ ServiceUp(s)
    BY <1>12
  <2>2. CASE ServiceDown(s)
    BY <2>2 DEF ServiceDown, script, Target, Restarted
  <2>3. CASE ServiceUp(s)
    BY <2>3 DEF ServiceUp, script, Services, Target, Restarted
  <2> QED
    BY <2>1, <2>2, <2>3
<1> QED
  BY <1>1, <1>2, <1>3, <1>4, <1>5, <1>6, <1>7, <1>8, <1>9, <1>10, <1>11, <1>12 DEF Next

(* No step loses the last copy of a password in force.                     *)
LEMMA LockOutStep ==
  ASSUME RotationInv, [Next]_vars
  PROVE  NoLockOut'
<1> USE DEF Secrets, Runs, Passwords
<1> SUFFICES ASSUME Next PROVE NoLockOut'
  BY DEF vars, RotationInv, NoLockOut, OnDisk
<1> USE DEF RotationInv, TypeOK, SavedFirst, StepsDone, AfterSaving, NoLockOut, OnDisk, Target
<1>1. CASE Begin
  BY <1>1 DEF Begin, world, End, Goto
<1>2. CASE Backup
  BY <1>2 DEF Backup, world, End, Goto
<1>3. CASE CreatePending
  BY <1>3 DEF CreatePending, world, End, Goto
<1>4. CASE Refuse
  BY <1>4 DEF Refuse, world, End, Goto
<1>5. CASE Rotate
  BY <1>5 DEF Rotate, world, End, Goto, SetLive, Fail
<1>6. CASE WriteEnv
  BY <1>6 DEF WriteEnv, world, End, Goto, Fail
<1>7. CASE Restart
  BY <1>7 DEF Restart, world, End, Goto, Recreate, AfterRestart, Fail
<1>8. CASE Verify
  BY <1>8 DEF Verify, world, End, Goto, Fail
<1>9. CASE Wallet
  BY <1>9 DEF Wallet, world, End, Goto, SetWallet, Fail
<1>10. CASE Finish
  BY <1>10 DEF Finish, world, End, Goto
<1>11. CASE Kill
  BY <1>11 DEF Kill, world, End, Goto
<1>12. CASE \E s \in Optional : ServiceDown(s) \/ ServiceUp(s)
  <2>1. PICK s \in Optional : ServiceDown(s) \/ ServiceUp(s)
    BY <1>12
  <2>2. CASE ServiceDown(s)
    BY <2>2 DEF ServiceDown, script
  <2>3. CASE ServiceUp(s)
    BY <2>3 DEF ServiceUp, script, Services
  <2> QED
    BY <2>1, <2>2, <2>3
<1> QED
  BY <1>1, <1>2, <1>3, <1>4, <1>5, <1>6, <1>7, <1>8, <1>9, <1>10, <1>11, <1>12 DEF Next

(* A step that ends a run well finds everything in agreement.              *)
LEMMA AgreementStep ==
  ASSUME RotationInv, [Next]_vars
  PROVE  (EndsInAgreement /\ WalletCurrent)'
<1> USE DEF Secrets, Runs, Passwords
<1> SUFFICES ASSUME Next PROVE (EndsInAgreement /\ WalletCurrent)'
  BY DEF vars, RotationInv, EndsInAgreement, WalletCurrent, Restarted
<1> USE DEF RotationInv, TypeOK, SavedFirst, StepsDone, AfterSaving, EndsInAgreement, WalletCurrent, Target, Restarted
<1>1. CASE Begin
  BY <1>1 DEF Begin, world, End, Goto
<1>2. CASE Backup
  BY <1>2 DEF Backup, world, End, Goto
<1>3. CASE CreatePending
  BY <1>3 DEF CreatePending, world, End, Goto
<1>4. CASE Refuse
  BY <1>4 DEF Refuse, world, End, Goto
<1>5. CASE Rotate
  BY <1>5 DEF Rotate, world, End, Goto, SetLive, Fail
<1>6. CASE WriteEnv
  BY <1>6 DEF WriteEnv, world, End, Goto, Fail
<1>7. CASE Restart
  BY <1>7 DEF Restart, world, End, Goto, Recreate, AfterRestart, Fail, Services
<1>8. CASE Verify
  BY <1>8 DEF Verify, world, End, Goto, Fail
<1>9. CASE Wallet
  BY <1>9 DEF Wallet, world, End, Goto, SetWallet, Fail
<1>10. CASE Finish
  BY <1>10 DEF Finish, world, End, Goto
<1>11. CASE Kill
  BY <1>11 DEF Kill, world, End, Goto
<1>12. CASE \E s \in Optional : ServiceDown(s) \/ ServiceUp(s)
  <2>1. PICK s \in Optional : ServiceDown(s) \/ ServiceUp(s)
    BY <1>12
  <2>2. CASE ServiceDown(s)
    BY <2>2 DEF ServiceDown, script
  <2>3. CASE ServiceUp(s)
    BY <2>3 DEF ServiceUp, script, Services
  <2> QED
    BY <2>1, <2>2, <2>3
<1> QED
  BY <1>1, <1>2, <1>3, <1>4, <1>5, <1>6, <1>7, <1>8, <1>9, <1>10, <1>11, <1>12 DEF Next

-----------------------------------------------------------------------------
(* The inductive invariant holds in every reachable state.                 *)
THEOREM RotationInvariant == Spec => []RotationInv
<1>1. Init => RotationInv
  BY RotationAssumption
  DEF Init, RotationInv, TypeOK, SavedFirst, StepsDone, AfterSaving, NoLockOut, OnDisk,
      EndsInAgreement, WalletCurrent, Restarted, Target, Passwords, Secrets, Runs, Services
<1>2. RotationInv /\ [Next]_vars => RotationInv'
  BY TypeStep, SavedStep, DoneStep, LockOutStep, AgreementStep DEF RotationInv
<1> QED
  BY <1>1, <1>2, PTL DEF Spec

(* However runs fail, are killed and are repeated, each password in force  *)
(* stands in .env, in a backup of it, or in a pending file.                *)
THEOREM LockOut == Spec => []NoLockOut
<1>1. RotationInv => NoLockOut
  BY DEF RotationInv
<1> QED
  BY <1>1, RotationInvariant, PTL

(* A success and a completed rollback leave services, .env and restarted   *)
(* containers in agreement.                                                *)
THEOREM Agreement == Spec => []EndsInAgreement
<1>1. RotationInv => EndsInAgreement
  BY DEF RotationInv
<1> QED
  BY <1>1, RotationInvariant, PTL

-----------------------------------------------------------------------------
(* The playbooks.  What the variables hold:                                *)
DirKinds  == {"absent", "empty", "fresh", "partial", "cluster"}
DirPasswords == Nat \cup {Host!NoPassword}
Rows == 1 .. MaxRows
Dirs == [is : DirKinds, major : Host!Majors \cup {"none"}, rows : SUBSET Rows, password : DirPasswords]

Moves == {"running", "globals", "dump", "staging", "restore", "aside", "in"}
Tasks == Moves \cup {"check", "prepare", "down", "deploy", "env", "up", "wait"}

MoveArgs == [id : Ids, from : {"staged", "aside"}, of : Ids]
Args == MoveArgs \cup [source : {"git", "archive"}] \cup [source : {"git", "archive"}, allow : BOOLEAN]
          \cup {<<>>}

HostTypes ==
  /\ directory \in Dirs
  /\ staged \in [Ids -> Dirs] /\ aside \in [Ids -> Dirs] /\ dump \in [Ids -> Dirs]
  /\ repo \in Host!Majors /\ dotenv \in Nat /\ rotations \in Nat
  /\ written \subseteq Rows
  /\ play \in [name : {"none", "install", "update", "migrate", "rollback"}, todo : Seq(Tasks),
               outcome : {"none", "success", "failed"}, args : Args, promised : SUBSET Rows]

(* What stands in the list of the tasks that are left: the arguments that  *)
(* a task needs, and where a cutover moves directories.                    *)
TasksInOrder ==
  LET todo == play.todo  n == Len(todo) IN
  /\ todo # <<>> => play.outcome = "none"
  /\ \A k \in 1 .. n :
       /\ todo[k] \in Moves => play.args \in MoveArgs
       /\ todo[k] = "restore" => /\ play.args.from = "staged" /\ play.args.of = play.args.id
                                 /\ k = n \/ (k < n - 2 /\ todo[n - 2] = "in")
       /\ todo[k] = "aside" => k = n - 3 /\ todo[n - 2] = "in" /\ aside[play.args.id] = Host!Absent
       /\ todo[k] = "in" => /\ k = n - 2
                            /\ k # 1 => todo[k - 1] = "aside"
                            /\ k = 1 => directory = Host!Absent

CutsOver == \E k \in 1 .. Len(play.todo) : play.todo[k] = "in"
Source == IF play.args.from = "staged" THEN staged[play.args.of] ELSE aside[play.args.of]

PromiseKept ==
  /\ CutsOver => play.promised \subseteq Source.rows
  /\ play.todo # <<>> /\ play.todo[Len(play.todo)] = "wait" /\ ~CutsOver
       => play.promised \subseteq directory.rows

HostInv == HostTypes /\ TasksInOrder /\ PromiseKept /\ Host!NothingLost

-----------------------------------------------------------------------------
(* The head and the tail of a list of tasks, by position.                  *)
LEMMA ListTail ==
  ASSUME NEW t \in Seq(Tasks), t # <<>>
  PROVE  /\ Tail(t) \in Seq(Tasks) /\ Len(t) \in Nat \ {0} /\ Len(Tail(t)) = Len(t) - 1
         /\ Head(t) = t[1]
         /\ \A k \in 1 .. Len(t) - 1 : Tail(t)[k] = t[k + 1]
         /\ Tail(t) # <<>> => Len(t) # 1
<1>1. Len(t) \in Nat \ {0} /\ Tail(t) \in Seq(Tasks) /\ Head(t) = t[1]
  BY HeadTailProperties, EmptySeq, LenProperties
<1>2. Len(Tail(t)) = Len(t) - 1 /\ \A k \in 1 .. Len(t) - 1 : Tail(t)[k] = t[k + 1]
  BY HeadTailProperties, <1>1
<1>3. Tail(t) # <<>> => Len(t) # 1
  BY <1>1, <1>2, EmptySeq
<1> QED BY <1>1, <1>2, <1>3

(* A playbook's record.                                                    *)
PlayType ==
  [name : {"none", "install", "update", "migrate", "rollback"}, todo : Seq(Tasks),
   outcome : {"none", "success", "failed"}, args : Args, promised : SUBSET Rows]

(* A task that is done leaves a record of the same type, with the rest of its*)
(* list and the same promise.                                              *)
LEMMA PassedType ==
  ASSUME NEW p \in PlayType, p.todo # <<>>, p.outcome = "none", Host!Passed(p)
  PROVE  /\ play' \in PlayType
         /\ play'.todo = Tail(p.todo) /\ play'.args = p.args /\ play'.promised = p.promised
         /\ play'.todo # <<>> => play'.outcome = "none"
<1>1. Tail(p.todo) \in Seq(Tasks) /\ (Tail(p.todo) # <<>> => Len(p.todo) # 1)
  BY ListTail DEF PlayType
<1> DEFINE todo == Tail(p.todo)
           ended == IF Len(p.todo) = 1 THEN "success" ELSE p.outcome
<1>2. play' = [p EXCEPT !.todo = todo, !.outcome = ended]
  BY DEF Host!Passed
<1>3. ended \in {"none", "success", "failed"} /\ (todo # <<>> => ended = "none") /\ todo \in Seq(Tasks)
  BY <1>1
<1> HIDE DEF todo, ended
<1>4. /\ play' \in PlayType /\ play'.todo = todo /\ play'.args = p.args
      /\ play'.promised = p.promised /\ play'.outcome = ended
  BY <1>2, <1>3 DEF PlayType
<1> QED BY <1>3, <1>4 DEF todo

(* A task that fails ends the list.                                        *)
LEMMA StoppedType ==
  ASSUME play \in PlayType, Host!Stopped
  PROVE  play' \in PlayType /\ play'.todo = <<>> /\ play'.args = play.args
<1>1. <<>> \in Seq(Tasks)
  BY EmptySeq
<1> QED BY <1>1 DEF Host!Stopped, PlayType

(* The list of a stopped playbook promises nothing.                        *)
LEMMA StoppedOrder ==
  ASSUME play'.todo = <<>>
  PROVE  TasksInOrder' /\ PromiseKept'
<1>1. Len(<<>>) = 0
  BY EmptySeq
<1> QED BY <1>1 DEF TasksInOrder, PromiseKept, CutsOver

(* A task is done, and the rest of the list is in order.                   *)
LEMMA OrderStep ==
  ASSUME HostTypes, TasksInOrder, play.todo # <<>>,
         play'.todo = Tail(play.todo), play'.args = play.args,
         play'.todo # <<>> => play'.outcome = "none",
         Head(play.todo) # "aside" /\ aside[play.args.id] = Host!Absent => aside'[play.args.id] = Host!Absent,
         Head(play.todo) = "aside" => directory' = Host!Absent
  PROVE  TasksInOrder'
<1> DEFINE t == play.todo  u == play'.todo
<1>1. /\ Len(t) \in Nat \ {0} /\ Len(u) = Len(t) - 1 /\ Head(t) = t[1]
      /\ \A k \in 1 .. Len(u) : u[k] = t[k + 1]
  BY ListTail DEF HostTypes
<1> SUFFICES ASSUME NEW k \in 1 .. Len(u)
             PROVE  /\ u[k] \in Moves => play'.args \in MoveArgs
                    /\ u[k] = "restore" => /\ play'.args.from = "staged" /\ play'.args.of = play'.args.id
                                           /\ k = Len(u) \/ (k < Len(u) - 2 /\ u[Len(u) - 2] = "in")
                    /\ u[k] = "aside" => k = Len(u) - 3 /\ u[Len(u) - 2] = "in" /\ aside'[play'.args.id] = Host!Absent
                    /\ u[k] = "in" => /\ k = Len(u) - 2
                                      /\ k # 1 => u[k - 1] = "aside"
                                      /\ k = 1 => directory' = Host!Absent
  BY DEF TasksInOrder
<1>2. k + 1 \in 1 .. Len(t) /\ u[k] = t[k + 1] /\ k \in 1 .. Len(t) /\ 1 \in 1 .. Len(t)
  BY <1>1
<1>3. /\ t[k + 1] \in Moves => play.args \in MoveArgs
      /\ t[k + 1] = "restore" => /\ play.args.from = "staged" /\ play.args.of = play.args.id
                                 /\ k + 1 = Len(t) \/ (k + 1 < Len(t) - 2 /\ t[Len(t) - 2] = "in")
      /\ t[k + 1] = "aside" => k + 1 = Len(t) - 3 /\ t[Len(t) - 2] = "in" /\ aside[play.args.id] = Host!Absent
      /\ t[k + 1] = "in" => k + 1 = Len(t) - 2 /\ t[k] = "aside"
  BY <1>1, <1>2 DEF TasksInOrder
<1>4. t[1] = "aside" => Len(t) = 4
  <2>1. t[1] = "aside" => 1 = Len(t) - 3
    BY <1>2 DEF TasksInOrder
  <2> QED BY <1>1, <2>1
<1>5. k # 1 => u[k - 1] = t[k]
  BY <1>1
<1>9. k + 1 < Len(t) - 2 \/ k + 1 = Len(t) - 3 => u[Len(u) - 2] = t[Len(t) - 2]
  <2> SUFFICES ASSUME k + 1 < Len(t) - 2 \/ k + 1 = Len(t) - 3 PROVE u[Len(u) - 2] = t[Len(t) - 2]
    OBVIOUS
  <2>1. Len(u) - 2 \in 1 .. Len(u) /\ (Len(u) - 2) + 1 = Len(t) - 2
    BY <1>1
  <2> QED BY <1>1, <2>1
<1>6. u[k] = "aside" => t[1] # "aside"
  <2> SUFFICES ASSUME u[k] = "aside", t[1] = "aside" PROVE FALSE
    OBVIOUS
  <2>1. Len(t) = 4 /\ k + 1 = Len(t) - 3
    BY <1>2, <1>3, <1>4
  <2> QED BY <1>1, <2>1
<1> HIDE DEF t, u
<1>7. Head(t) # "aside" /\ aside[play.args.id] = Host!Absent => aside'[play.args.id] = Host!Absent
  BY DEF t
<1>8. Head(t) = "aside" => directory' = Host!Absent
  BY DEF t
<1>10. u[k] = "restore" => k = Len(u) \/ (k < Len(u) - 2 /\ u[Len(u) - 2] = "in")
  BY <1>1, <1>2, <1>3, <1>9
<1>11. u[k] = "aside" => k = Len(u) - 3 /\ u[Len(u) - 2] = "in" /\ aside'[play'.args.id] = Host!Absent
  BY <1>1, <1>2, <1>3, <1>6, <1>7, <1>9
<1> QED BY <1>1, <1>2, <1>3, <1>5, <1>6, <1>8, <1>10, <1>11

(* What is promised stays where it is when no directory of it moves.       *)
LEMMA PromiseStep ==
  ASSUME HostTypes, TasksInOrder, PromiseKept, play.todo # <<>>, Head(play.todo) # "in",
         play'.todo = Tail(play.todo), play'.args = play.args, play'.promised = play.promised,
         directory.rows \subseteq directory'.rows \/ CutsOver,
         \A i \in Ids : staged[i].rows \subseteq staged'[i].rows /\ aside[i].rows \subseteq aside'[i].rows
  PROVE  PromiseKept'
<1> DEFINE t == play.todo  u == play'.todo
<1>1. /\ Len(t) \in Nat \ {0} /\ Len(u) = Len(t) - 1 /\ Head(t) = t[1]
      /\ \A k \in 1 .. Len(u) : u[k] = t[k + 1]
      /\ u # <<>> => Len(t) # 1
  BY ListTail DEF HostTypes
<1>2. CutsOver <=> \E k \in 1 .. Len(u) : u[k] = "in"
  <2>1. ASSUME NEW k \in 1 .. Len(t), t[k] = "in" PROVE k - 1 \in 1 .. Len(u) /\ u[k - 1] = "in"
    BY <1>1, <2>1
  <2>2. ASSUME NEW k \in 1 .. Len(u), u[k] = "in" PROVE k + 1 \in 1 .. Len(t) /\ t[k + 1] = "in"
    BY <1>1, <2>2
  <2> QED BY <2>1, <2>2 DEF CutsOver
<1>3. ASSUME CutsOver PROVE play'.promised \subseteq Source'.rows
  <2>1. play.args \in MoveArgs
    BY <1>3 DEF CutsOver, TasksInOrder, Moves
  <2> QED BY <1>3, <2>1 DEF PromiseKept, Source, MoveArgs
<1>4. u # <<>> /\ u[Len(u)] = "wait" => t[Len(t)] = "wait"
  BY <1>1
<1>5. CutsOver' <=> CutsOver
  BY <1>2 DEF CutsOver
<1> QED BY <1>3, <1>4, <1>5 DEF PromiseKept

-----------------------------------------------------------------------------
(* Nothing is lost where no directory loses rows.                          *)
LEMMA KeptStep ==
  ASSUME Host!NothingLost, written' = written, directory.rows \subseteq directory'.rows,
         \A i \in Ids : staged[i].rows \subseteq staged'[i].rows /\ aside[i].rows \subseteq aside'[i].rows
  PROVE  Host!NothingLost'
  BY DEF Host!NothingLost, Host!Kept

(* A task that moves no directory.                                         *)
LEMMA QuietTask ==
  ASSUME HostInv, play.todo # <<>>, Head(play.todo) \notin {"aside", "in"}, Host!Passed(play),
         directory' \in Dirs, staged' \in [Ids -> Dirs], dump' \in [Ids -> Dirs],
         repo' \in Host!Majors, dotenv' \in Nat, UNCHANGED <<aside, rotations, written>>,
         directory.rows \subseteq directory'.rows, \A i \in Ids : staged[i].rows \subseteq staged'[i].rows
  PROVE  HostInv'
<1>1. /\ play \in PlayType /\ play.outcome = "none"
  BY DEF HostInv, HostTypes, TasksInOrder, PlayType
<1>2. /\ play' \in PlayType
      /\ play'.todo = Tail(play.todo) /\ play'.args = play.args /\ play'.promised = play.promised
      /\ play'.todo # <<>> => play'.outcome = "none"
  BY <1>1, PassedType
<1>3. HostTypes'
  BY <1>2 DEF HostInv, HostTypes, PlayType
<1>4. TasksInOrder'
  BY <1>2, OrderStep DEF HostInv
<1>5. PromiseKept'
  BY <1>2, PromiseStep DEF HostInv
<1>6. Host!NothingLost'
  BY KeptStep DEF HostInv
<1> QED BY <1>3, <1>4, <1>5, <1>6 DEF HostInv

(* A task that fails may leave a staged directory and a dump behind.       *)
LEMMA StoppedTask ==
  ASSUME HostInv, Host!Stopped,
         staged' \in [Ids -> Dirs], dump' \in [Ids -> Dirs],
         UNCHANGED <<directory, aside, repo, dotenv, rotations, written>>,
         \A i \in Ids : staged[i].rows \subseteq staged'[i].rows
  PROVE  HostInv'
<1>1. play' \in PlayType /\ play'.todo = <<>>
  BY StoppedType DEF HostInv, HostTypes, PlayType
<1>2. HostTypes'
  BY <1>1 DEF HostInv, HostTypes, PlayType
<1>3. Host!NothingLost'
  BY KeptStep DEF HostInv
<1> QED BY <1>1, <1>2, <1>3, StoppedOrder DEF HostInv

(* What goes on beside the playbooks.                                      *)
LEMMA BesidePlay ==
  ASSUME HostInv, UNCHANGED <<staged, aside, dump, play>>, directory' \in Dirs, repo' \in Host!Majors,
         dotenv' \in Nat, rotations' \in Nat, written' \subseteq Rows, directory = Host!Absent => directory' = Host!Absent,
         directory.rows \subseteq directory'.rows, written' \subseteq written \cup directory'.rows
  PROVE  HostInv'
<1>1. HostTypes'
  BY DEF HostInv, HostTypes
<1>2. TasksInOrder'
  BY DEF HostInv, TasksInOrder
<1>3. PromiseKept'
  BY DEF HostInv, PromiseKept, CutsOver, Source
<1>4. Host!NothingLost'
  BY DEF HostInv, Host!NothingLost, Host!Kept
<1> QED BY <1>1, <1>2, <1>3, <1>4 DEF HostInv

(* A committed row is in the live directory.                               *)
LEMMA WriteInv == HostInv /\ Host!Write => HostInv'
<1> SUFFICES ASSUME HostInv, Host!Write PROVE HostInv'
  OBVIOUS
<1>1. PICK row \in Rows :
        directory' = [directory EXCEPT !.rows = @ \cup {row}] /\ written' = written \cup {row}
  BY DEF Host!Write, Rows
<1>2. directory \in Dirs /\ written \subseteq Rows /\ directory # Host!Absent
  BY DEF HostInv, HostTypes, Host!Write, Host!Serving, Host!Absent, Host!Directory
<1>3. directory' \in Dirs /\ directory'.rows = directory.rows \cup {row}
  BY <1>1, <1>2 DEF Dirs
<1>4. UNCHANGED <<staged, aside, dump, play, repo, dotenv, rotations>>
  BY DEF Host!Write, Host!compose
<1> QED BY <1>1, <1>2, <1>3, <1>4, BesidePlay DEF HostInv, HostTypes

(* A rotation changes passwords, no rows.                                  *)
LEMMA RotateInv == HostInv /\ Host!Rotate => HostInv'
<1> SUFFICES ASSUME HostInv, Host!Rotate PROVE HostInv'
  OBVIOUS
<1>1. directory \in Dirs /\ directory # Host!Absent /\ rotations \in Nat
  BY DEF HostInv, HostTypes, Host!Rotate, Host!Serving, Host!Absent, Host!Directory
<1>2. rotations' \in Nat /\ dotenv' \in Nat /\ directory' \in Dirs /\ directory'.rows = directory.rows
  BY <1>1 DEF Host!Rotate, Dirs, DirPasswords
<1>3. UNCHANGED <<staged, aside, dump, play, repo, written>>
  BY DEF Host!Rotate
<1> QED BY <1>1, <1>2, <1>3, BesidePlay DEF HostInv, HostTypes

(* An operator changes the checkout only.                                  *)
LEMMA OperatorInv == HostInv /\ (Host!Tidy \/ Host!CheckOut) => HostInv'
<1> SUFFICES ASSUME HostInv, Host!Tidy \/ Host!CheckOut PROVE HostInv'
  OBVIOUS
<1>1. UNCHANGED <<directory, staged, aside, dump, play, dotenv, rotations, written>> /\ repo' \in {repo, Host!Release}
  BY DEF Host!Tidy, Host!CheckOut, Host!disk, Host!counters
<1>2. repo' \in Host!Majors
  BY <1>1 DEF Host!Release, Host!Majors, HostInv, HostTypes
<1> QED BY <1>1, <1>2, BesidePlay DEF HostInv, HostTypes

(* A host starts with one live cluster and no rows.                        *)
LEMMA InitHost == Host!Init => HostInv
<1> SUFFICES ASSUME Host!Init PROVE HostInv
  OBVIOUS
<1>1. PICK major \in Host!Majors : directory = Host!Cluster(major, {}, 0) /\ stack = major /\ repo = major
  BY DEF Host!Init
<1>2. <<>> \in Seq(Tasks) /\ Len(<<>>) = 0
  BY EmptySeq
<1>3. HostTypes
  BY <1>1, <1>2 DEF Host!Init, HostTypes, Dirs, DirKinds, DirPasswords, Host!Cluster, Host!Absent, Host!Directory, Host!Playbook, Args
<1> QED BY <1>2, <1>3 DEF Host!Init, HostInv, TasksInOrder, PromiseKept, CutsOver, Host!NothingLost, Host!Playbook

-----------------------------------------------------------------------------
(* A playbook begins.                                                      *)
LEMMA BeginInv ==
  ASSUME HostInv, NEW name \in {"install", "update", "migrate", "rollback"},
         NEW tasks \in Seq(Tasks), NEW args \in Args, NEW promised \in SUBSET Rows,
         Host!Begin(name, tasks, args, promised),
         \A k \in 1 .. Len(tasks) :
           /\ tasks[k] \in Moves => args \in MoveArgs
           /\ tasks[k] = "restore" => /\ args.from = "staged" /\ args.of = args.id
                                      /\ \/ k = Len(tasks)
                                         \/ k < Len(tasks) - 2 /\ tasks[Len(tasks) - 2] = "in"
           /\ tasks[k] = "aside" => /\ k = Len(tasks) - 3 /\ tasks[Len(tasks) - 2] = "in"
                                    /\ aside[args.id] = Host!Absent
           /\ tasks[k] = "in" => /\ k = Len(tasks) - 2 /\ k # 1 /\ tasks[k - 1] = "aside"
                                 /\ promised \subseteq
                                      (IF args.from = "staged" THEN staged[args.of] ELSE aside[args.of]).rows,
         tasks # <<>> /\ tasks[Len(tasks)] = "wait" /\ (\A k \in 1 .. Len(tasks) : tasks[k] # "in")
           => promised \subseteq directory.rows
  PROVE  HostInv'
<1>1. /\ play' = [name |-> name, todo |-> tasks, outcome |-> "none", args |-> args, promised |-> promised]
      /\ UNCHANGED <<directory, staged, aside, dump, repo, dotenv, written, rotations>>
  BY DEF Host!Begin, Host!Playbook, Host!disk, Host!compose
<1>2. HostTypes'
  BY <1>1 DEF HostInv, HostTypes
<1>3. /\ play'.todo = tasks /\ play'.outcome = "none" /\ play'.args = args /\ play'.promised = promised
  BY <1>1
<1>4. TasksInOrder'
  BY <1>1, <1>3 DEF TasksInOrder
<1>5. PromiseKept'
  BY <1>1, <1>3 DEF PromiseKept, CutsOver, Source
<1>6. Host!NothingLost'
  BY <1>1 DEF HostInv, Host!NothingLost, Host!Kept
<1> QED BY <1>2, <1>4, <1>5, <1>6 DEF HostInv

(* The list of a deployment.                                               *)
LEMMA DeployTasks ==
  ASSUME NEW tasks \in {Host!Deployment, <<"check">> \o Host!Deployment}
  PROVE  /\ tasks \in Seq(Tasks)
         /\ \A k \in 1 .. Len(tasks) : tasks[k] \notin Moves
<1>1. Host!Deployment \in Seq(Tasks \ Moves) /\ <<"check">> \in Seq(Tasks \ Moves)
  BY DEF Host!Deployment, Tasks, Moves
<1>2. tasks \in Seq(Tasks \ Moves)
  BY <1>1, ConcatProperties
<1> QED BY <1>2, ElementOfSeq, SeqMonotonic

(* A list that ends with a cutover has its moves at its end.               *)
LEMMA CutoverList ==
  \A s \in Seq(Tasks \ {"aside", "in", "wait"}) :
    /\ s \o Host!Cutover \in Seq(Tasks)
    /\ \A k \in 1 .. Len(s \o Host!Cutover) :
         /\ (s \o Host!Cutover)[k] = "aside" => k = Len(s \o Host!Cutover) - 3
         /\ (s \o Host!Cutover)[k] = "in" => /\ k = Len(s \o Host!Cutover) - 2 /\ k # 1
                                        /\ (s \o Host!Cutover)[k - 1] = "aside"
         /\ (s \o Host!Cutover)[k] = "restore" => k \in 1 .. Len(s) /\ k < Len(s \o Host!Cutover) - 2
    /\ (s \o Host!Cutover)[Len(s \o Host!Cutover) - 2] = "in"
    /\ \E k \in 1 .. Len(s \o Host!Cutover) : (s \o Host!Cutover)[k] = "in"
<1> TAKE s \in Seq(Tasks \ {"aside", "in", "wait"})
<1> DEFINE tasks == s \o Host!Cutover
<1> HIDE DEF tasks
<1>1. Host!Cutover \in Seq(Tasks) /\ s \in Seq(Tasks) /\ Len(s) \in Nat /\ Len(Host!Cutover) = 5
  BY SeqMonotonic, LenProperties DEF Host!Cutover, Tasks, Moves
<1>2. /\ tasks \in Seq(Tasks) /\ Len(tasks) = Len(s) + 5
      /\ \A k \in 1 .. Len(s) + 5 : tasks[k] = IF k <= Len(s) THEN s[k] ELSE Host!Cutover[k - Len(s)]
  <2>1. /\ s \o Host!Cutover \in Seq(Tasks) /\ Len(s \o Host!Cutover) = Len(s) + Len(Host!Cutover)
        /\ \A k \in 1 .. Len(s) + Len(Host!Cutover) :
             (s \o Host!Cutover)[k] = IF k <= Len(s) THEN s[k] ELSE Host!Cutover[k - Len(s)]
    BY <1>1, ConcatProperties, Zenon
  <2> QED BY <1>1, <2>1 DEF tasks
<1>3. \A k \in 1 .. Len(s) : s[k] \notin {"aside", "in", "wait"}
  BY ElementOfSeq
<1>4. Host!Cutover[1] = "down" /\ Host!Cutover[2] = "aside" /\ Host!Cutover[3] = "in" /\ Host!Cutover[4] = "up"
      /\ Host!Cutover[5] = "wait"
  BY DEF Host!Cutover
<1>5. ASSUME NEW k \in 1 .. Len(s) + 5
      PROVE  \/ k \in 1 .. Len(s) /\ tasks[k] = s[k] /\ tasks[k] \notin {"aside", "in", "wait"}
             \/ k = Len(s) + 1 /\ tasks[k] = "down"
             \/ k = Len(s) + 2 /\ tasks[k] = "aside"
             \/ k = Len(s) + 3 /\ tasks[k] = "in"
             \/ k = Len(s) + 4 /\ tasks[k] = "up"
             \/ k = Len(s) + 5 /\ tasks[k] = "wait"
  <2>1. CASE k \in 1 .. Len(s)
    BY <1>1, <1>2, <1>3, <2>1
  <2>2. CASE k \notin 1 .. Len(s)
    <3>0. k - Len(s) \in 1 .. 5 /\ ~(k <= Len(s))
      BY <1>1, <2>2
    <3>1. k - Len(s) \in 1 .. 5 /\ tasks[k] = Host!Cutover[k - Len(s)]
      BY <1>2, <3>0, Zenon
    <3>2. k - Len(s) \in {1, 2, 3, 4, 5}
      BY <3>1
    <3> QED BY <1>1, <1>4, <3>1, <3>2
  <2> QED BY <2>1, <2>2
<1>6. tasks[Len(s) + 2] = "aside" /\ tasks[Len(s) + 3] = "in" /\ Len(s) + 3 \in 1 .. Len(s) + 5
  <2>1. Len(s) + 2 \in 1 .. Len(s) + 5 /\ Len(s) + 3 \in 1 .. Len(s) + 5
    BY <1>1
  <2>2. /\ ~(Len(s) + 2 <= Len(s)) /\ (Len(s) + 2) - Len(s) = 2
        /\ ~(Len(s) + 3 <= Len(s)) /\ (Len(s) + 3) - Len(s) = 3
    BY <1>1
  <2>3. tasks[Len(s) + 2] = Host!Cutover[(Len(s) + 2) - Len(s)]
    BY <1>2, <2>1, <2>2, Zenon
  <2>4. tasks[Len(s) + 3] = Host!Cutover[(Len(s) + 3) - Len(s)]
    BY <1>2, <2>1, <2>2, Zenon
  <2> QED BY <1>4, <2>1, <2>2, <2>3, <2>4, Zenon
<1>7. \E k \in 1 .. Len(tasks) : tasks[k] = "in"
  BY <1>2, <1>6
<1>8. ASSUME NEW k \in 1 .. Len(tasks)
      PROVE  /\ tasks[k] = "aside" => k = Len(tasks) - 3
             /\ tasks[k] = "in" => k = Len(tasks) - 2 /\ k # 1 /\ tasks[k - 1] = "aside"
             /\ tasks[k] = "restore" => k \in 1 .. Len(s) /\ k < Len(tasks) - 2
  <2>1. k \in 1 .. Len(s) + 5
    BY <1>2
  <2>2. tasks[k] = "aside" => k = Len(s) + 2
    BY <1>5, <2>1
  <2>3. tasks[k] = "in" => k = Len(s) + 3
    BY <1>5, <2>1
  <2>4. tasks[k] = "restore" => k \in 1 .. Len(s) /\ s[k] = "restore"
    BY <1>5, <2>1
  <2>5. k = Len(s) + 3 => k # 1 /\ tasks[k - 1] = "aside"
    <3>1. Len(s) + 3 - 1 = Len(s) + 2
      BY <1>1
    <3> QED BY <1>1, <1>6, <3>1
  <2> QED BY <1>1, <1>2, <2>2, <2>3, <2>4, <2>5
<1>9. tasks[Len(tasks) - 2] = "in"
  <2>1. Len(tasks) - 2 = Len(s) + 3
    BY <1>1, <1>2
  <2> QED BY <1>6, <2>1
<1> QED BY <1>2, <1>7, <1>8, <1>9 DEF tasks

(* An installation and an update begin with a list that moves nothing.     *)
LEMMA BeginDeployInv ==
  ASSUME HostInv, NEW source \in {"git", "archive"},
         Host!BeginInstall(source) \/ \E allow \in BOOLEAN : Host!BeginUpdate(source, allow)
  PROVE  HostInv'
<1>1. directory.rows \in SUBSET Rows
  BY DEF HostInv, HostTypes, Dirs
<1>2. CASE Host!BeginInstall(source)
  <2>1. Host!Begin("install", Host!Deployment, [source |-> source], directory.rows) /\ [source |-> source] \in Args
    BY <1>2 DEF Host!BeginInstall, Args
  <2>2. \A k \in 1 .. Len(Host!Deployment) :
          Host!Deployment[k] \notin Moves /\ Host!Deployment[k] \notin {"restore", "aside", "in"}
    BY DeployTasks DEF Moves
  <2> QED BY <1>1, <2>1, <2>2, DeployTasks, BeginInv
<1>3. ASSUME NEW allow \in BOOLEAN, Host!BeginUpdate(source, allow) PROVE HostInv'
  <2> DEFINE tasks == <<"check">> \o Host!Deployment
             args == [source |-> source, allow |-> allow]
  <2>1. Host!Begin("update", tasks, args, directory.rows) /\ args \in Args
    BY <1>3 DEF Host!BeginUpdate, Args
  <2>2. tasks \in Seq(Tasks) /\ \A k \in 1 .. Len(tasks) :
          tasks[k] \notin Moves /\ tasks[k] \notin {"restore", "aside", "in"}
    BY DeployTasks DEF Moves
  <2> HIDE DEF tasks, args
  <2> QED BY <1>1, <2>1, <2>2, BeginInv
<1> QED BY <1>2, <1>3

(* A migration begins with a list in order, with or without a dump and a   *)
(* cutover.                                                                *)
LEMMA BeginMigrateInv ==
  ASSUME HostInv, NEW id \in Ids, NEW backup \in BOOLEAN, NEW cutover \in BOOLEAN,
         Host!BeginMigrate(id, backup, cutover)
  PROVE  HostInv'
<1> DEFINE S == Tasks \ {"aside", "in", "wait"}
           B == IF backup THEN <<"globals", "dump">> ELSE <<>>
           s == <<"running">> \o B \o <<"staging", "restore">>
           tasks == s \o (IF cutover THEN Host!Cutover ELSE <<>>)
           args == [id |-> id, from |-> "staged", of |-> id]
<1>1. aside[id] = Host!Absent /\ Host!Begin("migrate", tasks, args, {})
  BY DEF Host!BeginMigrate
<1>2. args \in MoveArgs /\ args \in Args /\ args.id = id /\ args.from = "staged" /\ args.of = id
  BY DEF MoveArgs, Args
<1>3. s \in Seq(S) /\ \A k \in 1 .. Len(s) : s[k] = "restore" => k = Len(s)
  <2>1. <<"running">> \in Seq(S) /\ <<"globals", "dump">> \in Seq(S)
        /\ <<"staging", "restore">> \in Seq(S) /\ <<>> \in Seq(S)
    BY EmptySeq DEF Tasks, Moves
  <2>2. B \in Seq(S)
    BY <2>1
  <2> DEFINE front == <<"running">> \o B  end == <<"staging", "restore">>
  <2>3. front \in Seq(S) /\ \A k \in 1 .. Len(front) : front[k] # "restore"
    <3>1. front \in Seq(S \ {"restore"})
      <4>1. /\ <<"running">> \in Seq(S \ {"restore"}) /\ <<>> \in Seq(S \ {"restore"})
            /\ <<"globals", "dump">> \in Seq(S \ {"restore"})
        BY EmptySeq DEF Tasks, Moves
      <4>2. B \in Seq(S \ {"restore"})
        BY <4>1
      <4> HIDE DEF B, S
      <4> QED BY <4>1, <4>2, ConcatProperties
    <3> HIDE DEF front, S
    <3> QED BY <3>1, SeqMonotonic, ElementOfSeq
  <2>4. end \in Seq(S) /\ Len(end) = 2 /\ end[1] # "restore"
    BY <2>1
  <2> HIDE DEF B, S, front, end
  <2>5. /\ front \o end \in Seq(S) /\ Len(front \o end) = Len(front) + 2 /\ Len(front) \in Nat
        /\ \A k \in 1 .. Len(front) + 2 :
             (front \o end)[k] = IF k <= Len(front) THEN front[k] ELSE end[k - Len(front)]
    <3>1. Len(front) \in Nat
      BY <2>3, LenProperties
    <3>2. /\ front \o end \in Seq(S) /\ Len(front \o end) = Len(front) + Len(end)
          /\ \A k \in 1 .. Len(front) + Len(end) :
               (front \o end)[k] = IF k <= Len(front) THEN front[k] ELSE end[k - Len(front)]
      BY <2>3, <2>4, ConcatProperties, Zenon
    <3> QED BY <2>4, <3>1, <3>2
  <2>6. ASSUME NEW k \in 1 .. Len(front) + 2, (front \o end)[k] = "restore" PROVE k = Len(front) + 2
    <3>1. k \notin 1 .. Len(front)
      BY <2>3, <2>5, <2>6
    <3>2. k # Len(front) + 1
      <4>1. ASSUME k = Len(front) + 1 PROVE k - Len(front) = 1 /\ ~(k <= Len(front))
        BY <2>5, <4>1
      <4> QED BY <2>4, <2>5, <2>6, <4>1
    <3> QED BY <2>5, <3>1, <3>2
  <2> QED BY <2>5, <2>6 DEF front, end
<1> HIDE DEF s, args
<1>4. CASE cutover
  <2> DEFINE list == s \o Host!Cutover
  <2>0. s \in Seq(Tasks \ {"aside", "in", "wait"})
    BY <1>3
  <2>1. tasks = list
    BY <1>4
  <2>2. /\ list \in Seq(Tasks)
        /\ \A k \in 1 .. Len(list) :
              /\ list[k] = "aside" => k = Len(list) - 3
              /\ list[k] = "in" => k = Len(list) - 2 /\ k # 1 /\ list[k - 1] = "aside"
              /\ list[k] = "restore" => k \in 1 .. Len(s) /\ k < Len(list) - 2
        /\ list[Len(list) - 2] = "in"
        /\ \E k \in 1 .. Len(list) : list[k] = "in"
    BY <2>0, CutoverList, Zenon
  <2>3. Host!Begin("migrate", list, args, {})
    BY <1>1, <2>1
  <2> HIDE DEF list
  <2>4. \A k \in 1 .. Len(list) :
          /\ list[k] = "restore" => k < Len(list) - 2 /\ list[Len(list) - 2] = "in"
          /\ list[k] = "aside" => k = Len(list) - 3 /\ list[Len(list) - 2] = "in" /\ aside[args.id] = Host!Absent
          /\ list[k] = "in" => k = Len(list) - 2 /\ k # 1 /\ list[k - 1] = "aside"
    BY <1>1, <1>2, <2>2
  <2>5. \A k \in 1 .. Len(list) : list[k] \in Moves => args \in MoveArgs
    BY <1>2
  <2>6. {} \in SUBSET Rows
    OBVIOUS
  <2> QED BY <1>2, <2>2, <2>3, <2>4, <2>5, <2>6, BeginInv
<1>5. CASE ~cutover
  <2>1. tasks = s
    BY <1>3, <1>5, ConcatEmptySeq
  <2>2. tasks \in Seq(Tasks) /\ \A k \in 1 .. Len(tasks) :
          tasks[k] \in S /\ (tasks[k] = "restore" => k = Len(tasks))
    <3>1. S \subseteq Tasks
      OBVIOUS
    <3> HIDE DEF S
    <3> QED BY <1>3, <2>1, <3>1, SeqMonotonic, ElementOfSeq
  <2> HIDE DEF tasks
  <2> QED BY <1>1, <1>2, <2>2, BeginInv
<1> QED BY <1>4, <1>5

(* A rollback begins with a cutover and promises what its directory holds. *)
LEMMA BeginRollbackInv ==
  ASSUME HostInv, NEW id \in Ids, NEW of \in Ids, NEW from \in {"staged", "aside"},
         Host!BeginRollback(id, from, of)
  PROVE  HostInv'
<1> DEFINE args == [id |-> id, from |-> from, of |-> of]
           source == IF from = "staged" THEN staged[of] ELSE aside[of]
<1>1. aside[id] = Host!Absent /\ Host!Begin("rollback", Host!Cutover, args, source.rows)
  BY DEF Host!BeginRollback
<1>2. source.rows \in SUBSET Rows
  BY DEF HostInv, HostTypes, Dirs
<1>3. args \in MoveArgs /\ args \in Args /\ args.id = id /\ args.from = from /\ args.of = of
  BY DEF MoveArgs, Args
<1>4. <<>> \in Seq(Tasks \ {"aside", "in", "wait"}) /\ Host!Cutover = <<>> \o Host!Cutover /\ Len(<<>>) = 0
  BY EmptySeq, ConcatEmptySeq DEF Host!Cutover, Tasks, Moves
<1>5. /\ Host!Cutover \in Seq(Tasks)
      /\ \A k \in 1 .. Len(Host!Cutover) :
            /\ Host!Cutover[k] = "aside" => k = Len(Host!Cutover) - 3
            /\ Host!Cutover[k] = "in" => k = Len(Host!Cutover) - 2 /\ k # 1 /\ Host!Cutover[k - 1] = "aside"
            /\ Host!Cutover[k] # "restore"
      /\ Host!Cutover[Len(Host!Cutover) - 2] = "in"
      /\ \E k \in 1 .. Len(Host!Cutover) : Host!Cutover[k] = "in"
  <2> DEFINE s == <<>>  tasks == s \o Host!Cutover
  <2>1. s \in Seq(Tasks \ {"aside", "in", "wait"}) /\ tasks = Host!Cutover /\ 1 .. Len(s) = {}
    BY <1>4
  <2> HIDE DEF s
  <2>2. /\ tasks \in Seq(Tasks)
        /\ \A k \in 1 .. Len(tasks) :
              /\ tasks[k] = "aside" => k = Len(tasks) - 3
              /\ tasks[k] = "in" => k = Len(tasks) - 2 /\ k # 1 /\ tasks[k - 1] = "aside"
              /\ tasks[k] = "restore" => k \in 1 .. Len(s) /\ k < Len(tasks) - 2
        /\ tasks[Len(tasks) - 2] = "in"
        /\ \E k \in 1 .. Len(tasks) : tasks[k] = "in"
    BY <2>1, CutoverList, Zenon
  <2> HIDE DEF tasks
  <2> QED BY <2>1, <2>2
<1> HIDE DEF args
<1>6. source.rows \subseteq (IF args.from = "staged" THEN staged[args.of] ELSE aside[args.of]).rows
  BY <1>3
<1> HIDE DEF source
<1>7. \A k \in 1 .. Len(Host!Cutover) :
        /\ Host!Cutover[k] \in Moves => args \in MoveArgs
        /\ Host!Cutover[k] = "aside" => /\ k = Len(Host!Cutover) - 3 /\ Host!Cutover[Len(Host!Cutover) - 2] = "in"
                                   /\ aside[args.id] = Host!Absent
  BY <1>1, <1>3, <1>5
<1>8. ~(\A k \in 1 .. Len(Host!Cutover) : Host!Cutover[k] # "in")
  BY <1>5
<1>9. \A k \in 1 .. Len(Host!Cutover) :
        /\ Host!Cutover[k] \in Moves => args \in MoveArgs
        /\ Host!Cutover[k] = "restore" => /\ args.from = "staged" /\ args.of = args.id
                                     /\ \/ k = Len(Host!Cutover)
                                        \/ k < Len(Host!Cutover) - 2 /\ Host!Cutover[Len(Host!Cutover) - 2] = "in"
        /\ Host!Cutover[k] = "aside" => /\ k = Len(Host!Cutover) - 3 /\ Host!Cutover[Len(Host!Cutover) - 2] = "in"
                                   /\ aside[args.id] = Host!Absent
        /\ Host!Cutover[k] = "in" => /\ k = Len(Host!Cutover) - 2 /\ k # 1 /\ Host!Cutover[k - 1] = "aside"
                                /\ source.rows \subseteq
                                     (IF args.from = "staged" THEN staged[args.of] ELSE aside[args.of]).rows
  BY <1>5, <1>6, <1>7
<1> DEFINE kept == source.rows
<1>10. kept \in SUBSET Rows /\ Host!Begin("rollback", Host!Cutover, args, kept)
  BY <1>1, <1>2
<1> HIDE DEF kept
<1> QED BY <1>3, <1>5, <1>8, <1>9, <1>10, BeginInv DEF kept

-----------------------------------------------------------------------------
(* Tasks that move no directory.                                           *)
LEMMA RowsOf ==
  HostTypes => /\ directory \in Dirs /\ directory.rows \in SUBSET Rows
               /\ \A i \in Ids : /\ staged[i] \in Dirs /\ aside[i] \in Dirs /\ dump[i] \in Dirs
                                 /\ staged[i].rows \in SUBSET Rows
  BY DEF HostTypes, Dirs

(* The directories that tasks make are of the type, and only a cluster has *)
(* rows.                                                                   *)
LEMMA NewDirs ==
  /\ Host!Absent \in Dirs /\ Host!Empty \in Dirs /\ Host!Fresh \in Dirs /\ Host!Partial \in Dirs
  /\ Host!Absent.rows = {} /\ Host!Empty.rows = {} /\ Host!Fresh.rows = {}
  /\ \A major \in Host!Majors, rows \in SUBSET Rows, password \in DirPasswords :
        /\ Host!Cluster(major, rows, password) \in Dirs
        /\ Host!Cluster(major, rows, password).rows = rows
  BY DEF Host!Absent, Host!Empty, Host!Fresh, Host!Partial, Host!Cluster, Host!Directory, Dirs, DirKinds, Host!Majors, Host!Release, DirPasswords

(* The tasks of a deployment leave the directories alone.                  *)
LEMMA DeploymentInv ==
  HostInv /\ (Host!CheckMajor \/ Host!PrepareRepo \/ Host!Down \/ Host!DeployRepo \/ Host!WriteEnv \/ Host!Wait) => HostInv'
<1> SUFFICES ASSUME HostInv, Host!CheckMajor \/ Host!PrepareRepo \/ Host!Down \/ Host!DeployRepo \/ Host!WriteEnv \/ Host!Wait
             PROVE  HostInv'
  OBVIOUS
<1>1. /\ play.todo # <<>> /\ Head(play.todo) \notin {"aside", "in"} /\ Host!Passed(play)
      /\ UNCHANGED <<directory, staged, aside, dump, rotations, written>>
  BY DEF Host!CheckMajor, Host!PrepareRepo, Host!Down, Host!DeployRepo, Host!WriteEnv, Host!Wait, Host!At, Host!disk, Host!compose, Host!counters
<1>2. repo' \in {repo, Host!Release} /\ dotenv' \in {dotenv, 0}
  BY DEF Host!CheckMajor, Host!PrepareRepo, Host!Down, Host!DeployRepo, Host!WriteEnv, Host!Wait, Host!compose
<1>3. repo' \in Host!Majors /\ dotenv' \in Nat
  BY <1>2 DEF HostInv, HostTypes, Host!Release, Host!Majors
<1> QED BY <1>1, <1>3, QuietTask DEF HostInv, HostTypes

(* Starting the services makes a cluster only where there was none.        *)
LEMMA UpInv == HostInv /\ Host!Up => HostInv'
<1> SUFFICES ASSUME HostInv, Host!Up PROVE HostInv'
  OBVIOUS
<1>1. /\ play.todo # <<>> /\ Head(play.todo) \notin {"aside", "in"} /\ Host!Passed(play)
      /\ UNCHANGED <<staged, aside, dump, repo, dotenv, rotations, written>>
  BY DEF Host!Up, Host!At, Host!counters
<1>2. directory' = directory \/ (directory \in {Host!Empty, Host!Absent} /\ directory' = Host!Cluster(repo, {}, dotenv))
  BY DEF Host!Up
<1>3. directory' \in Dirs /\ directory.rows \subseteq directory'.rows
  BY <1>2, NewDirs, RowsOf DEF HostInv, HostTypes, DirPasswords
<1> QED BY <1>1, <1>3, QuietTask DEF HostInv, HostTypes

(* One of the directories of a run changes.                                *)
LEMMA PutDir ==
  ASSUME NEW f \in [Ids -> Dirs], NEW id \in Ids, NEW d \in Dirs, f[id].rows \subseteq d.rows
  PROVE  /\ [f EXCEPT ![id] = d] \in [Ids -> Dirs]
         /\ \A i \in Ids : f[i].rows \subseteq [f EXCEPT ![id] = d][i].rows
  OBVIOUS

(* A task on directories finds the arguments that it needs.                *)
LEMMA MoveTask ==
  HostInv /\ play.todo # <<>> /\ Head(play.todo) \in Moves
    => play.args \in MoveArgs /\ play.args.id \in Ids /\ play.args.of \in Ids
<1> SUFFICES ASSUME HostInv, play.todo # <<>>, Head(play.todo) \in Moves
             PROVE  play.args \in MoveArgs
  BY DEF MoveArgs
<1>1. 1 \in 1 .. Len(play.todo) /\ Head(play.todo) = play.todo[1]
  BY ListTail DEF HostInv, HostTypes
<1> QED BY <1>1 DEF HostInv, TasksInOrder

(* The staged directory is made, and set up, before it has rows.           *)
LEMMA StagingInv == HostInv /\ (Host!SourceRunning \/ Host!StartStaging) => HostInv'
<1> SUFFICES ASSUME HostInv, Host!SourceRunning \/ Host!StartStaging PROVE HostInv'
  OBVIOUS
<1> DEFINE id == play.args.id
<1>1. /\ play.todo # <<>> /\ Head(play.todo) \notin {"aside", "in"} /\ Host!Passed(play)
      /\ Head(play.todo) \in Moves
      /\ UNCHANGED <<directory, aside, dump, repo, dotenv, rotations, written>>
  BY DEF Host!SourceRunning, Host!StartStaging, Host!At, Moves, Host!compose, Host!counters
<1>2. id \in Ids /\ staged \in [Ids -> Dirs]
  BY <1>1, MoveTask DEF HostInv, HostTypes
<1>3. \/ staged' = [staged EXCEPT ![id] = staged[id]]
      \/ staged[id] = Host!Absent /\ staged' = [staged EXCEPT ![id] = Host!Empty]
      \/ staged[id] = Host!Empty /\ staged' = [staged EXCEPT ![id] = Host!Fresh]
  BY <1>2 DEF Host!SourceRunning, Host!StartStaging
<1>4. staged' \in [Ids -> Dirs] /\ \A i \in Ids : staged[i].rows \subseteq staged'[i].rows
  <2>1. staged[id] \in Dirs /\ staged[id].rows \subseteq staged[id].rows
    BY <1>2
  <2> HIDE DEF id
  <2> QED BY <1>2, <1>3, <2>1, PutDir, NewDirs
<1> QED BY <1>1, <1>4, QuietTask DEF HostInv, HostTypes

(* Dumping writes to the directory of the dump only.                       *)
LEMMA DumpInv == HostInv /\ (Host!DumpGlobals \/ Host!DumpDatabase) => HostInv'
<1> SUFFICES ASSUME HostInv, Host!DumpGlobals \/ Host!DumpDatabase PROVE HostInv'
  OBVIOUS
<1> DEFINE id == play.args.id
<1>1. /\ play.todo # <<>> /\ Head(play.todo) \notin {"aside", "in"} /\ (Host!Passed(play) \/ Host!Stopped)
      /\ Head(play.todo) \in Moves
      /\ UNCHANGED <<directory, staged, aside, repo, dotenv, rotations, written>>
  BY DEF Host!DumpGlobals, Host!DumpDatabase, Host!At, Moves, Host!compose, Host!counters
<1>2. id \in Ids /\ dump \in [Ids -> Dirs] /\ dump[id] \in Dirs /\ directory \in Dirs
  BY <1>1, MoveTask DEF HostInv, HostTypes
<1>3. dump' \in [Ids -> Dirs]
  <2>1. directory.password \in DirPasswords /\ Host!NoPassword \in DirPasswords /\ directory.rows \in SUBSET Rows
    BY <1>2 DEF Dirs, DirPasswords
  <2>2. CASE Host!DumpGlobals
    <3>1. \E w \in DirPasswords : dump' = [dump EXCEPT ![id].password = w]
      BY <2>1, <2>2 DEF Host!DumpGlobals
    <3> QED BY <1>2, <3>1 DEF Dirs
  <2>3. CASE Host!DumpDatabase
    <3>1. \E is \in DirKinds : dump' = [dump EXCEPT ![id].is = is, ![id].rows = directory.rows]
      BY <2>3 DEF Host!DumpDatabase, DirKinds
    <3> QED BY <1>2, <2>1, <3>1 DEF Dirs
  <2> QED BY <2>2, <2>3
<1> QED BY <1>1, <1>3, QuietTask, StoppedTask DEF HostInv, HostTypes

(* A restore puts the rows of the dump into a directory that had none, and *)
(* promises them.                                                          *)
LEMMA RestoreInv == HostInv /\ Host!Restore => HostInv'
<1> SUFFICES ASSUME HostInv, Host!Restore PROVE HostInv'
  OBVIOUS
<1> DEFINE id == play.args.id
<1>1. /\ play.todo # <<>> /\ Head(play.todo) = "restore" /\ Head(play.todo) \in Moves
      /\ UNCHANGED <<directory, aside, dump, repo, dotenv, rotations, written>> /\ staged[id] = Host!Fresh
  BY DEF Host!Restore, Host!At, Moves, Host!compose, Host!counters
<1>2. /\ id \in Ids /\ staged \in [Ids -> Dirs] /\ staged[id].rows = {}
      /\ dump[id] \in Dirs /\ dump[id].rows \in SUBSET Rows /\ dump[id].password \in DirPasswords
  BY <1>1, MoveTask, NewDirs DEF HostInv, HostTypes, Dirs
<1>3. CASE staged' = [staged EXCEPT ![id] = Host!Partial] /\ Host!Stopped
  <2>1. staged[id].rows \subseteq Host!Partial.rows /\ Host!Partial \in Dirs
    BY <1>2, NewDirs
  <2> HIDE DEF id
  <2>2. staged' \in [Ids -> Dirs] /\ \A i \in Ids : staged[i].rows \subseteq staged'[i].rows
    BY <1>2, <1>3, <2>1, PutDir
  <2> QED BY <1>1, <1>3, <2>2, StoppedTask DEF HostInv, HostTypes
<1>4. CASE /\ staged' = [staged EXCEPT ![id] = Host!Cluster(Host!Release, dump[id].rows, dump[id].password)]
           /\ Host!Passed([play EXCEPT !.promised = dump[id].rows])
  <2> DEFINE new == Host!Cluster(Host!Release, dump[id].rows, dump[id].password)
             p == [play EXCEPT !.promised = dump[id].rows]
  <2>1. new \in Dirs /\ new.rows = dump[id].rows
    BY <1>2, NewDirs DEF Host!Release, Host!Majors
  <2>2. /\ p \in PlayType /\ p.todo = play.todo /\ p.outcome = play.outcome /\ p.args = play.args
        /\ p.promised = dump[id].rows /\ play.outcome = "none"
    BY <1>1, <1>2 DEF HostInv, HostTypes, PlayType, TasksInOrder
  <2>3. staged' = [staged EXCEPT ![id] = new] /\ Host!Passed(p)
    BY <1>4
  <2> HIDE DEF new, p
  <2>4. /\ play' \in PlayType /\ play'.todo = Tail(play.todo) /\ play'.args = play.args
        /\ play'.promised = dump[id].rows /\ (play'.todo # <<>> => play'.outcome = "none")
    BY <1>1, <2>2, <2>3, PassedType
  <2>5. /\ staged' \in [Ids -> Dirs] /\ staged'[id] = new
        /\ \A i \in Ids : staged[i].rows \subseteq staged'[i].rows
    <3> HIDE DEF id
    <3> QED BY <1>2, <2>1, <2>3, PutDir
  <2>6. HostTypes'
    BY <1>1, <2>4, <2>5 DEF HostInv, HostTypes, PlayType
  <2>7. TasksInOrder'
    BY <1>1, <2>4, OrderStep DEF HostInv
  <2>8. PromiseKept'
    <3>1. play.args.from = "staged" /\ play.args.of = id
      <4>1. 1 \in 1 .. Len(play.todo) /\ play.todo[1] = "restore"
        BY <1>1, ListTail DEF HostInv, HostTypes
      <4> QED BY <4>1 DEF HostInv, TasksInOrder
    <3>2. play'.promised \subseteq Source'.rows
      BY <2>1, <2>4, <2>5, <3>1 DEF Source
    <3>3. play'.todo # <<>> => CutsOver'
      <4> DEFINE t == play.todo  u == play'.todo
      <4>1. /\ Len(t) \in Nat \ {0} /\ Len(u) = Len(t) - 1 /\ t[1] = "restore"
            /\ \A k \in 1 .. Len(u) : u[k] = t[k + 1]
            /\ u # <<>> => Len(t) # 1
        BY <1>1, <2>4, ListTail DEF HostInv, HostTypes
      <4>2. Len(t) # 1 => 1 < Len(t) - 2 /\ t[Len(t) - 2] = "in"
        <5>1. 1 \in 1 .. Len(t)
          BY <4>1
        <5> QED BY <4>1, <5>1 DEF HostInv, TasksInOrder
      <4>3. ASSUME Len(t) # 1 PROVE Len(u) - 2 \in 1 .. Len(u) /\ u[Len(u) - 2] = "in"
        <5>1. Len(u) - 2 \in 1 .. Len(u) /\ (Len(u) - 2) + 1 = Len(t) - 2
          BY <4>1, <4>2, <4>3
        <5> QED BY <4>1, <4>2, <4>3, <5>1
      <4> QED BY <4>1, <4>3 DEF CutsOver
    <3> QED BY <3>2, <3>3 DEF PromiseKept
  <2>9. Host!NothingLost'
    BY <1>1, <2>5, KeptStep DEF HostInv
  <2> QED BY <2>6, <2>7, <2>8, <2>9 DEF HostInv
<1> QED BY <1>1, <1>3, <1>4 DEF Host!Restore

-----------------------------------------------------------------------------
(* The data directory is moved aside, under a name that is free.           *)
LEMMA MoveAsideInv == HostInv /\ Host!MoveAside => HostInv'
<1> SUFFICES ASSUME HostInv, Host!MoveAside PROVE HostInv'
  OBVIOUS
<1> DEFINE id == play.args.id
<1>1. /\ play.todo # <<>> /\ Head(play.todo) = "aside" /\ Head(play.todo) \in Moves
      /\ Head(play.todo) # "in" /\ Host!Passed(play)
      /\ UNCHANGED <<staged, dump, repo, dotenv, rotations, written>>
      /\ aside' = [aside EXCEPT ![id] = directory] /\ directory' = Host!Absent
  BY DEF Host!MoveAside, Host!At, Moves, Host!compose, Host!counters
<1>2. id \in Ids /\ aside \in [Ids -> Dirs] /\ directory \in Dirs
  BY <1>1, MoveTask DEF HostInv, HostTypes
<1>3. aside[id] = Host!Absent /\ CutsOver
  <2>1. /\ Len(play.todo) \in Nat \ {0} /\ 1 \in 1 .. Len(play.todo) /\ play.todo[1] = "aside"
    BY <1>1, ListTail DEF HostInv, HostTypes
  <2>2. aside[id] = Host!Absent /\ 1 = Len(play.todo) - 3 /\ play.todo[Len(play.todo) - 2] = "in"
    BY <2>1 DEF HostInv, TasksInOrder
  <2>3. Len(play.todo) - 2 \in 1 .. Len(play.todo)
    <3>1. Len(play.todo) \in Nat /\ 1 = Len(play.todo) - 3
      BY <2>1, <2>2
    <3>2. \A n \in Nat : 1 = n - 3 => n - 2 \in 1 .. n
      OBVIOUS
    <3> QED BY <3>1, <3>2, Zenon
  <2> QED BY <2>2, <2>3 DEF CutsOver
<1>4. /\ play' \in PlayType
      /\ play'.todo = Tail(play.todo) /\ play'.args = play.args /\ play'.promised = play.promised
      /\ play'.todo # <<>> => play'.outcome = "none"
  BY <1>1, PassedType DEF HostInv, HostTypes, TasksInOrder, PlayType
<1>5. /\ aside' \in [Ids -> Dirs] /\ aside'[id] = directory
      /\ \A i \in Ids : aside[i].rows \subseteq aside'[i].rows
  <2>1. aside[id].rows \subseteq directory.rows
    BY <1>3, NewDirs
  <2> HIDE DEF id
  <2> QED BY <1>1, <1>2, <2>1, PutDir
<1>6. HostTypes'
  BY <1>1, <1>4, <1>5, NewDirs DEF HostInv, HostTypes, PlayType
<1>7. TasksInOrder'
  BY <1>1, <1>4, OrderStep DEF HostInv
<1>8. PromiseKept'
  BY <1>1, <1>3, <1>4, <1>5, PromiseStep DEF HostInv
<1>9. Host!NothingLost'
  <2>1. directory.rows \subseteq UNION {staged'[i].rows \cup aside'[i].rows : i \in Ids}
    BY <1>2, <1>5
  <2>2. UNION {staged[i].rows \cup aside[i].rows : i \in Ids}
          \subseteq UNION {staged'[i].rows \cup aside'[i].rows : i \in Ids}
    BY <1>1, <1>5
  <2> QED BY <1>1, <2>1, <2>2 DEF HostInv, Host!NothingLost, Host!Kept
<1> QED BY <1>6, <1>7, <1>8, <1>9 DEF HostInv

(* The directory that was asked for takes the place that is free.          *)
LEMMA MoveInInv == HostInv /\ Host!MoveIn => HostInv'
<1> SUFFICES ASSUME HostInv, Host!MoveIn PROVE HostInv'
  OBVIOUS
<1> DEFINE id == play.args.id  of == play.args.of
<1>1. /\ play.todo # <<>> /\ Head(play.todo) = "in" /\ Head(play.todo) \in Moves
      /\ Host!Passed(play) /\ UNCHANGED <<dump, repo, dotenv, rotations, written>>
  BY DEF Host!MoveIn, Host!At, Moves, Host!compose, Host!counters
<1>2. /\ id \in Ids /\ of \in Ids /\ aside \in [Ids -> Dirs] /\ staged \in [Ids -> Dirs]
      /\ play.args.from \in {"staged", "aside"}
  BY <1>1, MoveTask DEF HostInv, HostTypes, MoveArgs
<1>3. /\ Len(play.todo) = 3 /\ 1 \in 1 .. Len(play.todo) /\ play.todo[1] = "in" /\ directory = Host!Absent
      /\ \A k \in 1 .. Len(play.todo) - 1 : Tail(play.todo)[k] = play.todo[k + 1]
      /\ Len(Tail(play.todo)) = 2
  <2>1. /\ Len(play.todo) \in Nat \ {0} /\ 1 \in 1 .. Len(play.todo) /\ play.todo[1] = "in"
        /\ \A k \in 1 .. Len(play.todo) - 1 : Tail(play.todo)[k] = play.todo[k + 1]
        /\ Len(Tail(play.todo)) = Len(play.todo) - 1
    BY <1>1, ListTail DEF HostInv, HostTypes
  <2>2. 1 = Len(play.todo) - 2 /\ directory = Host!Absent
    BY <2>1 DEF HostInv, TasksInOrder
  <2> QED BY <2>1, <2>2
<1>4. /\ play' \in PlayType
      /\ play'.todo = Tail(play.todo) /\ play'.args = play.args /\ play'.promised = play.promised
      /\ play'.todo # <<>> => play'.outcome = "none"
  BY <1>1, PassedType DEF HostInv, HostTypes, TasksInOrder, PlayType
<1>5. /\ directory' = Source /\ directory' \in Dirs /\ aside' \in [Ids -> Dirs] /\ staged' \in [Ids -> Dirs]
      /\ aside[id] = Host!Absent => aside'[id] = Host!Absent
      /\ \A i \in Ids : staged[i].rows \cup aside[i].rows
                         \subseteq staged'[i].rows \cup aside'[i].rows \cup directory'.rows
  <2>1. CASE /\ play.args.from = "staged" /\ directory' = staged[of]
             /\ staged' = [staged EXCEPT ![of] = Host!Absent] /\ UNCHANGED aside
    BY <1>2, <2>1, NewDirs DEF Source
  <2>2. CASE /\ play.args.from = "aside" /\ directory' = aside[of]
             /\ aside' = [aside EXCEPT ![of] = Host!Absent] /\ UNCHANGED staged
    BY <1>2, <2>2, NewDirs DEF Source
  <2> QED BY <2>1, <2>2 DEF Host!MoveIn
<1>6. HostTypes'
  BY <1>1, <1>4, <1>5 DEF HostInv, HostTypes, PlayType
<1>7. TasksInOrder'
  BY <1>1, <1>4, <1>5, OrderStep DEF HostInv
<1>8. PromiseKept'
  <2>1. CutsOver
    BY <1>3 DEF CutsOver
  <2>2. play'.promised \subseteq directory'.rows
    BY <1>4, <1>5, <2>1 DEF HostInv, PromiseKept
  <2>3. ~CutsOver'
    <3>1. ASSUME NEW k \in 1 .. Len(Tail(play.todo)), Tail(play.todo)[k] = "in" PROVE FALSE
      <4>1. k + 1 \in 1 .. Len(play.todo) /\ play.todo[k + 1] = "in"
        BY <1>3, <3>1
      <4>2. k + 1 = Len(play.todo) - 2
        BY <4>1 DEF HostInv, TasksInOrder
      <4> QED BY <1>3, <4>2
    <3> QED BY <1>4, <3>1 DEF CutsOver
  <2> QED BY <2>2, <2>3 DEF PromiseKept
<1>9. Host!NothingLost'
  <2>1. UNION {staged[i].rows \cup aside[i].rows : i \in Ids}
          \subseteq directory'.rows \cup UNION {staged'[i].rows \cup aside'[i].rows : i \in Ids}
    BY <1>5
  <2> QED BY <1>1, <1>3, <2>1, NewDirs DEF HostInv, Host!NothingLost, Host!Kept
<1> QED BY <1>6, <1>7, <1>8, <1>9 DEF HostInv

-----------------------------------------------------------------------------
(* Every step of the playbooks, and beside them, keeps the invariant.      *)
LEMMA HostStep == HostInv /\ [Host!Next]_(Host!vars) => HostInv'
<1> SUFFICES ASSUME HostInv, [Host!Next]_(Host!vars) PROVE HostInv'
  OBVIOUS
<1>1. CASE UNCHANGED Host!vars
  BY <1>1, BesidePlay DEF Host!vars, HostInv, HostTypes
<1>2. CASE Host!TaskFails
  BY <1>2, StoppedTask DEF Host!TaskFails, Host!disk, Host!compose, Host!counters, HostInv, HostTypes
<1> QED
  BY <1>1, <1>2, WriteInv, RotateInv, OperatorInv, BeginDeployInv, BeginMigrateInv, BeginRollbackInv,
     DeploymentInv, UpInv, StagingInv, DumpInv, RestoreInv, MoveAsideInv, MoveInInv
  DEF Host!Next

(* Only the last task of a list that is done makes a success.              *)
LEMMA ServesStep == HostInv /\ [Host!Next]_(Host!vars) => Host!EndsServing
<1> SUFFICES ASSUME HostInv, [Host!Next]_(Host!vars), play.todo = <<"wait">>, play'.outcome = "success"
             PROVE  Host!Ready' /\ play.promised \subseteq directory'.rows
  BY DEF Host!EndsServing
<1>1. /\ Len(play.todo) = 1 /\ play.todo # <<>> /\ play.todo[1] = "wait" /\ Head(play.todo) = "wait"
  OBVIOUS
<1>2. play.outcome = "none"
  BY <1>1 DEF HostInv, TasksInOrder
<1>3. play' # play
  BY <1>2
<1>4. Host!Wait
  <2>1. ~Host!TaskFails
    <3>1. Host!TaskFails => play'.outcome = "failed"
      BY DEF Host!TaskFails, Host!Stopped, HostInv, HostTypes
    <3> QED BY <3>1
  <2>2. ~(Host!Write \/ Host!Rotate \/ Host!Tidy \/ Host!CheckOut)
    BY <1>3 DEF Host!Write, Host!Rotate, Host!Tidy, Host!CheckOut
  <2>3. \A name, tasks, args, promised : ~Host!Begin(name, tasks, args, promised)
    BY <1>1 DEF Host!Begin
  <2> QED BY <1>1, <1>3, <2>1, <2>2, <2>3
          DEF Host!Next, Host!At, Host!CheckMajor, Host!PrepareRepo, Host!Down, Host!DeployRepo, Host!WriteEnv, Host!Up, Host!SourceRunning,
              Host!DumpGlobals, Host!DumpDatabase, Host!StartStaging, Host!Restore, Host!MoveAside, Host!MoveIn, Host!vars,
              Host!BeginInstall, Host!BeginUpdate, Host!BeginMigrate, Host!BeginRollback
<1>5. UNCHANGED <<directory, stack>> /\ Host!Ready
  BY <1>4 DEF Host!Wait, Host!disk, Host!compose
<1>6. ~CutsOver
  BY <1>1 DEF CutsOver
<1>7. play.promised \subseteq directory.rows
  BY <1>1, <1>6 DEF HostInv, PromiseKept
<1> QED BY <1>5, <1>7 DEF Host!Ready

(* Whatever playbooks run, in whatever order, and wherever they fail: the  *)
(* rows that are promised, and all that were committed, are where they     *)
(* have to be.                                                             *)
THEOREM HostInvariant == Host!Spec => []HostInv
  BY InitHost, HostStep, PTL DEF Host!Spec

(* The runs check the playbooks of a host beside rotations in detail,      *)
(* where repo stays "none".                                                *)
MCInv == repo = "none" \/ HostInv

LEMMA MCInvariant == MCSpec => []MCInv
<1>1. MCInit => MCInv
  BY InitHost DEF MCInit, MCInv
<1>2. MCInv /\ [MCNext]_<<vars, host>> => MCInv'
  <2> SUFFICES ASSUME MCInv, [MCNext]_<<vars, host>> PROVE MCInv'
    OBVIOUS
  <2>1. CASE UNCHANGED host
    <3>1. UNCHANGED Host!vars /\ UNCHANGED repo
      BY <2>1 DEF host, Host!vars
    <3> QED BY <3>1, HostStep DEF MCInv
  <2>2. CASE repo # "none" /\ Host!Next
    BY <2>2, HostStep DEF MCInv
  <2> QED BY <2>1, <2>2 DEF MCNext
<1> QED BY <1>1, <1>2, PTL DEF MCSpec

(* Whatever was committed in a database that was live is still in a data   *)
(* directory: for every number of runs of playbooks, of their ids, of rows *)
(* and of rotations.                                                       *)
THEOREM CommittedKept == MCSpec => []NothingLost
<1>1. MCInv => NothingLost
  BY DEF MCInv, NothingLost, HostInv
<1> QED BY <1>1, MCInvariant, PTL

(* A deployment, cutover or rollback that reports success has left a       *)
(* server that answers with the rows it promised.                          *)
THEOREM PlaybooksServe == MCSpec => SuccessServes
<1>1. MCInv /\ [MCNext]_<<vars, host>> => [repo # "none" => Host!EndsServing]_host
  <2> SUFFICES ASSUME MCInv, [MCNext]_<<vars, host>>, ~UNCHANGED host, repo # "none"
               PROVE  Host!EndsServing
    OBVIOUS
  <2>1. Host!Next /\ HostInv
    BY DEF MCNext, MCInv, host, vars
  <2> QED BY <2>1, ServesStep
<1> QED BY <1>1, MCInvariant, PTL DEF MCSpec, SuccessServes

=============================================================================
