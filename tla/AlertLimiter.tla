---------------------------- MODULE AlertLimiter ----------------------------
(***************************************************************************)
(* The cooldown of alert mails: RateLimitedSMTPHandler, which the threads  *)
(* of the scheduler and of the admin service share through one file, and   *)
(* the same cooldown of the mails of playbooks, where every ansible is a   *)
(* process with one thread and without a lock.  Instants are the hours of  *)
(* a clock.  A logger keeps the handler it has: a changed limit counts     *)
(* from the next start of the process.  A limit of 0, which turns the      *)
(* cooldown off, is left out.                                              *)
(***************************************************************************)
EXTENDS Naturals, FiniteSets

CONSTANTS Threads, Procs, None, Keys,  \* a key is a crawler, or a subject
          Limits,      \* the values of rate_limit_seconds, all positive
          LastHour     \* a bound on the clock

Never   == LastHour + 1
NoState == [k \in Keys |-> Never]

VARIABLES
  home,     \* the process of a thread, which does not change
  now,
  state,    \* email_alert_state.json: last_sent of a key
  writer,   \* the process that has written it last
  limit,    \* the limit of the handlers of a process
  lock,     \* the threads that hold the _state_lock of their process
  alert,    \* what a thread does: step, key, stamp, and the state it has read
  mails,    \* the latest stamp of the mails of a key that went to the server
  cut,      \* the keys of which a mail was recorded, but its process died
  forgot    \* the keys whose entry in the file was lost

vars == <<home, now, state, writer, limit, lock, alert, mails, cut, forgot>>
told == <<mails, cut, forgot>>

Idle == [step |-> "idle"]

Init ==
  /\ home \in [Threads -> Procs] /\ now = 0
  /\ state = NoState
  /\ writer = None
  /\ limit \in [Procs -> Limits]
  /\ lock = {}
  /\ alert = [t \in Threads |-> Idle]
  /\ mails = NoState
  /\ cut = {} /\ forgot = {}

At(t, step) == alert[t].step = step

Goto(t, next) == alert' = [alert EXCEPT ![t] = next]

Tick ==
  /\ now < LastHour /\ now' = now + 1
  /\ UNCHANGED <<home, state, writer, limit, lock, alert, told>>

(* A critical message.  A handler is used by one thread at a time, and the *)
(* clock is read before the lock is taken.                                 *)
Emit(t, k) ==
  /\ alert[t].step \in {"idle", "limited"}
  /\ \A u \in Threads :
       home[u] = home[t] /\ alert[u].step \in {"judge", "write", "send"} => alert[u].key # k
  /\ Goto(t, [step |-> "judge", key |-> k, stamp |-> now])
  /\ UNCHANGED <<home, now, state, writer, limit, lock, told>>

Free(t) == \A u \in lock : home[u] # home[t]

(* now - last_sent < rate_limit_seconds, also when last_sent is later.     *)
Limited(t, read) ==
  LET last == read[alert[t].key]
  IN  last # Never /\ alert[t].stamp < last + limit[home[t]]

(* _read_state: a file that cannot be read counts as an empty one.  What   *)
(* it holds is lost when the new entry is written.                         *)
Judge(t, read) ==
  \/ /\ Limited(t, read) /\ Goto(t, [step |-> "limited"])
     /\ UNCHANGED <<lock, forgot>>
  \/ /\ ~Limited(t, read) /\ lock' = lock \cup {t}
     /\ Goto(t, [step |-> "write", key |-> alert[t].key, stamp |-> alert[t].stamp, read |-> read])
     /\ forgot' = forgot \cup {k \in Keys : read[k] # state[k]}

Judges(t) ==
  /\ At(t, "judge")
  /\ \E read \in {state, NoState} : Judge(t, read)
  /\ UNCHANGED <<home, now, state, writer, limit, mails, cut>>

(* Mutant: a limiter without its lock.                                     *)
IsRateLimitedUnlocked(t) == Judges(t)

IsRateLimited(t) == Free(t) /\ Judges(t)

(* The file is replaced by what was read, with the new entry: what another *)
(* process has written meanwhile is lost.                                  *)
WriteState(t) ==
  /\ At(t, "write")
  /\ state' = [alert[t].read EXCEPT ![alert[t].key] = alert[t].stamp]
  /\ forgot' = forgot \cup {k \in Keys : alert[t].read[k] # state[k] /\ writer # home[t]}
  /\ writer' = home[t]
  /\ lock' = lock \ {t}
  /\ Goto(t, [step |-> "send", key |-> alert[t].key, stamp |-> alert[t].stamp])
  /\ UNCHANGED <<home, now, limit, mails, cut>>

(* An OSError: a crawler gets it from its call of the logger, a playbook   *)
(* sends a mail that nothing records.                                      *)
WriteFails(t) ==
  /\ At(t, "write") /\ lock' = lock \ {t} /\ Goto(t, Idle)
  /\ UNCHANGED <<home, now, state, writer, limit, told>>

(* Whether the server takes the mail or not: an error is swallowed.        *)
EmitSmtp(t) ==
  /\ At(t, "send") /\ Goto(t, Idle)
  /\ mails' = [mails EXCEPT ![alert[t].key] =
                 IF @ = Never \/ @ < alert[t].stamp THEN alert[t].stamp ELSE @]
  /\ UNCHANGED <<home, now, state, writer, limit, lock, cut, forgot>>

Kill(p) ==
  LET own == {t \in Threads : home[t] = p}
  IN  /\ \E t \in own : alert[t].step # "idle"
      /\ alert' = [t \in Threads |-> IF t \in own THEN Idle ELSE alert[t]]
      /\ lock' = lock \ own
      /\ \E seconds \in Limits : limit' = [limit EXCEPT ![p] = seconds]
      /\ cut' = cut \cup {alert[t].key : t \in {u \in own : At(u, "send")}}
      /\ UNCHANGED <<home, now, state, writer, mails, forgot>>

Next ==
  \/ Tick
  \/ \E p \in Procs : Kill(p)
  \/ \E t \in Threads :
       \/ \E k \in Keys : Emit(t, k)
       \/ IsRateLimited(t) \/ WriteState(t) \/ WriteFails(t) \/ EmitSmtp(t)

Spec == Init /\ [][Next]_vars

-----------------------------------------------------------------------------
(* The stamps of the mails of a key: the latest, and those on their way.   *)
Mails(k) ==
  ({mails[k]} \ {Never})
    \cup {alert[t].stamp : t \in {u \in Threads : At(u, "send") /\ alert[u].key = k}}

Recent(t) ==
  \E stamp \in Mails(alert[t].key) : alert[t].stamp < stamp + limit[home[t]]

(* docs/source/crawler_config.md: one message per crawler and subject per  *)
(* hour.  An alert is mailed when no mail of its key is younger than the   *)
(* limit of its handler, and silenced only when there is such a mail.      *)
(* Excepted are keys whose entry was lost, because another process wrote   *)
(* the file or it could not be read, keys whose mail was recorded by a     *)
(* process that died, and mails that cannot be recorded.                   *)
LimitsAlone ==
  \A t \in Threads :
    /\ At(t, "write") /\ alert'[t].step = "send" => ~Recent(t) \/ alert[t].key \in forgot'
    /\ At(t, "judge") /\ alert'[t].step = "limited" => Recent(t) \/ alert[t].key \in cut \cup forgot

=============================================================================
