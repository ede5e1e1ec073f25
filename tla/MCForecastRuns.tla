--------------------------- MODULE MCForecastRuns ---------------------------
(* Small instances of ForecastRuns and of AlertLimiter, side by side: a    *)
(* behaviour is forecasts, where now stays -1, or alerts, while no         *)
(* forecast starts.  Two days of two rows are trained on, and the sources  *)
(* hold a long history, a short one or none.  Alerts of two keys come from *)
(* two threads, of one process or of two.                                  *)
EXTENDS ForecastRuns, TLC

CONSTANTS p1, p2,                           \* processes, for both models
          Threads, Keys, Limits, LastHour, None  \* of AlertLimiter

ASSUME AlertsAssumption == Limits \subseteq Nat \ {0} /\ LastHour \in Nat

SmallReadings ==
  {[fms |-> [price |-> f], api |-> [price |-> a, exaa |-> a]] :
     f \in {{}, -6 .. -1}, a \in {{}, {-1, 0}, -6 .. 1}}
SmallTargets == p1 :> {1} @@ p2 :> {1, 2}
KeySymmetry == Permutations(Keys)

VARIABLES home, now, state, writer, limit, lock, alert, mails, cut, forgot

mailing == <<home, now, state, writer, limit, lock, alert, mails, cut, forgot>>

Alerts == INSTANCE AlertLimiter

MCInit ==
  /\ Init
  /\ \/ /\ now = -1 /\ home = 0 /\ state = 0 /\ writer = 0 /\ limit = 0 /\ lock = 0
        /\ alert = 0 /\ mails = 0 /\ cut = 0 /\ forgot = 0
     \/ /\ \A p, q \in Procs : proc[p].target = proc[q].target
        /\ Alerts!Init /\ home[CHOOSE t \in Threads : TRUE] = p1

MCNext ==
  \/ now < 0 /\ Next /\ UNCHANGED mailing
  \/ now >= 0 /\ Alerts!Next /\ UNCHANGED vars

MCSpec == MCInit /\ [][MCNext]_<<vars, mailing>>

(* LimitsAlone of AlertLimiter, where alerts are sent: an alert is held    *)
(* back only by a recent mail of its crawler and subject, and only that    *)
(* holds it back.                                                          *)
AlertsLimited == [][now >= 0 => Alerts!LimitsAlone]_<<vars, mailing>>

=============================================================================
