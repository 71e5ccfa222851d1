---------------------------- MODULE TimerService ----------------------------
(***************************************************************************)
(* What the software timers promise: a timer that was asked for expires,   *)
(* never before its period is over, the one that is due first before the   *)
(* others, and a periodic one is due again one period after it was due,    *)
(* not after its callback ran.  Time is not wrapped here, and there is     *)
(* neither list nor interrupt.                                             *)
(***************************************************************************)
EXTENDS Integers

CONSTANTS Timer, Period

VARIABLES state,   \* off, asked (its start is under way), armed, expired (its
                   \* callback runs) or restarted (by the callback itself)
          left,    \* ticks until the timer is due; negative when late
          period

timerVars == <<state, left, period>>

ServiceInit == /\ state = [t \in Timer |-> "off"]
               /\ left = [t \in Timer |-> 0]
               /\ period \in [Timer -> Period]

Goes(t, from, to) == state[t] \in from /\ state' = [state EXCEPT ![t] = to]

Ask(t, p, from, to) == /\ Goes(t, from, to)
                       /\ left' = [left EXCEPT ![t] = p]
                       /\ period' = [period EXCEPT ![t] = p]

Arm(t) == Goes(t, {"asked", "restarted"}, "armed") /\ UNCHANGED <<left, period>>

Fire(t) == /\ Goes(t, {"armed", "restarted"}, "expired")
           /\ left[t] <= 0
           /\ \A u \in Timer : state[u] \in {"armed", "restarted"} => left[t] <= left[u]
           /\ UNCHANGED <<left, period>>

(* A callback that fires within the one of the same timer leaves that one  *)
(* running.                                                                *)
Again(t) == /\ Goes(t, {"expired"}, "armed") \/ Goes(t, {"expired"}, "restarted")
            /\ left' = [left EXCEPT ![t] = @ + period[t]]
            /\ UNCHANGED period

Off(t) == /\ Goes(t, {"armed", "expired"}, "off")
          /\ left' = [left EXCEPT ![t] = 0]
          /\ UNCHANGED period

Passes == /\ left' = [t \in Timer |-> IF state[t] = "off" THEN 0 ELSE left[t] - 1]
          /\ UNCHANGED <<state, period>>

ServiceNext == \/ \E t \in Timer : Arm(t) \/ Fire(t) \/ Again(t) \/ Off(t)
               \/ \E t \in Timer, p \in Period :
                      \/ Ask(t, p, {"off"}, "asked") \/ Ask(t, p, {"off"}, "armed")
                      \/ Ask(t, p, {"expired"}, "restarted")
               \/ Passes

ServiceSpec == ServiceInit /\ [][ServiceNext]_timerVars
=============================================================================
