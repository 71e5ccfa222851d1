------------------------------- MODULE SwTimer -------------------------------
(***************************************************************************)
(* src/module/common/sw_timer.c over the one compare register of           *)
(* src/soc/arm_cm/le501x/sw_timer_port.c.  sw_timer_update, which every    *)
(* call and the interrupt end in, runs with interrupts off, but the clock  *)
(* runs on: each access to the timer hardware is a step.  A callback runs  *)
(* within the update's loop and may start and stop timers, whose update    *)
(* then runs within that callback.                                         *)
(*                                                                         *)
(* Callers start only a timer that is not active and that nobody else is   *)
(* starting, and stop only one found active in the same critical section,  *)
(* as calendar.c:35-43 does: the list has no protection against the rest.  *)
(***************************************************************************)
EXTENDS Integers, SequencesExt

CONSTANTS Timer, NULL,
          Wrap,       \* the clock's range: 2^28 half-slots in the code
          Period,     \* the periods used
          LateLimit,  \* ticks an interrupt or a step may come late
          DepthLimit  \* bound: callbacks within callbacks

ASSUME NullAssumption == NULL \notin Timer /\ IsFiniteSet(Timer)

ASSUME ClockAssumption ==
  /\ Wrap \in Nat \ {0} /\ Wrap % 2 = 0
  /\ Period \subseteq Nat \ {0} /\ LateLimit \in Nat
  /\ \A p \in Period : p + LateLimit < Wrap \div 2

ASSUME DepthAssumption == DepthLimit \in Nat

List == INSTANCE Cdll WITH Elem <- Timer

VARIABLES list,      \* sw_timer_list and the headers
          target, period,
          now,       \* the clock
          match,     \* CLK_TARGET
          stat,      \* INT_STAT: the clock was at match since it was cleared
          unmasked,  \* INT_MASK
          pc,        \* the step of sw_timer_update that is next
          callbacks, \* the timers whose callback runs, the innermost last
          starting   \* timers whose target is set and that are not yet linked

vars == <<list, target, period, now, match, stat, unmasked, pc, callbacks, starting>>
hw == <<now, match, stat, unmasked>>

(* mutant: the sum is not taken in the clock's range *)
plain_add(a, b) == a + b

timer_time_add(a, b) == (a + b) % Wrap

timer_time_compare(a, b) == LET diff == (a - b) % Wrap
                            IN  IF diff >= Wrap \div 2 THEN diff - Wrap ELSE diff

Active(t) == List!cdll_is_elem_linked(list, t)

Expired(t) == t \in Range(callbacks) /\ ~Active(t)

Init == /\ list = List!cdll_init
        /\ target = [t \in Timer |-> 0] /\ period \in [Timer -> Period]
        /\ now = 0 /\ match = 0 /\ stat = FALSE /\ unmasked = FALSE
        /\ pc = "idle" /\ callbacks = <<>> /\ starting = {}

-----------------------------------------------------------------------------
timer_insert(t, tg) ==
  LET mayFollow == { ref \in Timer : timer_time_compare(tg[t], tg[ref]) >= 0 }
  IN  list' = List!cdll_insert(list, t, mayFollow)

(* sw_timer_update: timer_irq_mask, then its loop. *)
UpdateStarts == pc' = "pick" /\ unmasked' = FALSE

UpdateReturns == pc' = IF callbacks = <<>> THEN "idle" ELSE "callback"

(* The context that sw_timer_start runs in is interrupted, if at all,      *)
(* before it enters the critical section of sw_timer_insert.               *)
StartTarget(t, p) ==
  /\ pc = "idle"
  /\ ~Active(t) /\ t \notin starting
  /\ period' = [period EXCEPT ![t] = p]
  /\ target' = [target EXCEPT ![t] = timer_time_add(now, p)]
  /\ starting' = starting \cup {t}
  /\ UNCHANGED <<list, hw, pc, callbacks>>

(* sw_timer_insert *)
StartInsert(t) ==
  /\ pc = "idle"
  /\ t \in starting
  /\ starting' = starting \ {t}
  /\ timer_insert(t, target)
  /\ UpdateStarts
  /\ UNCHANGED <<target, period, now, match, stat, callbacks>>

Callback == Last(callbacks)

(* sw_timer_start by a callback; of its own timer it may, if it is going   *)
(* to return false.                                                        *)
CallbackStarts(t, p) ==
  /\ pc = "callback" /\ Len(callbacks) < DepthLimit
  /\ ~Active(t) /\ t \notin starting
  /\ t \in Range(callbacks) => t = Callback
  /\ period' = [period EXCEPT ![t] = p]
  /\ target' = [target EXCEPT ![t] = timer_time_add(now, p)]
  /\ timer_insert(t, target')
  /\ UpdateStarts
  /\ UNCHANGED <<now, match, stat, callbacks, starting>>

(* sw_timer_stop, never of a timer whose callback runs. *)
Stop(t) ==
  /\ pc = "idle" \/ (pc = "callback" /\ Len(callbacks) < DepthLimit)
  /\ Active(t) /\ t \notin Range(callbacks)
  /\ list' = List!cdll_extract(list, t)
  /\ UpdateStarts
  /\ UNCHANGED <<target, period, now, match, stat, callbacks, starting>>

(* Handler_For_SW_Timer, sw_timer_isr: it preempts every caller, but no    *)
(* critical section, and nothing that uses timers preempts it.             *)
Isr ==
  /\ pc = "idle" /\ unmasked /\ stat
  /\ UpdateStarts
  /\ UNCHANGED <<list, target, period, now, match, stat, callbacks, starting>>

(* The first timer is looked at: cdll_first, timer_irq_clr. *)
UpdatePick ==
  /\ pc = "pick"
  /\ IF list.first = NULL THEN UpdateReturns /\ UNCHANGED stat
                          ELSE pc' = "match" /\ stat' = FALSE
  /\ UNCHANGED <<list, target, period, now, match, unmasked, callbacks, starting>>

(* timer_match_set *)
UpdateMatch ==
  /\ pc = "match"
  /\ match' = target[list.first]
  /\ pc' = "read"
  /\ UNCHANGED <<list, target, period, now, stat, unmasked, callbacks, starting>>

(* timer_time_get; the callback of a timer that is due is called. *)
UpdateRead ==
  /\ pc = "read"
  /\ IF timer_time_compare(now, target[list.first]) >= 0
     THEN /\ list' = List!cdll_pop_front(list)
          /\ callbacks' = Append(callbacks, list.first)
          /\ pc' = "callback"
     ELSE pc' = "unmask" /\ UNCHANGED <<list, callbacks>>
  /\ UNCHANGED <<target, period, hw, starting>>

(* mutant: what is pending is cleared when the interrupt is let through *)
UpdateUnmaskClears ==
  /\ pc = "unmask"
  /\ unmasked' = TRUE /\ stat' = FALSE
  /\ UpdateReturns
  /\ UNCHANGED <<list, target, period, now, match, callbacks, starting>>

(* timer_irq_unmask *)
UpdateUnmask ==
  /\ pc = "unmask"
  /\ unmasked' = TRUE
  /\ UpdateReturns
  /\ UNCHANGED <<list, target, period, now, match, stat, callbacks, starting>>

(* mutant: the next period begins when the callback returns *)
CallbackAgainFromNow ==
  /\ pc = "callback" /\ ~Active(Callback)
  /\ target' = [target EXCEPT ![Callback] = timer_time_add(now, period[Callback])]
  /\ timer_insert(Callback, target')
  /\ callbacks' = Front(callbacks)
  /\ pc' = "pick"
  /\ UNCHANGED <<period, hw, starting>>

(* A callback that returns true: its timer is due again. *)
CallbackAgain ==
  /\ pc = "callback" /\ ~Active(Callback)
  /\ target' = [target EXCEPT ![Callback] = timer_time_add(@, period[Callback])]
  /\ timer_insert(Callback, target')
  /\ callbacks' = Front(callbacks)
  /\ pc' = "pick"
  /\ UNCHANGED <<period, hw, starting>>

CallbackDone ==
  /\ pc = "callback"
  /\ callbacks' = Front(callbacks)
  /\ pc' = "pick"
  /\ UNCHANGED <<list, target, period, hw, starting>>

(* The clock: the interrupt status is set when it comes to the compare     *)
(* register.  No timer waits, due, for longer than LateLimit.              *)
Tick ==
  /\ \A t \in Timer : Active(t) \/ t \in starting \/ Expired(t)
       => timer_time_compare(now, target[t]) < LateLimit
  /\ now' = timer_time_add(now, 1)
  /\ stat' = (stat \/ now' = match)
  /\ UNCHANGED <<list, target, period, match, unmasked, pc, callbacks, starting>>

Caller == \/ \E t \in Timer, p \in Period : StartTarget(t, p) \/ CallbackStarts(t, p)
          \/ \E t \in Timer : Stop(t)

Update == UpdatePick \/ UpdateMatch \/ UpdateRead \/ UpdateUnmask

Inserts == \E t \in Timer : StartInsert(t)

CallbackReturns == CallbackAgain \/ CallbackDone

Next == Caller \/ Inserts \/ Isr \/ Update \/ CallbackReturns \/ Tick

Spec == Init /\ [][Next]_vars

(* Code and clock go on, a pending interrupt is taken, and a callback      *)
(* returns, however many timers it starts and stops before.                *)
FairSpec == Spec /\ WF_vars(Update) /\ WF_vars(Isr) /\ WF_vars(Tick)
                 /\ SF_vars(Inserts) /\ SF_vars(CallbackReturns)

-----------------------------------------------------------------------------
TypeOK ==
  /\ target \in [Timer -> 0 .. Wrap - 1] /\ period \in [Timer -> Period]
  /\ now \in 0 .. Wrap - 1 /\ match \in 0 .. Wrap - 1
  /\ pc \in {"idle", "pick", "match", "read", "unmask", "callback"}
  /\ Len(callbacks) <= DepthLimit + 1
  /\ \A t \in starting : ~Active(t)

(* The pointers make one ring of the active timers, and it is sorted by    *)
(* the time left, across the wrap of the clock: the compare register is    *)
(* only ever set for the first.                                            *)
InOrder ==
  /\ List!RingOf(list)
  /\ LET due == [k \in DOMAIN List!Order(list) |->
                   timer_time_compare(target[List!Order(list)[k]], now)]
     IN  \A j, k \in DOMAIN due : j < k => due[j] <= due[k]

(* Whenever the update is over, the interrupt that will look at the first  *)
(* timer is on its way: it is pending, or the clock has still to come to   *)
(* the compare register, and it is let through.                            *)
WakeUpDue ==
  pc = "idle" /\ list.first # NULL =>
    /\ unmasked
    /\ stat \/ (match = target[list.first]
                /\ timer_time_compare(match, now) > 0)

(* Every timer that is started fires, unless it is stopped.                *)
EveryTimerFires == \A t \in Timer : Active(t) ~> ~Active(t)

(* No timer fires early or out of order, and a periodic one does not drift,*)
(* although the list's pointers and a clock that wraps are all there is.   *)
Service == INSTANCE TimerService
  WITH state <- [t \in Timer |-> IF Active(t) /\ t \in Range(callbacks) THEN "restarted"
                                 ELSE IF Active(t) THEN "armed"
                                 ELSE IF t \in starting THEN "asked"
                                 ELSE IF Expired(t) THEN "expired" ELSE "off"],
       left <- [t \in Timer |-> IF Active(t) \/ t \in starting \/ Expired(t)
                                THEN timer_time_compare(target[t], now) ELSE 0]

ImplementsService == Service!ServiceSpec
=============================================================================
