------------------------------ MODULE Calendar ------------------------------
(***************************************************************************)
(* The software calendar: the time of day as a base and a count of ticks,  *)
(* a list of alarms in the order of their times, and two software timers,  *)
(* one that moves the base on and one for the alarm that rings next.       *)
(*                                                                         *)
(* The timers are those of TimerService: one that is due has its callback  *)
(* called, the one due first before the other.  Callbacks run in the       *)
(* timers' interrupt, with interrupts off.  A critical section is one      *)
(* step; everything else of a call can be interrupted, and the clock goes  *)
(* on between any two steps.  The clock's 28 bits do not matter here: the  *)
(* times that are compared are less than half its range apart.             *)
(*                                                                         *)
(* The code can link recent_alarm_timer twice (calendar.c:57) and take an  *)
(* alarm out of a list in which it no longer is (calendar.c:170).  From    *)
(* then on its lists are no lists; a behaviour ends there, broken.         *)
(***************************************************************************)
EXTENDS Integers, SequencesExt

CONSTANTS
    Alarms,
    Second,          \* ticks in a second (3200)
    Base,            \* period of the base timer in seconds (39600)
    Settings,        \* bound: the times the calendar is set to
    Targets,         \* bound: the times alarms are set to
    CallLimit,       \* bound: no calls once the clock is there
    ClockLimit,      \* bound: where the clock stops
    Stall            \* ticks for which calls, callbacks and pending
                     \* interrupts may hold each other up

ASSUME TimesAssumption ==
    /\ Second \in Nat \ {0} /\ Base \in Nat \ {0} /\ Stall \in Nat
    /\ Settings \subseteq Nat /\ Targets \subseteq Nat
    /\ CallLimit \in Nat /\ ClockLimit \in Nat

VARIABLES
    clock,         \* timer_time_get()
    time_base, timer_count,
    base, recent,  \* targets of calendar_base_timer and recent_alarm_timer
    alarm_list,    \* its alarms with their targets
    broken,        \* alarm_update ran within alarm_update, or cdll_extract
                   \* met a header that is in no list
    pc, call,      \* where the thread is, its alarm and what it has read
    isr,           \* how far the callback of a timer is
    busy           \* ticks since there was nothing to do

times == <<time_base, timer_count>>
timers == <<base, recent>>
vars == <<clock, times, timers, alarm_list, broken, pc, call, isr, busy>>

Off == -1
Alarm == [id: Alarms, target: Targets]
NoAlarm == [id |-> Off, target |-> 0]
NoCall == [alarm |-> NoAlarm, current |-> 0, count |-> 0]

SetPcs == {"set_recent", "set_time_base", "set_count", "set_resched",
           "set_update"}
AlarmPcs == {"alarm_count", "alarm_base", "alarm_insert"}

TypeOK ==
    /\ clock \in 0 .. ClockLimit /\ busy \in 0 .. Stall
    /\ time_base \in Nat /\ timer_count \in 0 .. clock
    /\ base \in Nat \union {Off} /\ recent \in Nat \union {Off}
    /\ alarm_list \in Seq(Alarm)
    /\ pc \in {"idle", "remove"} \union SetPcs \union AlarmPcs
    /\ call \in [alarm: Alarm \union {NoAlarm}, current: Nat, count: Nat]
    /\ isr \in {"none", "resched"} /\ broken \in BOOLEAN

(* After sw_calendar_init and a first sw_calendar_set_time.                *)
Init ==
    /\ clock = 0 /\ time_base = 0 /\ timer_count = 0
    /\ base = Base * Second /\ recent = Off
    /\ alarm_list = <<>>
    /\ broken = FALSE
    /\ pc = "idle" /\ call = NoCall /\ isr = "none" /\ busy = 0

-----------------------------------------------------------------------------
(* A time later than all others: a negative difference of two times        *)
(* becomes a large number when PERIOD_2_MS makes it a uint64_t.            *)
Beyond == 1000000

ASSUME BeyondAssumption == \A target \in Targets : target <= Beyond

(* Mutant: a second that has begun counts.                                 *)
TimeRoundedUp(current, count, seconds) ==
    (current - count + Second - 1) \div Second + seconds

(* get_current_internal_time, from the three variables it reads.           *)
TimeOf(current, count, seconds) ==
    IF current >= count THEN (current - count) \div Second + seconds
                        ELSE Beyond

Now == TimeOf(clock, timer_count, time_base)

(* The difference is compared with the period as a uint64_t.               *)
Near(a) == a.target - Now \in 0 .. Base - 1

(* Mutant: the timer is set only if it is off.                             *)
UpdatedIfOff(list) ==
    IF list = <<>> THEN Off
    ELSE IF recent = Off /\ Near(Head(list))
         THEN clock + (Head(list).target - Now) * Second
         ELSE recent

(* alarm_update: what recent_alarm_timer is set to.                        *)
Updated(list) ==
    IF list = <<>> THEN Off
    ELSE IF Near(Head(list))
         THEN clock + (Head(list).target - Now) * Second
         ELSE recent

Expired(timer) == timer # Off /\ clock >= timer

(* sw_timer_stop ends in sw_timer_update.  If the base timer is due then,  *)
(* its callback runs alarm_update within alarm_update, and both insert     *)
(* recent_alarm_timer (unless the callback leaves no alarm near).          *)
Reenters == Expired(base) /\ recent # Off

(* alarm_update in a critical section.                                     *)
AlarmUpdate(list) ==
    /\ broken' = (broken \/ (Reenters /\ list # <<>> /\ Near(Head(list))))
    /\ recent' = Updated(list)

(* Mutant: alarm_compare the wrong way round.                              *)
UpToLater(a, list) ==
    {i \in DOMAIN list : \E j \in i .. Len(list) : list[j].target > a.target}

(* cdll_insert comes from the end of the list to the first alarm for which *)
(* alarm_compare holds; those are the places up to there.                  *)
UpToEarlier(a, list) ==
    {i \in DOMAIN list : \E j \in i .. Len(list) : list[j].target < a.target}

(* Behind them, before alarms of the same time.                            *)
Inserted(a, list) ==
    [i \in 1 .. Len(list) + 1 |->
        IF i \in UpToEarlier(a, list) THEN list[i]
        ELSE IF i = 1 \/ i - 1 \in UpToEarlier(a, list) THEN a
        ELSE list[i - 1]]

(* cdll_extract                                                            *)
Without(id, list) ==
    [i \in 1 .. Len(list) - 1 |->
        IF \E j \in 1 .. i : list[j].id = id THEN list[i + 1] ELSE list[i]]

IdsOf(list) == {a.id : a \in Range(list)}
Listed(id) == id \in IdsOf(alarm_list)

HeadIsDue == alarm_list # <<>> /\ Now >= Head(alarm_list).target

-----------------------------------------------------------------------------
(* The thread.                                                             *)

ThreadStep(from, to) ==
    /\ isr = "none"
    /\ pc = from
    /\ pc' = to

MayCall == clock < CallLimit

(* sw_calendar_set_time                                                    *)

SetTime ==
    /\ ThreadStep("idle", "set_recent")
    /\ MayCall
    /\ base' = Off
    /\ UNCHANGED <<clock, times, recent, alarm_list, broken, call, isr, busy>>

SetRecent ==
    /\ ThreadStep("set_recent", "set_time_base")
    /\ recent' = Off
    /\ UNCHANGED <<clock, times, base, alarm_list, broken, call, isr, busy>>

SetTimeBase ==
    /\ ThreadStep("set_time_base", "set_count")
    /\ time_base' \in Settings
    /\ UNCHANGED <<clock, timer_count, timers, alarm_list, broken, call, isr, busy>>

SetCount ==
    /\ ThreadStep("set_count", "set_resched")
    /\ timer_count' = clock
    /\ base' = clock + Base * Second
    /\ UNCHANGED <<clock, time_base, recent, alarm_list, broken, call, isr, busy>>

(* alarm_resched(false)                                                    *)
SetResched ==
    /\ ThreadStep("set_resched", IF HeadIsDue THEN "set_resched" ELSE "set_update")
    /\ alarm_list' = IF HeadIsDue THEN Tail(alarm_list) ELSE alarm_list
    /\ UNCHANGED <<clock, times, timers, broken, call, isr, busy>>

SetUpdate ==
    /\ ThreadStep("set_update", "idle")
    /\ recent' = Updated(alarm_list)
    /\ UNCHANGED <<clock, times, base, alarm_list, broken, call, isr, busy>>

(* sw_calendar_set_alarm.  An alarm is set only while it is in no list.    *)

SetAlarm(a) ==
    /\ ThreadStep("idle", "alarm_count")
    /\ MayCall
    /\ ~Listed(a.id)
    /\ call' = [NoCall EXCEPT !.alarm = a, !.current = clock]
    /\ UNCHANGED <<clock, times, timers, alarm_list, broken, isr, busy>>

AlarmCount ==
    /\ ThreadStep("alarm_count", "alarm_base")
    /\ call' = [call EXCEPT !.count = timer_count]
    /\ UNCHANGED <<clock, times, timers, alarm_list, broken, isr, busy>>

AlarmBase ==
    LET past == call.alarm.target <= TimeOf(call.current, call.count, time_base)
    IN  /\ ThreadStep("alarm_base", IF past THEN "idle" ELSE "alarm_insert")
        /\ call' = IF past THEN NoCall ELSE [NoCall EXCEPT !.alarm = call.alarm]
        /\ UNCHANGED <<clock, times, timers, alarm_list, broken, isr, busy>>

AlarmInsert ==
    /\ ThreadStep("alarm_insert", "idle")
    /\ alarm_list' = Inserted(call.alarm, alarm_list)
    /\ AlarmUpdate(alarm_list')
    /\ call' = NoCall
    /\ UNCHANGED <<clock, times, base, isr, busy>>

(* sw_calendar_remove_alarm looks outside its critical section whether the *)
(* alarm is in the list.  It may have rung by the time it is taken out.    *)

RemoveAlarm(a) ==
    /\ ThreadStep("idle", "remove")
    /\ MayCall
    /\ a \in Range(alarm_list)
    /\ call' = [NoCall EXCEPT !.alarm = a]
    /\ UNCHANGED <<clock, times, timers, alarm_list, broken, isr, busy>>

RemoveLocked ==
    /\ ThreadStep("remove", "idle")
    /\ IF Listed(call.alarm.id)
       THEN /\ alarm_list' = Without(call.alarm.id, alarm_list)
            /\ AlarmUpdate(alarm_list')
       ELSE broken' = TRUE /\ UNCHANGED <<alarm_list, recent>>
    /\ call' = NoCall
    /\ UNCHANGED <<clock, times, base, isr, busy>>

-----------------------------------------------------------------------------
(* The timers' interrupt.  Within it sw_timer_insert and sw_timer_stop     *)
(* call back a timer that is due, so that the base timer, due behind an    *)
(* alarm timer that a callback has set again, interrupts alarm_resched.    *)

(* Mutant: the callback runs once.                                         *)
BaseStopped == Off

(* The callback returns true: a timer set again goes on from its target.   *)
BaseAgain == base + Base * Second

(* Mutant: the time of the interrupt.                                      *)
CountedLate == clock

(* Mutant: the target that the timer is about to get.                      *)
CountedAhead == base + Base * Second

(* sw_timer_target_get(&calendar_base_timer) in its callback.              *)
CountAtBase == base

BaseExpires ==
    /\ isr = "resched" => recent # Off
    /\ Expired(base)
    /\ recent = Off \/ base <= recent
    /\ time_base' = time_base + Base
    /\ timer_count' = CountAtBase
    /\ base' = BaseAgain
    /\ isr' = "resched"
    /\ UNCHANGED <<clock, recent, alarm_list, broken, pc, call, busy>>

RecentExpires ==
    /\ isr = "none"
    /\ Expired(recent)
    /\ base = Off \/ recent <= base
    /\ recent' = Off
    /\ isr' = "resched"
    /\ UNCHANGED <<clock, times, base, alarm_list, broken, pc, call, busy>>

(* sw_calendar_alarm_callback may set alarms and remove them.  It does not *)
(* set the one the thread is about to set.                                 *)

CallbackIdles(list) ==
    /\ alarm_list' = list
    /\ UNCHANGED <<recent, broken>>

CallbackSets(a, list) ==
    /\ MayCall
    /\ a.id \notin IdsOf(list) \union {call.alarm.id}
    /\ a.target > Now
    /\ alarm_list' = Inserted(a, list)
    /\ AlarmUpdate(alarm_list')

CallbackRemoves(a, list) ==
    /\ a \in Range(list)
    /\ alarm_list' = Without(a.id, list)
    /\ AlarmUpdate(alarm_list')

(* alarm_resched(true)                                                     *)
Ring ==
    /\ isr = "resched"
    /\ HeadIsDue
    /\ LET list == Tail(alarm_list)
       IN  \/ CallbackIdles(list)
           \/ \E a \in Alarm : CallbackSets(a, list) \/ CallbackRemoves(a, list)
    /\ UNCHANGED <<clock, times, base, pc, call, isr, busy>>

IsrUpdate ==
    /\ isr = "resched"
    /\ ~HeadIsDue
    /\ AlarmUpdate(alarm_list)
    /\ isr' = "none"
    /\ UNCHANGED <<clock, times, base, alarm_list, pc, call, busy>>

-----------------------------------------------------------------------------
Quiet == pc = "idle" /\ isr = "none" /\ ~Expired(base) /\ ~Expired(recent)

(* The clock.                                                              *)
Tick ==
    /\ clock < ClockLimit
    /\ Quiet \/ busy < Stall
    /\ clock' = clock + 1
    /\ busy' = IF Quiet THEN 0 ELSE busy + 1
    /\ UNCHANGED <<times, timers, alarm_list, broken, pc, call, isr>>

Call == SetTime \/ \E a \in Alarm : SetAlarm(a) \/ RemoveAlarm(a)

Thread ==
    \/ SetRecent \/ SetTimeBase \/ SetCount \/ SetResched \/ SetUpdate
    \/ AlarmCount \/ AlarmBase \/ AlarmInsert
    \/ RemoveLocked

Isr == BaseExpires \/ RecentExpires \/ Ring \/ IsrUpdate

(* Nothing is said of what the code does once its lists are broken.        *)
Next == ~broken /\ (Call \/ Thread \/ Isr \/ Tick)

Spec == Init /\ [][Next]_vars

(* Time passes, however many calls are made; an interrupt that can come    *)
(* again and again does, and so does the thread's next step.               *)
FairSpec ==
    /\ Spec
    /\ SF_vars(~broken /\ Tick)
    /\ SF_vars(~broken /\ Isr)
    /\ SF_vars(~broken /\ Thread)

-----------------------------------------------------------------------------
(* Properties                                                              *)

(* When the calendar will be at the time of an alarm.                      *)
DueAt(a) == timer_count + (a.target - time_base) * Second

Ordered(list) ==
    \A i, j \in DOMAIN list : i < j =>
        list[i].id # list[j].id /\ list[i].target <= list[j].target

(* The alarms are in the order of their times and each is there once,      *)
(* whatever the callbacks set and remove between the steps of the thread:  *)
(* alarm_resched looks at the first only, and stops at one not due.        *)
ListOrdered == Ordered(alarm_list)

(* While the time is not being set, an alarm due before the base moves on  *)
(* has recent_alarm_timer set within a second of its time, although the    *)
(* timer is set from a time in whole seconds, read again at every change,  *)
(* and compared as an unsigned number.                                     *)
Armed ==
    pc \notin SetPcs /\ isr = "none" =>
        \A a \in Range(alarm_list) :
            a.target < time_base + Base =>
                recent # Off /\ recent < DueAt(a) + Second

(* No alarm rings before its time, or two seconds after it: not after the  *)
(* time was set, nor around the moment at which the base moves on.         *)
RingsInTime ==
    [][Ring => clock - DueAt(Head(alarm_list)) \in 0 .. 2 * Second - 1]_vars

(* The calendar neither gains nor loses a tick but in sw_calendar_set_time,*)
(* however late the base timer's interrupt is and whatever it interrupts.  *)
KeepsTime ==
    [][pc \notin SetPcs =>
           timer_count' - time_base' * Second = timer_count - time_base * Second]_vars

(* Every alarm in the list leaves it, also one beyond several periods of   *)
(* the base: it rings, is removed, or is passed over by                    *)
(* sw_calendar_set_time - unless the lists get broken first.               *)
AlarmEnds == \A a \in Alarms : Listed(a) ~> (~Listed(a) \/ broken)
=============================================================================
