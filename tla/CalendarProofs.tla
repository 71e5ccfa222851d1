--------------------------- MODULE CalendarProofs ---------------------------
(***************************************************************************)
(* The calendar keeps its time, its list stays in order and armed, and no  *)
(* alarm is early or late, for seconds, base periods and delays of any     *)
(* length and any number of alarms, whatever the callbacks do.             *)
(*                                                                         *)
(* None of this is inductive.  The time is kept because a base timer that  *)
(* runs was set one period after the count, so that the callback moves     *)
(* base and count by the same amount.  The list stays in order because the *)
(* alarm that the thread is about to put in is in no list, although        *)
(* callbacks come in between.  An alarm is not early because the count is  *)
(* never ahead of the clock, and it is armed because the alarms not yet    *)
(* armed are those beyond the base period, at whose end the first of them  *)
(* is looked at again.                                                     *)
(***************************************************************************)
EXTENDS Calendar, SequenceTheorems, TLAPS

LEMMA AlarmFields ==
  ASSUME NEW a \in Alarm
  PROVE  a.id \in Alarms /\ a.target \in Nat
BY TimesAssumption DEF Alarm

(* What cdll_insert, cdll_extract and cdll_pop_front make of the list.     *)

LEMMA InsertedShape ==
  ASSUME NEW a, NEW list \in Seq(Alarm)
  PROVE  /\ Inserted(a, list) = [i \in 1 .. Len(list) + 1 |-> Inserted(a, list)[i]]
         /\ \A i \in 1 .. Len(list) + 1 :
              Inserted(a, list)[i] =
                IF i \in UpToEarlier(a, list) THEN list[i]
                ELSE IF i = 1 \/ i - 1 \in UpToEarlier(a, list) THEN a
                ELSE list[i - 1]
BY DEF Inserted

LEMMA InsertedSeq ==
  ASSUME NEW a \in Alarm, NEW list \in Seq(Alarm)
  PROVE  /\ Inserted(a, list) \in Seq(Alarm)
         /\ Len(Inserted(a, list)) = Len(list) + 1
<1> DEFINE new == Inserted(a, list)
<1>1. Len(list) \in Nat /\ DOMAIN list = 1 .. Len(list)
  BY LenProperties
<1>2. ASSUME NEW i \in 1 .. Len(list) + 1
      PROVE  new[i] \in Alarm
  <2>1. CASE i \in UpToEarlier(a, list)
    BY <2>1, <1>1, ElementOfSeq, InsertedShape DEF UpToEarlier
  <2>2. CASE i \notin UpToEarlier(a, list) /\ (i = 1 \/ i - 1 \in UpToEarlier(a, list))
    BY <2>2, InsertedShape
  <2>3. CASE i \notin UpToEarlier(a, list) /\ i # 1 /\ i - 1 \notin UpToEarlier(a, list)
    <3>1. i - 1 \in 1 .. Len(list)
      BY <2>3, <1>1
    <3> QED BY <2>3, <3>1, ElementOfSeq, InsertedShape
  <2> QED BY <2>1, <2>2, <2>3
<1>3. new \in [1 .. Len(list) + 1 -> Alarm]
  BY <1>2, InsertedShape
<1> QED BY <1>1, <1>3

LEMMA InsertedIds ==
  ASSUME NEW a \in Alarm, NEW list \in Seq(Alarm)
  PROVE  IdsOf(Inserted(a, list)) \subseteq IdsOf(list) \union {a.id}
<1> DEFINE new == Inserted(a, list)
<1>1. Len(list) \in Nat /\ DOMAIN list = 1 .. Len(list) /\ DOMAIN new = 1 .. Len(list) + 1
  BY LenProperties, InsertedShape
<1>2. ASSUME NEW i \in 1 .. Len(list) + 1
      PROVE  new[i].id \in IdsOf(list) \union {a.id}
  <2>1. CASE i \in UpToEarlier(a, list)
    BY <2>1, <1>1, InsertedShape DEF UpToEarlier, IdsOf, Range
  <2>2. CASE i \notin UpToEarlier(a, list) /\ (i = 1 \/ i - 1 \in UpToEarlier(a, list))
    BY <2>2, InsertedShape
  <2>3. CASE i \notin UpToEarlier(a, list) /\ i # 1 /\ i - 1 \notin UpToEarlier(a, list)
    <3>1. i - 1 \in 1 .. Len(list)
      BY <2>3, <1>1
    <3> QED BY <2>3, <3>1, <1>1, InsertedShape DEF IdsOf, Range
  <2> QED BY <2>1, <2>2, <2>3
<1> QED BY <1>1, <1>2 DEF IdsOf, Range

LEMMA InsertedOrdered ==
  ASSUME NEW a \in Alarm, NEW list \in Seq(Alarm),
         Ordered(list), a.id \notin IdsOf(list)
  PROVE  Ordered(Inserted(a, list))
<1> DEFINE new == Inserted(a, list)
           up  == UpToEarlier(a, list)
           n   == Len(list)
<1>1. n \in Nat /\ DOMAIN list = 1 .. n /\ DOMAIN new = 1 .. n + 1
  BY LenProperties, InsertedShape
<1>2. \A i \in 1 .. n : list[i] \in Alarm /\ list[i].target \in Nat /\ a.target \in Nat
  BY ElementOfSeq, AlarmFields
<1>3. \A i \in 1 .. n : list[i].id # a.id
  BY <1>1 DEF IdsOf, Range
<1>4. \A i \in up : i \in 1 .. n /\ list[i].target < a.target
  <2> TAKE i \in up
  <2>1. i \in 1 .. n
    BY <1>1 DEF UpToEarlier
  <2>2. PICK j \in i .. n : list[j].target < a.target
    BY DEF UpToEarlier
  <2>3. j \in 1 .. n /\ (i = j \/ i < j)
    BY <2>1, <2>2, <1>1
  <2>4. list[i].target <= list[j].target
    BY <2>1, <2>3, <1>1, <1>2 DEF Ordered
  <2> QED BY <2>1, <2>2, <2>3, <2>4, <1>2
<1>5. \A i \in 1 .. n : i \notin up => list[i].target >= a.target
  <2> TAKE i \in 1 .. n
  <2>1. i \in i .. n
    BY <1>1
  <2> QED BY <2>1, <1>1, <1>2 DEF UpToEarlier
<1>6. \A i \in up : \A k \in 1 .. i : k \in up
  <2> SUFFICES ASSUME NEW i \in up, NEW k \in 1 .. i PROVE k \in up
    OBVIOUS
  <2>1. PICK j \in i .. n : list[j].target < a.target
    BY DEF UpToEarlier
  <2>2. k \in 1 .. n /\ j \in k .. n
    BY <2>1, <1>1, <1>4
  <2> QED BY <2>1, <2>2, <1>1 DEF UpToEarlier
<1> SUFFICES ASSUME NEW i \in 1 .. n + 1, NEW j \in 1 .. n + 1, i < j
             PROVE  new[i].id # new[j].id /\ new[i].target <= new[j].target
  BY <1>1 DEF Ordered
<1> HIDE DEF up, n
<1>7. /\ new[i] = IF i \in up THEN list[i]
                  ELSE IF i = 1 \/ i - 1 \in up THEN a ELSE list[i - 1]
      /\ new[j] = IF j \in up THEN list[j]
                  ELSE IF j = 1 \/ j - 1 \in up THEN a ELSE list[j - 1]
  BY InsertedShape DEF up, n
<1> HIDE DEF new
<1> DEFINE InOrder(x, y) == x.id # y.id /\ x.target <= y.target
<1>8. \A x, y \in 1 .. n : x < y => InOrder(list[x], list[y])
  BY <1>1 DEF Ordered
<1>9. CASE j \in up
  <2>1. i \in up /\ j \in 1 .. n /\ i \in 1 .. n
    BY <1>9, <1>4, <1>6
  <2> QED BY <2>1, <1>9, <1>7, <1>8
<1>10. CASE j \notin up /\ j - 1 \in up
  <2>1. i \in 1 .. j - 1
    BY <1>1
  <2>2. i \in up
    BY <2>1, <1>10, <1>6
  <2>3. new[i] = list[i] /\ new[j] = a
    BY <2>2, <1>10, <1>7
  <2>4. list[i].id # a.id /\ list[i].target < a.target /\ list[i].target \in Nat
    BY <2>2, <1>4, <1>3, <1>2
  <2>5. a.target \in Nat
    BY AlarmFields
  <2> QED BY <2>3, <2>4, <2>5
<1>11. CASE j \notin up /\ j - 1 \notin up
  <2>1. j # 1 /\ j - 1 \in 1 .. n
    BY <1>1
  <2>2. new[j] = list[j - 1]
    BY <2>1, <1>11, <1>7
  <2>3. CASE i \in up
    <3>1. i \in 1 .. n /\ i # j - 1
      BY <2>3, <1>11, <1>4
    <3>2. i < j - 1
      BY <3>1, <2>1, <1>1
    <3> QED BY <2>2, <2>3, <3>1, <3>2, <2>1, <1>7, <1>8
  <2>4. CASE i \notin up /\ (i = 1 \/ i - 1 \in up)
    <3>1. new[i] = a
      BY <2>4, <1>7
    <3>2. list[j - 1].target >= a.target /\ list[j - 1].id # a.id
      BY <2>1, <1>11, <1>5, <1>3
    <3>3. list[j - 1].target \in Nat /\ a.target \in Nat
      BY <2>1, <1>2
    <3> QED BY <3>1, <3>2, <3>3, <2>2
  <2>5. CASE i \notin up /\ i # 1 /\ i - 1 \notin up
    <3>1. i - 1 \in 1 .. n /\ i - 1 < j - 1
      BY <2>5, <1>1
    <3>2. new[i] = list[i - 1]
      BY <2>5, <1>7
    <3> QED BY <3>1, <3>2, <2>1, <2>2, <1>8
  <2> QED BY <2>3, <2>4, <2>5
<1> QED BY <1>9, <1>10, <1>11

LEMMA WithoutShape ==
  ASSUME NEW id, NEW list \in Seq(Alarm), id \in IdsOf(list)
  PROVE  /\ Len(list) \in Nat \ {0} /\ DOMAIN list = 1 .. Len(list)
         /\ DOMAIN Without(id, list) = 1 .. Len(list) - 1
         /\ \A i \in 1 .. Len(list) - 1 :
              Without(id, list)[i] =
                IF \E j \in 1 .. i : list[j].id = id THEN list[i + 1] ELSE list[i]
<1>1. Len(list) \in Nat /\ DOMAIN list = 1 .. Len(list)
  BY LenProperties
<1>2. Len(list) # 0
  BY <1>1 DEF IdsOf, Range
<1> QED BY <1>1, <1>2 DEF Without

LEMMA WithoutSeq ==
  ASSUME NEW id, NEW list \in Seq(Alarm), id \in IdsOf(list)
  PROVE  /\ Without(id, list) \in Seq(Alarm)
         /\ IdsOf(Without(id, list)) \subseteq IdsOf(list)
         /\ Ordered(list) => Ordered(Without(id, list))
<1> DEFINE new == Without(id, list)
           n   == Len(list)
           gone(i) == \E j \in 1 .. i : list[j].id = id
<1>1. n \in Nat \ {0} /\ DOMAIN list = 1 .. n /\ DOMAIN new = 1 .. n - 1
  BY WithoutShape
<1>2. \A i \in 1 .. n - 1 : new[i] = IF gone(i) THEN list[i + 1] ELSE list[i]
  BY WithoutShape
<1>3. \A i \in 1 .. n - 1 : i \in 1 .. n /\ i + 1 \in 1 .. n
  BY <1>1
<1>4. \A i \in 1 .. n : list[i] \in Alarm
  BY ElementOfSeq
<1>5. new = [i \in 1 .. n - 1 |-> new[i]]
  BY DEF Without
<1>6. new \in [1 .. n - 1 -> Alarm] /\ n - 1 \in Nat
  <2> HIDE DEF new, n, gone
  <2> QED BY <1>1, <1>2, <1>3, <1>4, <1>5
<1>7. new \in Seq(Alarm)
  BY <1>6
<1>8. IdsOf(new) \subseteq IdsOf(list)
  <2> HIDE DEF new, n, gone
  <2> QED BY <1>1, <1>2, <1>3 DEF IdsOf, Range
<1>9. ASSUME Ordered(list) PROVE Ordered(new)
  <2> SUFFICES ASSUME NEW i \in 1 .. n - 1, NEW j \in 1 .. n - 1, i < j
               PROVE  new[i].id # new[j].id /\ new[i].target <= new[j].target
    BY <1>1 DEF Ordered
  <2>1. gone(i) => gone(j)
    BY <1>1
  <2> HIDE DEF new, n, gone
  <2>2. \A x, y \in 1 .. n : x < y =>
          list[x].id # list[y].id /\ list[x].target <= list[y].target
    BY <1>1, <1>9 DEF Ordered
  <2>3. PICK x \in 1 .. n : new[i] = list[x] /\ x = IF gone(i) THEN i + 1 ELSE i
    BY <1>2, <1>3
  <2>4. PICK y \in 1 .. n : new[j] = list[y] /\ y = IF gone(j) THEN j + 1 ELSE j
    BY <1>2, <1>3
  <2>5. x < y
    BY <2>1, <2>3, <2>4
  <2> QED BY <2>2, <2>3, <2>4, <2>5
<1> QED BY <1>7, <1>8, <1>9

LEMMA TailSeq ==
  ASSUME NEW list \in Seq(Alarm), list # <<>>
  PROVE  /\ Head(list) \in Alarm
         /\ Tail(list) \in Seq(Alarm)
         /\ IdsOf(Tail(list)) \subseteq IdsOf(list)
         /\ Ordered(list) => Ordered(Tail(list))
<1>1. /\ Head(list) \in Alarm /\ Tail(list) \in Seq(Alarm)
      /\ Len(Tail(list)) = Len(list) - 1
      /\ \A i \in 1 .. Len(Tail(list)) : Tail(list)[i] = list[i + 1]
  BY HeadTailProperties
<1>2. Len(list) \in Nat /\ DOMAIN list = 1 .. Len(list)
      /\ DOMAIN Tail(list) = 1 .. Len(Tail(list))
  BY <1>1, LenProperties
<1>3. \A i \in 1 .. Len(Tail(list)) : i + 1 \in 1 .. Len(list)
  BY <1>1, <1>2
<1>4. IdsOf(Tail(list)) \subseteq IdsOf(list)
  BY <1>1, <1>2, <1>3 DEF IdsOf, Range
<1>5. Ordered(list) => Ordered(Tail(list))
  BY <1>1, <1>2, <1>3 DEF Ordered
<1> QED BY <1>1, <1>4, <1>5
-----------------------------------------------------------------------------
(* The types.                                                              *)

LEMMA NatProduct ==
  ASSUME NEW m \in Nat, NEW n \in Nat
  PROVE  m * n \in Nat
OBVIOUS

LEMMA NowNat == TypeOK => Now \in Nat
<1> SUFFICES ASSUME TypeOK PROVE Now \in Nat
  OBVIOUS
<1>1. clock - timer_count \in Nat /\ time_base \in Nat /\ Second \in Nat \ {0}
  BY TimesAssumption DEF TypeOK
<1>2. (clock - timer_count) \div Second \in Nat
  BY <1>1, SMTT(30)
<1> QED BY <1>1, <1>2 DEF Now, TimeOf, TypeOK

LEMMA UpdatedType ==
  ASSUME TypeOK, NEW list \in Seq(Alarm)
  PROVE  Updated(list) \in Nat \union {Off}
<1>1. CASE list # <<>> /\ Near(Head(list))
  <2> DEFINE ahead == Head(list).target - Now
  <2>1. ahead \in Nat
    BY <1>1, TimesAssumption DEF Near
  <2>2. ahead * Second \in Nat /\ clock \in Nat
    BY <2>1, NatProduct, TimesAssumption DEF TypeOK
  <2> QED BY <1>1, <2>2 DEF Updated
<1>2. CASE ~(list # <<>> /\ Near(Head(list)))
  BY <1>2 DEF Updated, TypeOK
<1> QED BY <1>1, <1>2

(* A call of sw_calendar_set_alarm or remove_alarm has an alarm, and the   *)
(* one that is being set is in no list.                                    *)
CallInv ==
  /\ pc \in AlarmPcs \union {"remove"} => call.alarm \in Alarm
  /\ pc \in AlarmPcs => ~Listed(call.alarm.id)

TypeInv == TypeOK /\ CallInv

LEMMA InitTypeInv == Init => TypeInv
<1> SUFFICES ASSUME Init PROVE TypeInv
  OBVIOUS
<1>1. Base * Second \in Nat
  BY TimesAssumption
<1>2. alarm_list \in Seq(Alarm)
  BY EmptySeq DEF Init
<1>3. call \in [alarm: Alarm \union {NoAlarm}, current: Nat, count: Nat]
  BY DEF Init, NoCall
<1>4. clock \in 0 .. ClockLimit /\ busy \in 0 .. Stall /\ timer_count \in 0 .. clock
  BY TimesAssumption DEF Init
<1>5. TypeOK
  BY <1>1, <1>2, <1>3, <1>4 DEF Init, TypeOK
<1>6. CallInv
  BY DEF Init, CallInv, AlarmPcs
<1> QED BY <1>5, <1>6 DEF TypeInv

(* What holds of the alarms of a call while only the list changes.         *)
LEMMA CallInvKept ==
  ASSUME CallInv, pc' = pc, call' = call,
         pc \in AlarmPcs => call.alarm.id \notin IdsOf(alarm_list')
  PROVE  CallInv'
BY DEF CallInv, Listed

(* alarm_update in a critical section.                                     *)
LEMMA UpdateBroken ==
  ASSUME NEW list, AlarmUpdate(list)
  PROVE  broken' \in BOOLEAN
BY DEF AlarmUpdate

(* What a callback may do to the list, in the order of its choice.         *)
LEMMA RingResult ==
  ASSUME TypeInv, Ring
  PROVE  /\ alarm_list' \in Seq(Alarm)
         /\ recent' \in Nat \union {Off}
         /\ pc \in AlarmPcs => call.alarm.id \notin IdsOf(alarm_list')
         /\ Ordered(alarm_list) => Ordered(alarm_list')
         /\ broken' \in BOOLEAN
<1> DEFINE list == Tail(alarm_list)
<1>1. alarm_list \in Seq(Alarm) /\ alarm_list # <<>>
      /\ recent \in Nat \union {Off} /\ broken \in BOOLEAN
  BY DEF Ring, HeadIsDue, TypeInv, TypeOK
<1>2. /\ list \in Seq(Alarm)
      /\ IdsOf(list) \subseteq IdsOf(alarm_list)
      /\ Ordered(alarm_list) => Ordered(list)
  BY <1>1, TailSeq
<1>3. pc \in AlarmPcs => call.alarm.id \notin IdsOf(list)
  BY <1>2 DEF TypeInv, CallInv, Listed
<1>4. AlarmUpdate(alarm_list') =>
        broken' \in BOOLEAN
  BY UpdateBroken
<1>5. CASE CallbackIdles(list)
  BY <1>5, <1>1, <1>2, <1>3 DEF CallbackIdles
<1>6. ASSUME NEW a \in Alarm, CallbackSets(a, list)
      PROVE  /\ alarm_list' \in Seq(Alarm)
             /\ recent' \in Nat \union {Off}
             /\ pc \in AlarmPcs => call.alarm.id \notin IdsOf(alarm_list')
             /\ Ordered(alarm_list) => Ordered(alarm_list')
             /\ broken' \in BOOLEAN
      <2>1. alarm_list' = Inserted(a, list) /\ AlarmUpdate(alarm_list')
        /\ a.id \notin IdsOf(list) /\ a.id # call.alarm.id
    BY <1>6 DEF CallbackSets
  <2>2. alarm_list' \in Seq(Alarm)
    BY <2>1, <1>2, InsertedSeq
  <2>3. recent' \in Nat \union {Off}
    BY <2>1, <2>2, UpdatedType DEF AlarmUpdate, TypeInv
  <2>4. IdsOf(alarm_list') \subseteq IdsOf(list) \union {a.id}
    BY <2>1, <1>2, InsertedIds
  <2>5. Ordered(list) => Ordered(alarm_list')
    BY <2>1, <1>2, InsertedOrdered
  <2> QED BY <2>1, <2>2, <2>3, <2>4, <2>5, <1>2, <1>3, <1>4
<1>7. ASSUME NEW a \in Alarm, CallbackRemoves(a, list)
      PROVE  /\ alarm_list' \in Seq(Alarm)
             /\ recent' \in Nat \union {Off}
             /\ pc \in AlarmPcs => call.alarm.id \notin IdsOf(alarm_list')
             /\ Ordered(alarm_list) => Ordered(alarm_list')
             /\ broken' \in BOOLEAN
      <2>1. alarm_list' = Without(a.id, list) /\ AlarmUpdate(alarm_list')
        /\ a.id \in IdsOf(list)
    BY <1>7 DEF CallbackRemoves, IdsOf
  <2>2. /\ alarm_list' \in Seq(Alarm)
        /\ IdsOf(alarm_list') \subseteq IdsOf(list)
        /\ Ordered(list) => Ordered(alarm_list')
    BY <2>1, <1>2, WithoutSeq
  <2>3. recent' \in Nat \union {Off}
    BY <2>1, <2>2, UpdatedType DEF AlarmUpdate, TypeInv
  <2> QED BY <2>1, <2>2, <2>3, <1>2, <1>3, <1>4
<1> QED BY <1>5, <1>6, <1>7 DEF Ring

LEMMA NextTypeInv ==
  ASSUME TypeInv, [Next]_vars
  PROVE  TypeInv'
<1> USE DEF TypeInv
<1>0. TypeOK /\ CallInv
  OBVIOUS
<1>1. CASE SetTime \/ SetRecent
  BY <1>1, <1>0
     DEF SetTime, SetRecent, ThreadStep, TypeOK, CallInv, Listed, AlarmPcs, SetPcs,
         times, timers
<1>2. CASE SetTimeBase
  BY <1>2, <1>0, TimesAssumption
     DEF SetTimeBase, ThreadStep, TypeOK, CallInv, Listed, AlarmPcs, SetPcs, timers
<1>3. CASE SetCount
  <2>1. Base * Second \in Nat
    BY TimesAssumption
  <2> QED
    BY <1>3, <1>0, <2>1
       DEF SetCount, ThreadStep, TypeOK, CallInv, Listed, AlarmPcs, SetPcs
<1>4. CASE SetResched
  <2>1. alarm_list' \in Seq(Alarm)
    BY <1>4, <1>0, TailSeq DEF SetResched, HeadIsDue, TypeOK
  <2> QED
    BY <1>4, <1>0, <2>1
       DEF SetResched, ThreadStep, TypeOK, CallInv, AlarmPcs, SetPcs, times, timers
<1>5. CASE SetUpdate
  <2>1. recent' \in Nat \union {Off}
    BY <1>5, <1>0, UpdatedType DEF SetUpdate, TypeOK
  <2> QED
    BY <1>5, <1>0, <2>1
       DEF SetUpdate, ThreadStep, TypeOK, CallInv, AlarmPcs, SetPcs, times
<1>6. ASSUME NEW a \in Alarm, SetAlarm(a)
      PROVE  TypeInv'
  <2>1. call' = [alarm |-> a, current |-> clock, count |-> 0]
    BY <1>6 DEF SetAlarm, NoCall
  <2> QED
    BY <1>6, <1>0, <2>1
       DEF SetAlarm, ThreadStep, TypeOK, CallInv, Listed, AlarmPcs, SetPcs, times, timers
<1>7. CASE AlarmCount
  <2>1. call' = [alarm |-> call.alarm, current |-> call.current, count |-> timer_count]
    BY <1>7, <1>0 DEF AlarmCount, TypeOK
  <2>2. pc = "alarm_count" /\ pc' = "alarm_base"
    BY <1>7 DEF AlarmCount, ThreadStep
  <2> QED
    BY <1>7, <1>0, <2>1, <2>2
       DEF AlarmCount, TypeOK, CallInv, Listed, AlarmPcs, SetPcs, times, timers
<1>8. CASE AlarmBase
  <2>1. pc = "alarm_base" /\ pc' \in {"idle", "alarm_insert"}
    BY <1>8 DEF AlarmBase, ThreadStep
  <2>2. \/ pc' = "idle" /\ call' = NoCall
        \/ call' = [alarm |-> call.alarm, current |-> 0, count |-> 0]
    BY <1>8 DEF AlarmBase, ThreadStep, NoCall
  <2> QED
    BY <1>8, <1>0, <2>1, <2>2
       DEF AlarmBase, TypeOK, CallInv, Listed, NoCall, AlarmPcs, SetPcs, times, timers
<1>9. CASE AlarmInsert
  <2>1. call.alarm \in Alarm /\ pc' = "idle"
    BY <1>9, <1>0 DEF AlarmInsert, ThreadStep, CallInv, AlarmPcs
  <2>2. alarm_list' \in Seq(Alarm)
    BY <1>9, <1>0, <2>1, InsertedSeq DEF AlarmInsert, TypeOK
  <2>3. recent' \in Nat \union {Off}
    BY <1>9, <1>0, <2>2, UpdatedType DEF AlarmInsert, AlarmUpdate
  <2>4. broken' \in BOOLEAN
    BY <1>9, UpdateBroken DEF AlarmInsert
  <2> QED
    BY <1>9, <1>0, <2>1, <2>2, <2>3, <2>4
       DEF AlarmInsert, TypeOK, CallInv, NoCall, AlarmPcs, SetPcs, times
<1>10. ASSUME NEW a \in Alarm, RemoveAlarm(a)
       PROVE  TypeInv'
  <2>1. call' = [alarm |-> a, current |-> 0, count |-> 0] /\ pc' = "remove"
    BY <1>10 DEF RemoveAlarm, NoCall, ThreadStep
  <2>2. CallInv'
    BY <2>1 DEF CallInv, AlarmPcs
  <2>3. UNCHANGED <<clock, busy, times, timers, alarm_list, isr, broken>>
    BY <1>10 DEF RemoveAlarm
  <2>4. call' \in [alarm: Alarm \union {NoAlarm}, current: Nat, count: Nat]
    BY <2>1
  <2> QED BY <1>0, <2>1, <2>2, <2>3, <2>4 DEF TypeOK, times, timers
<1>11. CASE RemoveLocked
  <2>1. pc' = "idle"
    BY <1>11 DEF RemoveLocked, ThreadStep
  <2>2. alarm_list' \in Seq(Alarm) /\ recent' \in Nat \union {Off}
        /\ broken' \in BOOLEAN
    <3>1. CASE Listed(call.alarm.id)
      <4>1. alarm_list' = Without(call.alarm.id, alarm_list)
            /\ AlarmUpdate(alarm_list')
        BY <1>11, <3>1 DEF RemoveLocked
      <4>2. alarm_list' \in Seq(Alarm)
        BY <4>1, <3>1, <1>0, WithoutSeq DEF TypeOK, Listed
      <4> QED BY <4>1, <4>2, <1>0, UpdatedType, UpdateBroken DEF AlarmUpdate
    <3>2. CASE ~Listed(call.alarm.id)
      BY <1>11, <3>2, <1>0 DEF RemoveLocked, TypeOK
    <3> QED BY <3>1, <3>2
  <2> QED
    BY <1>11, <1>0, <2>1, <2>2
       DEF RemoveLocked, TypeOK, CallInv, NoCall, AlarmPcs, SetPcs, times
<1>12. CASE BaseExpires
  <2>1. base \in Nat /\ base <= clock /\ Base * Second \in Nat
    BY <1>12, <1>0, TimesAssumption DEF BaseExpires, Expired, TypeOK
  <2>2. timer_count' = base /\ base' = base + Base * Second
        /\ time_base' = time_base + Base
    BY <1>12 DEF BaseExpires, CountAtBase, BaseAgain
  <2> QED
    BY <1>12, <1>0, <2>1, <2>2, TimesAssumption
       DEF BaseExpires, TypeOK, CallInv, Listed, AlarmPcs, SetPcs
<1>13. CASE RecentExpires
  BY <1>13, <1>0
     DEF RecentExpires, TypeOK, CallInv, Listed, AlarmPcs, SetPcs, times
<1>14. CASE Ring
  <2>1. /\ alarm_list' \in Seq(Alarm) /\ recent' \in Nat \union {Off}
        /\ pc \in AlarmPcs => call.alarm.id \notin IdsOf(alarm_list')
        /\ broken' \in BOOLEAN
    BY <1>14, <1>0, RingResult
  <2>2. CallInv'
    BY <1>14, <1>0, <2>1, CallInvKept DEF Ring
  <2> QED
    BY <1>14, <1>0, <2>1, <2>2 DEF Ring, TypeOK, SetPcs, AlarmPcs, times
<1>15. CASE IsrUpdate
  <2>1. recent' \in Nat \union {Off} /\ broken' \in BOOLEAN
    BY <1>15, <1>0, UpdatedType, UpdateBroken DEF IsrUpdate, AlarmUpdate, TypeOK
  <2> QED
    BY <1>15, <1>0, <2>1
       DEF IsrUpdate, TypeOK, CallInv, Listed, AlarmPcs, SetPcs, times
<1>16. CASE Tick
  <2>1. clock' \in 0 .. ClockLimit /\ clock' >= clock /\ busy' \in 0 .. Stall
    BY <1>16, <1>0, TimesAssumption DEF Tick, TypeOK
  <2> QED
    BY <1>16, <1>0, <2>1, TimesAssumption
       DEF Tick, TypeOK, CallInv, Listed, AlarmPcs, SetPcs, times, timers
<1>17. CASE UNCHANGED vars
  BY <1>17, <1>0
     DEF vars, TypeOK, CallInv, Listed, AlarmPcs, SetPcs, times, timers
<1> QED
  BY <1>1, <1>2, <1>3, <1>4, <1>5, <1>6, <1>7, <1>8, <1>9, <1>10, <1>11, <1>12,
     <1>13, <1>14, <1>15, <1>16, <1>17
     DEF Next, Call, Thread, Isr

(* The variables keep their types, whatever the callbacks do.              *)
THEOREM CalendarTypeOK == Spec => []TypeOK
<1>1. Spec => []TypeInv
  BY InitTypeInv, NextTypeInv, PTL DEF Spec
<1> QED BY <1>1, PTL DEF TypeInv

-----------------------------------------------------------------------------
(* The list.                                                               *)

LEMMA InitOrdered == Init => ListOrdered
<1>1. Init => DOMAIN alarm_list = {}
  BY DEF Init
<1> QED BY <1>1 DEF Init, ListOrdered, Ordered

LEMMA NextOrdered ==
  ASSUME TypeInv, ListOrdered, [Next]_vars
  PROVE  ListOrdered'
<1>0. Ordered(alarm_list) /\ alarm_list \in Seq(Alarm) /\ CallInv
  BY DEF ListOrdered, TypeInv, TypeOK
<1>1. ASSUME UNCHANGED alarm_list
      PROVE  ListOrdered'
  BY <1>0, <1>1 DEF ListOrdered
<1>2. CASE SetTime \/ SetRecent \/ SetTimeBase \/ SetCount \/ SetUpdate
  BY <1>1, <1>2 DEF SetTime, SetRecent, SetTimeBase, SetCount, SetUpdate
<1>3. CASE SetResched
  BY <1>0, <1>3, TailSeq DEF SetResched, HeadIsDue, ListOrdered
<1>4. CASE AlarmCount \/ AlarmBase \/ \E a \in Alarm : SetAlarm(a) \/ RemoveAlarm(a)
  BY <1>1, <1>4 DEF AlarmCount, AlarmBase, SetAlarm, RemoveAlarm
<1>5. CASE AlarmInsert
  <2>1. pc = "alarm_insert" /\ alarm_list' = Inserted(call.alarm, alarm_list)
    BY <1>5 DEF AlarmInsert, ThreadStep
  <2>2. call.alarm \in Alarm /\ call.alarm.id \notin IdsOf(alarm_list)
    BY <1>0, <2>1 DEF CallInv, AlarmPcs, Listed
  <2> QED BY <1>0, <2>1, <2>2, InsertedOrdered DEF ListOrdered
<1>6. CASE RemoveLocked
  <2>1. CASE Listed(call.alarm.id)
    <3>1. alarm_list' = Without(call.alarm.id, alarm_list)
      BY <1>6, <2>1 DEF RemoveLocked
    <3> QED BY <1>0, <2>1, <3>1, WithoutSeq DEF Listed, ListOrdered
  <2>2. CASE ~Listed(call.alarm.id)
    BY <1>1, <1>6, <2>2 DEF RemoveLocked
  <2> QED BY <2>1, <2>2
<1>7. CASE BaseExpires \/ RecentExpires \/ IsrUpdate \/ Tick
  BY <1>1, <1>7 DEF BaseExpires, RecentExpires, IsrUpdate, Tick
<1>8. CASE Ring
  BY <1>0, <1>8, RingResult DEF ListOrdered
<1>9. CASE UNCHANGED vars
  BY <1>1, <1>9 DEF vars
<1> QED
  BY <1>2, <1>3, <1>4, <1>5, <1>6, <1>7, <1>8, <1>9 DEF Next, Call, Thread, Isr

(* The alarms stay in the order of their times, each once, for any number  *)
(* of alarms and whatever the callbacks set and remove.                    *)
THEOREM CalendarListOrdered == Spec => []ListOrdered
<1>1. TypeInv /\ ListOrdered /\ [Next]_vars => ListOrdered'
  BY NextOrdered
<1>2. Spec => []TypeInv
  BY InitTypeInv, NextTypeInv, PTL DEF Spec
<1> QED BY InitOrdered, <1>1, <1>2, PTL DEF Spec

-----------------------------------------------------------------------------
(* The time.                                                               *)

TimesTyped == clock \in Nat /\ time_base \in Nat /\ timer_count \in Nat

BaseFollows == base # Off => base = timer_count + Base * Second

TimeInv == TimesTyped /\ BaseFollows

LEMMA InitTimeInv == Init => TimeInv
BY TimesAssumption DEF Init, TimeInv, TimesTyped, BaseFollows

(* The steps that leave the time and the base timer alone. *)
LEMMA TimeUntouched ==
  ASSUME TimeInv, UNCHANGED <<clock, times, base>>
  PROVE  TimeInv'
BY DEF TimeInv, TimesTyped, BaseFollows, times

LEMMA NextTimeInv ==
  ASSUME TimeInv, [Next]_vars
  PROVE  TimeInv'
<1>1. CASE SetTime
  BY <1>1 DEF SetTime, TimeInv, TimesTyped, BaseFollows, times
<1>2. CASE SetTimeBase
  BY <1>2, TimesAssumption
     DEF SetTimeBase, TimeInv, TimesTyped, BaseFollows, timers
<1>3. CASE SetCount
  BY <1>3, TimesAssumption DEF SetCount, TimeInv, TimesTyped, BaseFollows
<1>4. CASE BaseExpires
  <2>1. timer_count' = base /\ base = timer_count + Base * Second
    BY <1>4 DEF BaseExpires, Expired, CountAtBase, TimeInv, BaseFollows, TimesTyped
  <2>2. base' = base + Base * Second /\ clock' = clock /\ time_base' = time_base + Base
    BY <1>4 DEF BaseExpires, BaseAgain
  <2>3. Base * Second \in Nat
    BY TimesAssumption
  <2> QED BY <2>1, <2>2, <2>3, TimesAssumption DEF TimeInv, TimesTyped, BaseFollows
<1>5. CASE Tick
  BY <1>5 DEF Tick, TimeInv, TimesTyped, BaseFollows, times, timers
<1>6. ASSUME UNCHANGED <<clock, times, base>> PROVE TimeInv'
  BY <1>6, TimeUntouched
<1>7. CASE \E a \in Alarm : SetAlarm(a) \/ RemoveAlarm(a)
  BY <1>6, <1>7 DEF SetAlarm, RemoveAlarm, timers
<1>8. CASE SetRecent \/ SetResched \/ SetUpdate
  BY <1>6, <1>8 DEF SetRecent, SetResched, SetUpdate, timers
<1>9. CASE AlarmCount \/ AlarmBase \/ AlarmInsert \/ RemoveLocked
  BY <1>6, <1>9 DEF AlarmCount, AlarmBase, AlarmInsert, RemoveLocked, timers
<1>10. CASE RecentExpires \/ Ring \/ IsrUpdate
  BY <1>6, <1>10 DEF RecentExpires, Ring, IsrUpdate
<1>11. CASE UNCHANGED vars
  BY <1>6, <1>11 DEF vars, timers
<1> QED
  BY <1>1, <1>2, <1>3, <1>4, <1>5, <1>7, <1>8, <1>9, <1>10, <1>11
     DEF Next, Call, Thread, Isr

LEMMA SpecTimeInv == Spec => []TimeInv
BY InitTimeInv, NextTimeInv, PTL DEF Spec

-----------------------------------------------------------------------------
TimeKept == timer_count' - time_base' * Second = timer_count - time_base * Second

LEMMA StepKeepsTime ==
  ASSUME TimeInv, [Next]_vars, pc \notin SetPcs
  PROVE  TimeKept
<1>1. CASE BaseExpires
  <2>1. timer_count' = timer_count + Base * Second /\ time_base' = time_base + Base
    BY <1>1 DEF BaseExpires, Expired, CountAtBase, TimeInv, BaseFollows
  <2>2. time_base' * Second = time_base * Second + Base * Second
    BY <2>1, TimesAssumption DEF TimeInv, TimesTyped
  <2>3. time_base * Second \in Nat /\ Base * Second \in Nat /\ timer_count \in Nat
    BY TimesAssumption DEF TimeInv, TimesTyped
  <2> QED BY <2>1, <2>2, <2>3 DEF TimeKept
<1>2. ASSUME UNCHANGED times PROVE TimeKept
  BY <1>2 DEF times, TimeKept
<1>3. CASE SetTime \/ \E a \in Alarm : SetAlarm(a) \/ RemoveAlarm(a)
  BY <1>2, <1>3 DEF SetTime, SetAlarm, RemoveAlarm
<1>4. CASE SetRecent \/ SetTimeBase \/ SetCount \/ SetResched \/ SetUpdate
  BY <1>4 DEF SetRecent, SetTimeBase, SetCount, SetResched, SetUpdate,
              ThreadStep, SetPcs
<1>5. CASE AlarmCount \/ AlarmBase \/ AlarmInsert \/ RemoveLocked
  BY <1>2, <1>5 DEF AlarmCount, AlarmBase, AlarmInsert, RemoveLocked
<1>6. CASE RecentExpires \/ Ring \/ IsrUpdate \/ Tick
  BY <1>2, <1>6 DEF RecentExpires, Ring, IsrUpdate, Tick
<1>7. CASE UNCHANGED vars
  BY <1>2, <1>7 DEF vars
<1> QED
  BY <1>1, <1>3, <1>4, <1>5, <1>6, <1>7 DEF Next, Call, Thread, Isr

(* The calendar neither gains nor loses a tick except while                *)
(* sw_calendar_set_time sets it.                                           *)
THEOREM CalendarKeepsTime == Spec => KeepsTime
<1>1. TimeInv /\ [Next]_vars => [pc \notin SetPcs => TimeKept]_vars
  BY StepKeepsTime
<1>2. Spec => [][pc \notin SetPcs => TimeKept]_vars
  BY <1>1, SpecTimeInv, PTL DEF Spec
<1> QED BY <1>2 DEF KeepsTime, TimeKept

-----------------------------------------------------------------------------
(* No alarm rings, whichever timer has expired and whatever the callbacks  *)
(* before it have set, until the calendar is at its time: the first half   *)
(* of RingsInTime (alarm_resched).                                         *)
NeverEarly == [][Ring => clock >= DueAt(Head(alarm_list))]_vars

LEMMA ProductMonotonic ==
  ASSUME NEW m \in Int, NEW n \in Int, NEW k \in Nat, m <= n
  PROVE  m * k <= n * k
<1>1. (n - m) * k >= 0
  OBVIOUS
<1> QED BY <1>1

LEMMA DueWhenRung == TypeOK /\ Ring => clock >= DueAt(Head(alarm_list))
<1> SUFFICES ASSUME TypeOK, Ring PROVE clock >= DueAt(Head(alarm_list))
  OBVIOUS
<1> DEFINE target  == Head(alarm_list).target
           passed  == clock - timer_count
           seconds == passed \div Second
<1>1. target \in Nat /\ target <= Now
  <2>1. Head(alarm_list) \in Alarm
    BY TailSeq DEF TypeOK, Ring, HeadIsDue
  <2> QED BY <2>1, AlarmFields, NowNat DEF Ring, HeadIsDue
<1>2. passed \in Nat /\ Second \in Nat \ {0} /\ time_base \in Nat /\ timer_count \in Nat
  BY TimesAssumption DEF TypeOK
<1>3. seconds \in Nat /\ seconds * Second <= passed
  BY <1>2, SMTT(30)
<1>4. Now = seconds + time_base
  BY DEF Now, TimeOf, TypeOK
<1>5. target - time_base \in Int /\ target - time_base <= seconds
  BY <1>1, <1>2, <1>3, <1>4
<1> HIDE DEF target, seconds
<1>6. (target - time_base) * Second <= seconds * Second
  BY <1>2, <1>3, <1>5, ProductMonotonic
<1>7. DueAt(Head(alarm_list)) = timer_count + (target - time_base) * Second
  BY DEF DueAt, target
<1>8. (target - time_base) * Second \in Int /\ seconds * Second \in Int
  BY <1>2, <1>3, <1>5
<1>9. clock \in Nat
  BY DEF TypeOK
<1> QED BY <1>2, <1>3, <1>6, <1>7, <1>8, <1>9

(* For seconds of any length and interrupts at any time, no alarm is early. *)
THEOREM CalendarNeverEarly == Spec => NeverEarly
<1>1. TypeOK => (Ring => clock >= DueAt(Head(alarm_list)))
  BY DueWhenRung
<1>2. TypeOK /\ [Next]_vars => [Ring => clock >= DueAt(Head(alarm_list))]_vars
  BY <1>1
<1> QED BY <1>2, CalendarTypeOK, PTL DEF Spec, NeverEarly

-----------------------------------------------------------------------------
(* What the time in whole seconds says of the clock.                       *)

LEMMA Arithmetic ==
  TypeOK => /\ clock \in Nat /\ timer_count \in Nat /\ time_base \in Nat /\ Now \in Nat
            /\ Now >= time_base /\ Second \in Nat /\ Second > 0
            /\ \E q \in Nat : /\ Now = q + time_base
                              /\ timer_count + q * Second <= clock
                              /\ clock < timer_count + (q + 1) * Second
<1> SUFFICES ASSUME TypeOK
             PROVE  /\ clock \in Nat /\ timer_count \in Nat /\ time_base \in Nat /\ Now \in Nat
                    /\ Now >= time_base /\ Second \in Nat /\ Second > 0
                    /\ \E q \in Nat : /\ Now = q + time_base
                                      /\ timer_count + q * Second <= clock
                                      /\ clock < timer_count + (q + 1) * Second
  OBVIOUS
<1> DEFINE passed == clock - timer_count
           q == passed \div Second
<1>1. /\ passed \in Nat /\ Second \in Nat \ {0} /\ time_base \in Nat
      /\ timer_count \in Nat /\ clock \in Nat /\ clock >= timer_count
  BY TimesAssumption DEF TypeOK
<1>2. q \in Nat /\ q * Second <= passed /\ passed < (q + 1) * Second
  BY <1>1, SMTT(30)
<1>3. Now = q + time_base
  BY <1>1 DEF Now, TimeOf
<1> HIDE DEF q
<1>4. q * Second \in Nat /\ (q + 1) * Second \in Nat
  BY <1>1, <1>2, NatProduct
<1> QED BY <1>1, <1>2, <1>3, <1>4

LEMMA DueInt ==
  ASSUME TypeOK, NEW a \in Alarm
  PROVE  DueAt(a) \in Int
BY Arithmetic, AlarmFields DEF DueAt

LEMMA DueInOrder ==
  ASSUME TypeOK, NEW a \in Alarm, NEW b \in Alarm, a.target <= b.target
  PROVE  DueAt(a) <= DueAt(b)
<1> DEFINE x == a.target - time_base
           y == b.target - time_base
<1>1. x \in Int /\ y \in Int /\ x <= y /\ Second \in Nat /\ timer_count \in Nat
  BY Arithmetic, AlarmFields
<1> HIDE DEF x, y
<1>2. x * Second <= y * Second /\ x * Second \in Int /\ y * Second \in Int
  BY <1>1, ProductMonotonic
<1>3. DueAt(a) = timer_count + x * Second /\ DueAt(b) = timer_count + y * Second
  BY DEF DueAt, x, y
<1> QED BY <1>1, <1>2, <1>3

(* An alarm that is not due, one that is hardly late, and what the timer   *)
(* is set to for it.                                                       *)
LEMMA NotYetDue ==
  ASSUME TypeOK, NEW a \in Alarm, Now < a.target
  PROVE  clock < DueAt(a)
<1>1. PICK q \in Nat : Now = q + time_base /\ clock < timer_count + (q + 1) * Second
  BY Arithmetic
<1> DEFINE x == a.target - time_base
<1>2. x \in Int /\ q + 1 <= x /\ q + 1 \in Int /\ Second \in Nat /\ timer_count \in Nat
      /\ clock \in Nat
  BY <1>1, Arithmetic, AlarmFields
<1>3. DueAt(a) = timer_count + x * Second
  BY DEF DueAt
<1> HIDE DEF x
<1>4. (q + 1) * Second <= x * Second /\ x * Second \in Int /\ (q + 1) * Second \in Int
  BY <1>2, ProductMonotonic
<1> QED BY <1>1, <1>2, <1>3, <1>4

LEMMA HardlyLate ==
  ASSUME TypeOK, NEW a \in Alarm, clock < DueAt(a) + Second
  PROVE  Now <= a.target
<1>1. PICK q \in Nat : Now = q + time_base /\ timer_count + q * Second <= clock
  BY Arithmetic
<1> DEFINE x == a.target - time_base
<1>2. x \in Int /\ Second \in Nat /\ timer_count \in Nat /\ clock \in Nat
      /\ time_base \in Nat /\ Now \in Nat /\ a.target \in Nat
  BY Arithmetic, AlarmFields
<1>3. DueAt(a) = timer_count + x * Second
  BY DEF DueAt
<1>4. a.target = x + time_base
  BY <1>2
<1> HIDE DEF x
<1>5. SUFFICES ASSUME x + 1 <= q PROVE FALSE
  BY <1>1, <1>2, <1>4
<1>6. (x + 1) * Second <= q * Second
  BY <1>2, <1>5, ProductMonotonic
<1>7. (x + 1) * Second = x * Second + Second /\ x * Second \in Int /\ q * Second \in Int
  BY <1>2
<1> QED BY <1>1, <1>2, <1>3, <1>6, <1>7

LEMMA SetNear ==
  ASSUME TypeOK, NEW a \in Alarm, Now <= a.target
  PROVE  /\ clock + (a.target - Now) * Second \in Nat
         /\ clock + (a.target - Now) * Second < DueAt(a) + Second
<1>1. PICK q \in Nat : Now = q + time_base /\ clock < timer_count + (q + 1) * Second
  BY Arithmetic
<1> DEFINE x == a.target - time_base
           y == a.target - Now
<1>2. x \in Int /\ y \in Nat /\ y = x - q /\ Second \in Nat /\ timer_count \in Nat /\ clock \in Nat
  BY <1>1, Arithmetic, AlarmFields
<1>3. DueAt(a) = timer_count + x * Second
  BY DEF DueAt
<1> HIDE DEF x, y
<1>4. y * Second = x * Second - q * Second /\ (q + 1) * Second = q * Second + Second
      /\ x * Second \in Int /\ q * Second \in Int
  BY <1>2
<1>5. y * Second \in Nat
  BY <1>2, NatProduct
<1>6. clock + y * Second \in Nat /\ clock + y * Second < DueAt(a) + Second
  BY <1>1, <1>2, <1>3, <1>4, <1>5
<1> QED BY <1>6 DEF y

(* While the time is not set, an alarm stays due when it was.              *)
LEMMA DueStays ==
  ASSUME TypeOK, TypeOK', TimeKept, NEW a \in Alarm
  PROVE  DueAt(a)' = DueAt(a)
<1>1. timer_count \in Int /\ time_base \in Int /\ timer_count' \in Int /\ time_base' \in Int
  BY DEF TypeOK
<1>2. Second \in Nat /\ a.target \in Nat
  BY TimesAssumption, AlarmFields
<1>3. DueAt(a) = timer_count + (a.target - time_base) * Second
      /\ DueAt(a)' = timer_count' + (a.target - time_base') * Second
  BY DEF DueAt
<1>4. (a.target - time_base) * Second = a.target * Second - time_base * Second
      /\ (a.target - time_base') * Second = a.target * Second - time_base' * Second
  BY <1>1, <1>2
<1>5. a.target * Second \in Int /\ time_base * Second \in Int /\ time_base' * Second \in Int
  BY <1>1, <1>2
<1> QED BY <1>1, <1>3, <1>4, <1>5 DEF TimeKept

-----------------------------------------------------------------------------
(* The alarms in a list that was changed, and the first of them.           *)

LEMMA InsertedRange ==
  ASSUME NEW a \in Alarm, NEW list \in Seq(Alarm)
  PROVE  Range(Inserted(a, list)) \subseteq Range(list) \union {a}
<1> DEFINE new == Inserted(a, list)
<1>1. Len(list) \in Nat /\ DOMAIN list = 1 .. Len(list) /\ DOMAIN new = 1 .. Len(list) + 1
  BY LenProperties, InsertedShape
<1>2. ASSUME NEW i \in 1 .. Len(list) + 1
      PROVE  new[i] \in Range(list) \union {a}
  <2>1. CASE i \in UpToEarlier(a, list)
    BY <2>1, <1>1, InsertedShape DEF UpToEarlier, Range
  <2>2. CASE i \notin UpToEarlier(a, list) /\ (i = 1 \/ i - 1 \in UpToEarlier(a, list))
    BY <2>2, InsertedShape
  <2>3. CASE i \notin UpToEarlier(a, list) /\ i # 1 /\ i - 1 \notin UpToEarlier(a, list)
    <3>1. i - 1 \in 1 .. Len(list)
      BY <2>3, <1>1
    <3> QED BY <2>3, <3>1, <1>1, InsertedShape DEF Range
  <2> QED BY <2>1, <2>2, <2>3
<1> QED BY <1>1, <1>2 DEF Range

LEMMA WithoutRange ==
  ASSUME NEW id, NEW list \in Seq(Alarm), id \in IdsOf(list)
  PROVE  Range(Without(id, list)) \subseteq Range(list)
<1>1. /\ Len(list) \in Nat \ {0} /\ DOMAIN list = 1 .. Len(list)
      /\ DOMAIN Without(id, list) = 1 .. Len(list) - 1
      /\ \A i \in 1 .. Len(list) - 1 : Without(id, list)[i] \in {list[i], list[i + 1]}
  BY WithoutShape
<1>2. \A i \in 1 .. Len(list) - 1 : i \in 1 .. Len(list) /\ i + 1 \in 1 .. Len(list)
  BY <1>1
<1> QED BY <1>1, <1>2 DEF Range

LEMMA TailRange ==
  ASSUME NEW list \in Seq(Alarm), list # <<>>
  PROVE  Range(Tail(list)) \subseteq Range(list)
<1>1. /\ Tail(list) \in Seq(Alarm) /\ Len(Tail(list)) = Len(list) - 1
      /\ \A i \in 1 .. Len(Tail(list)) : Tail(list)[i] = list[i + 1]
  BY HeadTailProperties
<1>2. Len(list) \in Nat /\ DOMAIN list = 1 .. Len(list)
      /\ DOMAIN Tail(list) = 1 .. Len(Tail(list))
  BY <1>1, LenProperties
<1>3. \A i \in 1 .. Len(Tail(list)) : i + 1 \in 1 .. Len(list)
  BY <1>1, <1>2
<1> QED BY <1>1, <1>2, <1>3 DEF Range

LEMMA HeadLeast ==
  ASSUME NEW list \in Seq(Alarm), list # <<>>
  PROVE  /\ Head(list) \in Alarm /\ Head(list) \in Range(list)
         /\ Range(list) \subseteq Alarm
         /\ Ordered(list) => \A a \in Range(list) : Head(list).target <= a.target
<1>1. Head(list) = list[1] /\ Len(list) \in Nat /\ Len(list) # 0 /\ DOMAIN list = 1 .. Len(list)
      /\ 1 \in 1 .. Len(list) /\ Head(list) \in Alarm
  BY HeadTailProperties, LenProperties, TailSeq
<1>2. Range(list) \subseteq Alarm
  BY <1>1, ElementOfSeq DEF Range
<1>3. ASSUME Ordered(list), NEW a \in Range(list) PROVE Head(list).target <= a.target
  <2>1. PICK i \in 1 .. Len(list) : list[i] = a
    BY <1>1 DEF Range
  <2>2. CASE i = 1
    <3>1. a = Head(list) /\ a.target \in Nat
      BY <1>1, <2>1, <2>2, AlarmFields
    <3> QED BY <3>1
  <2>3. CASE i # 1
    <3>1. 1 < i
      BY <1>1, <2>3
    <3> QED BY <1>1, <1>3, <2>1, <3>1 DEF Ordered
  <2> QED BY <2>2, <2>3
<1> QED BY <1>1, <1>2, <1>3 DEF Range

LEMMA RingRange ==
  ASSUME TypeInv, Ring, NEW a \in Range(alarm_list')
  PROVE  a \in Range(alarm_list) \/ (a \in Alarm /\ Now < a.target)
<1> DEFINE list == Tail(alarm_list)
<1>1. alarm_list \in Seq(Alarm) /\ alarm_list # <<>>
  BY DEF Ring, HeadIsDue, TypeInv, TypeOK
<1>2. list \in Seq(Alarm) /\ Range(list) \subseteq Range(alarm_list)
  BY <1>1, TailSeq, TailRange
<1>3. CASE CallbackIdles(list)
  BY <1>2, <1>3 DEF CallbackIdles
<1>4. ASSUME NEW b \in Alarm, CallbackSets(b, list)
      PROVE  a \in Range(alarm_list) \/ (a \in Alarm /\ Now < a.target)
  <2>1. Range(alarm_list') \subseteq Range(list) \union {b}
    BY <1>2, <1>4, InsertedRange DEF CallbackSets
  <2>2. Now < b.target
    BY <1>4, NowNat, AlarmFields DEF CallbackSets, TypeInv
  <2> QED BY <1>2, <2>1, <2>2
<1>5. ASSUME NEW b \in Alarm, CallbackRemoves(b, list)
      PROVE  a \in Range(alarm_list)
  <2>1. Range(alarm_list') \subseteq Range(list)
    BY <1>2, <1>5, WithoutRange DEF CallbackRemoves, IdsOf
  <2> QED BY <1>2, <2>1
<1> QED BY <1>3, <1>4, <1>5 DEF Ring

-----------------------------------------------------------------------------
(* What recent_alarm_timer is set to.                                      *)

Rings(list, timer) ==
  \A a \in Range(list) : a.target < time_base + Base =>
                           timer # Off /\ timer < DueAt(a) + Second

LEMMA UpdateArms ==
  ASSUME TypeOK, NEW list \in Seq(Alarm), Ordered(list),
         \/ list = <<>>
         \/ clock < DueAt(Head(list)) + Second
         \/ /\ Head(list).target < time_base + Base
            => recent # Off /\ recent < DueAt(Head(list)) + Second
  PROVE  Rings(list, Updated(list))
<1>1. SUFFICES ASSUME NEW a \in Range(list), a.target < time_base + Base
               PROVE  Updated(list) # Off /\ Updated(list) < DueAt(a) + Second
  BY DEF Rings
<1>2. list # <<>>
  <2>1. DOMAIN <<>> = {}
    OBVIOUS
  <2> QED BY <2>1, <1>1 DEF Range
<1> DEFINE h == Head(list)
<1>3. h \in Alarm /\ a \in Alarm /\ h.target <= a.target
  BY <1>2, HeadLeast
<1>4. h.target \in Nat /\ a.target \in Nat /\ Base \in Nat /\ time_base \in Nat /\ Now \in Nat
      /\ Now >= time_base /\ clock \in Nat /\ Second \in Nat /\ recent \in Int
  BY <1>3, Arithmetic, AlarmFields, TimesAssumption DEF TypeOK, Off
<1>5. DueAt(h) <= DueAt(a) /\ DueAt(h) \in Int /\ DueAt(a) \in Int
  BY <1>3, DueInOrder, DueInt
<1>6. h.target < time_base + Base
  BY <1>1, <1>3, <1>4
<1>7. CASE Near(h)
  <2>1. Updated(list) = clock + (h.target - Now) * Second
    BY <1>2, <1>7 DEF Updated
  <2>2. Now <= h.target
    BY <1>4, <1>7, TimesAssumption DEF Near
  <2>3. Updated(list) \in Nat /\ Updated(list) < DueAt(h) + Second
    BY <1>3, <2>1, <2>2, SetNear
  <2> QED BY <1>4, <1>5, <2>3 DEF Off
<1>8. CASE ~Near(h)
  <2>1. Updated(list) = recent
    BY <1>2, <1>8 DEF Updated
  <2>2. ~(Now <= h.target)
    BY <1>4, <1>6, <1>8, TimesAssumption DEF Near
  <2>3. ~(clock < DueAt(h) + Second)
    BY <1>3, <2>2, HardlyLate
  <2>4. recent # Off /\ recent < DueAt(h) + Second
    BY <1>2, <1>6, <2>3
  <2> QED BY <1>4, <1>5, <2>1, <2>4
<1> QED BY <1>7, <1>8

(* What the thread has read is not older than the moment at which there    *)
(* was last nothing to do, and no base timer that runs between its steps   *)
(* takes the time it reckons with ahead of the clock.                      *)
ReadInv ==
  /\ pc \in {"alarm_count", "alarm_base"} => clock - busy <= call.current
  /\ pc = "alarm_base" => call.count <= timer_count
  /\ pc = "alarm_insert" => clock - busy < DueAt(call.alarm)
  /\ pc = "set_update" => \A a \in Range(alarm_list) : clock - busy < DueAt(a)

ArmedInv == ReadInv /\ Armed

LEMMA InitArmedInv == Init => ArmedInv
<1>1. Init => Range(alarm_list) = {}
  BY DEF Init, Range
<1> QED BY <1>1 DEF Init, ArmedInv, ReadInv, Armed

(* The steps that leave the clock and what rings alone.                    *)
LEMMA ArmedUntouched ==
  ASSUME Armed, UNCHANGED <<times, alarm_list, recent>>,
         pc' \notin SetPcs /\ isr' = "none" => pc \notin SetPcs /\ isr = "none"
  PROVE  Armed'
BY DEF Armed, DueAt, times

(* The time the thread reckons with is not past that of the clock it read. *)
LEMMA ReckonedTime ==
  ASSUME TypeInv, ReadInv, AlarmBase, pc' = "alarm_insert"
  PROVE  clock - busy < DueAt(call.alarm)
<1> DEFINE target == call.alarm.target
           x == target - time_base
<1>1. pc = "alarm_base" /\ call.alarm \in Alarm
  BY DEF AlarmBase, ThreadStep, TypeInv, CallInv, AlarmPcs
<1>2. ~(target <= TimeOf(call.current, call.count, time_base))
  BY DEF AlarmBase, ThreadStep
<1>3. call.current \in Nat /\ call.count \in Nat /\ call.count <= timer_count
      /\ clock - busy <= call.current
  BY <1>1 DEF TypeInv, TypeOK, ReadInv
<1>4. target \in Nat /\ target <= Beyond
  BY <1>1, AlarmFields, BeyondAssumption DEF Alarm
<1>5. /\ clock \in Nat /\ timer_count \in Nat /\ time_base \in Nat /\ busy \in Nat
      /\ Second \in Nat /\ Second > 0
  BY Arithmetic DEF TypeInv, TypeOK
<1>6. call.current >= call.count
  BY <1>2, <1>3, <1>4 DEF TimeOf
<1> DEFINE passed == call.current - call.count
           q == passed \div Second
<1>7. passed \in Nat
  BY <1>3, <1>6
<1>8. q \in Nat /\ passed < (q + 1) * Second
  <2> HIDE DEF passed
  <2> QED BY <1>5, <1>7, SMTT(30)
<1>9. ~(target <= q + time_base)
  BY <1>2, <1>6 DEF TimeOf
<1>10. DueAt(call.alarm) = timer_count + x * Second
  BY DEF DueAt
<1>11. q + 1 \in Int /\ x \in Int /\ q + 1 <= x
  <2> HIDE DEF q
  <2> QED BY <1>4, <1>5, <1>8, <1>9
<1> HIDE DEF q, x
<1>12. (q + 1) * Second <= x * Second /\ x * Second \in Int /\ (q + 1) * Second \in Int
  BY <1>5, <1>11, ProductMonotonic
<1> QED BY <1>3, <1>5, <1>8, <1>10, <1>12

(* Between quiet moments the clock goes on by as much as busy.             *)
LEMMA BusyTick ==
  ASSUME TypeOK, Tick, ~Quiet
  PROVE  clock' - busy' = clock - busy
BY DEF Tick, TypeOK

LEMMA BaseExpiresKeepsTime ==
  ASSUME TimeInv, BaseExpires
  PROVE  TimeKept /\ timer_count' >= timer_count
<1>1. timer_count' = timer_count + Base * Second /\ time_base' = time_base + Base
  BY DEF BaseExpires, Expired, CountAtBase, TimeInv, BaseFollows
<1>2. time_base' * Second = time_base * Second + Base * Second
  BY <1>1, TimesAssumption DEF TimeInv, TimesTyped
<1>3. time_base * Second \in Nat /\ Base * Second \in Nat /\ timer_count \in Nat
  BY TimesAssumption DEF TimeInv, TimesTyped
<1> QED BY <1>1, <1>2, <1>3 DEF TimeKept

(* The steps of the timers' interrupt, and of the clock within a call,     *)
(* between two steps of the thread.                                        *)
LEMMA ReadUndisturbed ==
  ASSUME TypeInv, TypeOK', TimeInv, ReadInv, Isr \/ Tick \/ UNCHANGED vars
  PROVE  ReadInv'
<1>0. TypeOK
  BY DEF TypeInv
<1>1. CASE pc \notin {"alarm_count", "alarm_base", "alarm_insert", "set_update"}
  BY <1>1 DEF ReadInv, Isr, BaseExpires, RecentExpires, Ring, IsrUpdate, Tick, vars
<1>2. CASE pc \in {"alarm_count", "alarm_base", "alarm_insert", "set_update"}
  <2>1. pc' = pc /\ call' = call
    BY DEF Isr, BaseExpires, RecentExpires, Ring, IsrUpdate, Tick, vars
  <2>2. clock' - busy' = clock - busy
    <3>1. ~Quiet
      BY <1>2 DEF Quiet
    <3>2. CASE Tick
      BY <1>0, <3>1, <3>2, BusyTick
    <3>3. CASE Isr \/ UNCHANGED vars
      BY <3>3 DEF Isr, BaseExpires, RecentExpires, Ring, IsrUpdate, vars
    <3> QED BY <3>2, <3>3
  <2>3. TimeKept /\ timer_count' >= timer_count
    <3>1. CASE BaseExpires
      BY <3>1, BaseExpiresKeepsTime
    <3>2. CASE ~BaseExpires
      <4>1. UNCHANGED times
        BY <3>2 DEF Isr, RecentExpires, Ring, IsrUpdate, Tick, vars
      <4> QED BY <4>1 DEF times, TimeKept, TimeInv, TimesTyped
    <3> QED BY <3>1, <3>2
  <2>4. \A a \in Alarm : DueAt(a)' = DueAt(a)
    BY <1>0, <2>3, DueStays
  <2>5. pc = "alarm_base" => call'.count <= timer_count'
    <3>1. call.count \in Nat /\ timer_count \in Nat /\ timer_count' \in Nat
      BY DEF TypeInv, TypeOK
    <3> QED BY <2>1, <2>3, <3>1 DEF ReadInv
  <2>6. pc = "alarm_insert" => clock' - busy' < DueAt(call.alarm)'
    <3>1. pc = "alarm_insert" => call.alarm \in Alarm
      BY DEF TypeInv, CallInv, AlarmPcs
    <3>2. ASSUME NEW a \in Alarm, a = call.alarm PROVE DueAt(call.alarm)' = DueAt(a)
      <4>1. call'.alarm = a
        BY <2>1, <3>2
      <4>2. DueAt(call.alarm)' = DueAt(a)'
        BY <4>1 DEF DueAt
      <4> QED BY <2>4, <4>2
    <3> QED BY <2>2, <3>1, <3>2 DEF ReadInv
  <2>7. ASSUME pc = "set_update", NEW a \in Range(alarm_list')
        PROVE  clock' - busy' < DueAt(a)'
    <3>1. a \in Range(alarm_list) \/ (a \in Alarm /\ Now < a.target)
      <4>1. CASE Ring
        BY <2>7, <4>1, RingRange
      <4>2. CASE ~Ring
        <5>1. alarm_list' = alarm_list
          BY <4>2 DEF Isr, BaseExpires, RecentExpires, IsrUpdate, Tick, vars
        <5> QED BY <2>7, <5>1
      <4> QED BY <4>1, <4>2
    <3>2. CASE a \in Range(alarm_list)
      <4>1. a \in Alarm
        <5>1. alarm_list \in Seq(Alarm) /\ alarm_list # <<>>
          <6>1. DOMAIN <<>> = {}
            OBVIOUS
          <6> QED BY <1>0, <3>2, <6>1 DEF TypeOK, Range
        <5> QED BY <3>2, <5>1, HeadLeast
      <4> QED BY <2>2, <2>4, <2>7, <3>2, <4>1 DEF ReadInv
    <3>3. CASE a \in Alarm /\ Now < a.target
      <4>1. clock < DueAt(a) /\ DueAt(a) \in Int /\ clock \in Nat /\ busy \in Nat
        BY <1>0, <3>3, NotYetDue, DueInt DEF TypeOK
      <4> QED BY <2>2, <2>4, <3>3, <4>1
    <3> QED BY <3>1, <3>2, <3>3
  <2> QED BY <2>1, <2>2, <2>5, <2>6, <2>7 DEF ReadInv
<1> QED BY <1>1, <1>2

(* The thread's own steps.                                                 *)
LEMMA ReadStep ==
  ASSUME TypeInv, TypeOK', ReadInv, Ordered(alarm_list), Call \/ Thread
  PROVE  ReadInv'
<1>0. TypeOK /\ clock \in Nat /\ busy \in Nat
  BY DEF TypeInv, TypeOK
<1>1. CASE SetTime \/ SetRecent \/ SetTimeBase \/ SetCount
  BY <1>1 DEF SetTime, SetRecent, SetTimeBase, SetCount, ThreadStep, ReadInv
<1>2. CASE SetResched
  <2>1. CASE HeadIsDue
    BY <1>2, <2>1 DEF SetResched, ThreadStep, ReadInv
  <2>2. CASE ~HeadIsDue
    <3>1. /\ pc' = "set_update" /\ alarm_list' = alarm_list
          /\ UNCHANGED <<clock, busy, time_base, timer_count>>
      BY <1>2, <2>2 DEF SetResched, ThreadStep, times
    <3>2. ASSUME NEW a \in Range(alarm_list) PROVE clock - busy < DueAt(a)
      <4>1. alarm_list \in Seq(Alarm) /\ alarm_list # <<>>
        <5>1. DOMAIN <<>> = {}
          OBVIOUS
        <5> QED BY <1>0, <3>2, <5>1 DEF TypeOK, Range
      <4>2. a \in Alarm /\ Head(alarm_list) \in Alarm /\ Head(alarm_list).target <= a.target
        BY <3>2, <4>1, HeadLeast
      <4>3. Now < a.target
        <5>1. ~(Now >= Head(alarm_list).target)
          BY <2>2, <4>1 DEF HeadIsDue
        <5>2. Now \in Nat /\ a.target \in Nat /\ Head(alarm_list).target \in Nat
          BY <1>0, <4>2, NowNat, AlarmFields
        <5> QED BY <4>2, <5>1, <5>2
      <4>4. clock < DueAt(a) /\ DueAt(a) \in Int
        BY <1>0, <4>2, <4>3, NotYetDue, DueInt
      <4> QED BY <1>0, <4>4
    <3> QED BY <3>1, <3>2 DEF ReadInv, DueAt
  <2> QED BY <2>1, <2>2
<1>3. CASE SetUpdate \/ AlarmInsert \/ RemoveLocked
  BY <1>3 DEF SetUpdate, AlarmInsert, RemoveLocked, ThreadStep, ReadInv
<1>4. ASSUME NEW a \in Alarm, SetAlarm(a) PROVE ReadInv'
  <2>1. call' = [alarm |-> a, current |-> clock, count |-> 0] /\ pc' = "alarm_count"
        /\ UNCHANGED <<clock, busy>>
    BY <1>4 DEF SetAlarm, ThreadStep, NoCall
  <2>2. call'.current = clock /\ clock' - busy' <= clock
    BY <1>0, <2>1
  <2> QED BY <2>1, <2>2 DEF ReadInv
<1>5. CASE AlarmCount
  <2>1. call' = [alarm |-> call.alarm, current |-> call.current, count |-> timer_count]
    BY <1>5, <1>0 DEF AlarmCount, TypeOK
  <2>2. pc = "alarm_count" /\ pc' = "alarm_base" /\ UNCHANGED <<clock, busy, timer_count>>
    BY <1>5 DEF AlarmCount, ThreadStep, times
  <2>3. call'.current = call.current /\ call'.count = timer_count
    BY <2>1
  <2>4. timer_count \in Nat
    BY <1>0 DEF TypeOK
  <2> QED BY <2>2, <2>3, <2>4 DEF ReadInv
<1>6. CASE AlarmBase
  <2>1. pc' \in {"idle", "alarm_insert"} /\ UNCHANGED <<clock, busy, times>>
    BY <1>6 DEF AlarmBase, ThreadStep
  <2>2. CASE pc' = "idle"
    BY <2>2 DEF ReadInv
  <2>3. CASE pc' = "alarm_insert"
    <3>1. call' = [alarm |-> call.alarm, current |-> 0, count |-> 0]
      BY <1>6, <2>3 DEF AlarmBase, ThreadStep, NoCall
    <3>2. clock - busy < DueAt(call.alarm)
      BY <1>6, <2>3, ReckonedTime
    <3>3. DueAt(call.alarm)' = DueAt(call.alarm)
      <4>1. call'.alarm = call.alarm
        BY <3>1
      <4> QED BY <2>1, <4>1 DEF DueAt, times
    <3> QED BY <2>1, <2>3, <3>2, <3>3 DEF ReadInv
  <2> QED BY <2>1, <2>2, <2>3
<1>7. ASSUME NEW a \in Alarm, RemoveAlarm(a) PROVE ReadInv'
  BY <1>7 DEF RemoveAlarm, ThreadStep, ReadInv
<1> QED BY <1>1, <1>2, <1>3, <1>4, <1>5, <1>6, <1>7 DEF Call, Thread

-----------------------------------------------------------------------------
(* alarm_update for the list that a call has changed.                      *)
LEMMA ChangedArms ==
  ASSUME TypeInv, Armed, Stall <= Second, pc \notin SetPcs, isr = "none",
         NEW list \in Seq(Alarm), Ordered(list), recent' = Updated(list),
         alarm_list' = list, UNCHANGED times,
         \A a \in Range(list) : a \in Range(alarm_list) \/ clock - busy < DueAt(a)
  PROVE  Armed'
<1>0. TypeOK
  BY DEF TypeInv
<1>1. CASE list = <<>>
  <2>1. Rings(list, Updated(list))
    BY <1>0, <1>1, UpdateArms
  <2> QED BY <2>1 DEF Armed, Rings, DueAt, times
<1>2. CASE list # <<>>
  <2> DEFINE h == Head(list)
  <2>1. h \in Range(list) /\ h \in Alarm
    BY <1>2, HeadLeast
  <2>2. CASE h \in Range(alarm_list)
    <3>1. h.target < time_base + Base => recent # Off /\ recent < DueAt(h) + Second
      BY <2>2 DEF Armed
    <3>2. Rings(list, Updated(list))
      BY <1>0, <3>1, UpdateArms
    <3> QED BY <3>2 DEF Armed, Rings, DueAt, times
  <2>3. CASE clock - busy < DueAt(h)
    <3>1. clock < DueAt(h) + Second
      <4>1. clock \in Nat /\ busy \in Nat /\ busy <= Stall /\ DueAt(h) \in Int
            /\ Second \in Nat /\ Stall \in Nat
        BY <1>0, <2>1, DueInt, TimesAssumption DEF TypeOK
      <4> QED BY <2>3, <4>1
    <3>2. Rings(list, Updated(list))
      BY <1>0, <3>1, UpdateArms
    <3> QED BY <3>2 DEF Armed, Rings, DueAt, times
  <2> QED BY <2>1, <2>2, <2>3
<1> QED BY <1>1, <1>2

LEMMA NextArmedInv ==
  ASSUME Stall <= Second,
         TypeInv, TypeInv', TimeInv, ListOrdered, ListOrdered', ArmedInv, [Next]_vars
  PROVE  ArmedInv'
<1>0. /\ TypeOK /\ TypeOK' /\ alarm_list \in Seq(Alarm) /\ alarm_list' \in Seq(Alarm)
      /\ Ordered(alarm_list) /\ Ordered(alarm_list') /\ ReadInv /\ Armed
  BY DEF TypeInv, TypeOK, ListOrdered, ArmedInv
<1>1. ReadInv'
  BY <1>0, ReadStep, ReadUndisturbed DEF Next
<1>2. CASE SetTime \/ SetRecent \/ SetTimeBase \/ SetCount \/ SetResched
  BY <1>1, <1>2
     DEF SetTime, SetRecent, SetTimeBase, SetCount, SetResched, ThreadStep, SetPcs,
         ArmedInv, Armed
<1>3. CASE AlarmCount \/ AlarmBase \/ Tick \/ UNCHANGED vars
           \/ \E a \in Alarm : SetAlarm(a) \/ RemoveAlarm(a)
  <2>1. UNCHANGED <<times, alarm_list, recent, isr>>
        /\ (pc' \notin SetPcs => pc \notin SetPcs)
    BY <1>3 DEF AlarmCount, AlarmBase, Tick, SetAlarm, RemoveAlarm, ThreadStep, SetPcs,
                vars, timers
  <2> QED BY <1>0, <1>1, <2>1, ArmedUntouched DEF ArmedInv
<1>4. CASE BaseExpires \/ RecentExpires \/ Ring
  <2>1. isr' # "none"
    BY <1>4 DEF BaseExpires, RecentExpires, Ring
  <2> QED BY <1>1, <2>1 DEF ArmedInv, Armed
<1>5. CASE SetUpdate
  <2>1. /\ pc = "set_update" /\ recent' = Updated(alarm_list) /\ UNCHANGED <<times, alarm_list>>
    BY <1>5 DEF SetUpdate, ThreadStep
  <2>2. alarm_list = <<>> \/ clock < DueAt(Head(alarm_list)) + Second
    <3>1. SUFFICES ASSUME alarm_list # <<>> PROVE clock < DueAt(Head(alarm_list)) + Second
      OBVIOUS
    <3>2. Head(alarm_list) \in Alarm /\ Head(alarm_list) \in Range(alarm_list)
      BY <1>0, <3>1, HeadLeast
    <3>3. clock - busy < DueAt(Head(alarm_list))
      BY <1>0, <2>1, <3>2 DEF ReadInv
    <3>4. clock \in Nat /\ busy \in Nat /\ busy <= Stall /\ DueAt(Head(alarm_list)) \in Int
          /\ Second \in Nat /\ Stall \in Nat
      BY <1>0, <3>2, DueInt, TimesAssumption DEF TypeOK
    <3> QED BY <3>3, <3>4
  <2>3. Rings(alarm_list, Updated(alarm_list))
    BY <1>0, <2>2, UpdateArms
  <2> QED BY <1>1, <2>1, <2>3 DEF ArmedInv, Armed, Rings, DueAt, times
<1>6. CASE IsrUpdate
  <2>1. /\ ~HeadIsDue /\ recent' = Updated(alarm_list) /\ UNCHANGED <<times, alarm_list>>
    BY <1>6 DEF IsrUpdate, AlarmUpdate
  <2>2. alarm_list = <<>> \/ clock < DueAt(Head(alarm_list)) + Second
    <3>1. SUFFICES ASSUME alarm_list # <<>> PROVE clock < DueAt(Head(alarm_list)) + Second
      OBVIOUS
    <3>2. Head(alarm_list) \in Alarm
      BY <1>0, <3>1, HeadLeast
    <3>3. Now < Head(alarm_list).target
      <4>1. ~(Now >= Head(alarm_list).target)
        BY <2>1, <3>1 DEF HeadIsDue
      <4>2. Now \in Nat /\ Head(alarm_list).target \in Nat
        BY <1>0, <3>2, NowNat, AlarmFields
      <4> QED BY <4>1, <4>2
    <3>4. clock < DueAt(Head(alarm_list)) /\ DueAt(Head(alarm_list)) \in Int /\ clock \in Nat
          /\ Second \in Nat
      BY <1>0, <3>2, <3>3, NotYetDue, DueInt, TimesAssumption DEF TypeOK
    <3> QED BY <3>4
  <2>3. Rings(alarm_list, Updated(alarm_list))
    BY <1>0, <2>2, UpdateArms
  <2> QED BY <1>1, <2>1, <2>3 DEF ArmedInv, Armed, Rings, DueAt, times
<1>7. CASE AlarmInsert
  <2>1. /\ pc = "alarm_insert" /\ isr = "none" /\ alarm_list' = Inserted(call.alarm, alarm_list)
        /\ recent' = Updated(alarm_list') /\ UNCHANGED times
    BY <1>7 DEF AlarmInsert, AlarmUpdate, ThreadStep
  <2>2. call.alarm \in Alarm
    BY <2>1 DEF TypeInv, CallInv, AlarmPcs
  <2>3. \A a \in Range(alarm_list') : a \in Range(alarm_list) \/ clock - busy < DueAt(a)
    BY <1>0, <2>1, <2>2, InsertedRange DEF ReadInv
  <2> QED BY <1>0, <1>1, <2>1, <2>3, ChangedArms DEF ArmedInv, SetPcs
<1>8. CASE RemoveLocked
  <2>1. pc = "remove" /\ isr = "none" /\ UNCHANGED times
    BY <1>8 DEF RemoveLocked, ThreadStep
  <2>2. CASE Listed(call.alarm.id)
    <3>1. alarm_list' = Without(call.alarm.id, alarm_list) /\ recent' = Updated(alarm_list')
      BY <1>8, <2>2 DEF RemoveLocked, AlarmUpdate
    <3>2. \A a \in Range(alarm_list') : a \in Range(alarm_list)
      BY <1>0, <2>2, <3>1, WithoutRange DEF Listed
    <3> QED BY <1>0, <1>1, <2>1, <3>1, <3>2, ChangedArms DEF ArmedInv, SetPcs
  <2>3. CASE ~Listed(call.alarm.id)
    <3>1. UNCHANGED <<times, alarm_list, recent, isr>> /\ pc \notin SetPcs
      BY <1>8, <2>1, <2>3 DEF RemoveLocked, SetPcs
    <3> QED BY <1>0, <1>1, <3>1, ArmedUntouched DEF ArmedInv
  <2> QED BY <2>2, <2>3
<1> QED
  BY <1>2, <1>3, <1>4, <1>5, <1>6, <1>7, <1>8 DEF Next, Call, Thread, Isr

LEMMA SpecArmedInv ==
  ASSUME Stall <= Second
  PROVE  Spec => [](TypeInv /\ TimeInv /\ ListOrdered /\ ArmedInv)
<1> DEFINE Inv == TypeInv /\ TimeInv /\ ListOrdered /\ ArmedInv
<1>1. Init => Inv
  BY InitTypeInv, InitTimeInv, InitOrdered, InitArmedInv
<1>2. Inv /\ [Next]_vars => Inv'
  BY NextTypeInv, NextTimeInv, NextOrdered, NextArmedInv
<1> QED BY <1>1, <1>2, PTL DEF Spec

(* If calls, callbacks and interrupts hold each other up for no longer     *)
(* than a second, and until the lists are broken: outside a call that sets *)
(* the time, and with no callback running, the timer of the next alarm is  *)
(* set to within a second of its time.                                     *)
THEOREM CalendarArmed == Stall <= Second => (Spec => []Armed)
<1> SUFFICES ASSUME Stall <= Second PROVE Spec => []Armed
  OBVIOUS
<1>1. TypeInv /\ TimeInv /\ ListOrdered /\ ArmedInv => Armed
  BY DEF ArmedInv
<1> QED BY <1>1, SpecArmedInv, PTL

-----------------------------------------------------------------------------
(* How late an alarm may be.                                               *)

(* While sw_calendar_set_time has the timers off no callback runs, and     *)
(* the base timer that it then sets does not run before it returns.        *)
SettingInv ==
  /\ base = Off <=> pc \in {"set_recent", "set_time_base", "set_count"}
  /\ pc \in {"set_time_base", "set_count", "set_resched"} => recent = Off /\ isr = "none"
  /\ pc = "set_resched" => clock - busy <= timer_count

LateInv ==
  pc \notin {"set_time_base", "set_count", "set_resched"} =>
    \A a \in Range(alarm_list) : clock - busy < DueAt(a) + Second

LEMMA InitLateInv == Init => SettingInv /\ LateInv
<1> SUFFICES ASSUME Init PROVE SettingInv /\ LateInv
  OBVIOUS
<1>1. Range(alarm_list) = {}
  BY DEF Init, Range
<1>2. Base * Second \in Nat
  BY TimesAssumption
<1> QED BY <1>1, <1>2 DEF Init, SettingInv, LateInv, Off

LEMMA SettingStays ==
  ASSUME Stall < Base * Second, TypeInv, TypeInv', TimeInv, SettingInv, [Next]_vars
  PROVE  SettingInv'
<1>0. /\ TypeOK /\ clock \in Nat /\ busy \in Nat /\ busy <= Stall /\ timer_count \in Nat
      /\ Base * Second \in Nat /\ Stall \in Nat
  BY TimesAssumption DEF TypeInv, TypeOK
<1>1. CASE SetTime
  BY <1>1 DEF SetTime, ThreadStep, SettingInv
<1>2. CASE SetRecent
  BY <1>2 DEF SetRecent, ThreadStep, SettingInv, SetPcs
<1>3. CASE SetTimeBase
  BY <1>3 DEF SetTimeBase, ThreadStep, SettingInv, timers
<1>4. CASE SetCount
  <2>1. clock + Base * Second # Off
    BY <1>0 DEF Off
  <2> QED BY <1>4, <1>0, <2>1 DEF SetCount, ThreadStep, SettingInv
<1>5. CASE SetResched
  BY <1>5 DEF SetResched, ThreadStep, SettingInv, times, timers
<1>6. CASE SetUpdate \/ AlarmCount \/ AlarmBase \/ AlarmInsert \/ RemoveLocked
           \/ \E a \in Alarm : SetAlarm(a) \/ RemoveAlarm(a)
  BY <1>6 DEF SetUpdate, AlarmCount, AlarmBase, AlarmInsert, RemoveLocked, SetAlarm,
              RemoveAlarm, ThreadStep, SettingInv, timers
<1>7. ASSUME pc = "set_resched" PROVE ~Expired(base)
  <2>1. base # Off => base = timer_count + Base * Second /\ clock - busy <= timer_count
    BY <1>7 DEF TimeInv, BaseFollows, SettingInv
  <2> QED BY <1>0, <2>1 DEF Expired
<1>8. CASE BaseExpires
  <2>1. pc' = pc /\ base # Off /\ pc \notin {"set_time_base", "set_count", "set_resched"}
    BY <1>7, <1>8 DEF BaseExpires, Expired, SettingInv
  <2>2. base' # Off
    <3>1. base \in Nat /\ base' = base + Base * Second
      BY <1>0, <1>8, <2>1 DEF BaseExpires, BaseAgain, TypeOK
    <3> QED BY <1>0, <3>1 DEF Off
  <2> QED BY <2>1, <2>2 DEF SettingInv
<1>9. CASE RecentExpires
  <2>1. pc' = pc /\ base' = base /\ recent # Off
    BY <1>9 DEF RecentExpires, Expired
  <2> QED BY <2>1 DEF SettingInv
<1>10. CASE Ring \/ IsrUpdate
  BY <1>10 DEF Ring, IsrUpdate, SettingInv
<1>11. CASE Tick
  <2>1. pc = "set_resched" => clock' - busy' = clock - busy
    BY <1>0, <1>11, BusyTick DEF Quiet
  <2> QED BY <1>11, <2>1 DEF Tick, SettingInv, times, timers
<1>12. CASE UNCHANGED vars
  BY <1>12 DEF vars, SettingInv, times, timers
<1> QED
  BY <1>1, <1>2, <1>3, <1>4, <1>5, <1>6, <1>8, <1>9, <1>10, <1>11, <1>12
     DEF Next, Call, Thread, Isr

(* With nothing to do, the next alarm's timer, or the base timer before    *)
(* it, has still to run.                                                   *)
LEMMA QuietInTime ==
  ASSUME TypeOK, TimeInv, SettingInv, Armed, Quiet, NEW a \in Alarm, a \in Range(alarm_list)
  PROVE  clock + 1 < DueAt(a) + Second
<1>1. pc = "idle" /\ isr = "none" /\ ~Expired(base) /\ ~Expired(recent)
  BY DEF Quiet
<1>2. /\ clock \in Nat /\ timer_count \in Nat /\ time_base \in Nat /\ Base \in Nat
      /\ Second \in Nat /\ Second > 0 /\ a.target \in Nat /\ DueAt(a) \in Int
      /\ base \in Int /\ recent \in Int
  BY Arithmetic, AlarmFields, DueInt, TimesAssumption DEF TypeOK, Off
<1>3. CASE a.target < time_base + Base
  <2>1. recent # Off /\ recent < DueAt(a) + Second
    BY <1>1, <1>3 DEF Armed, SetPcs
  <2>2. clock < recent
    BY <1>1, <1>2, <2>1 DEF Expired
  <2> QED BY <1>2, <2>1, <2>2
<1>4. CASE a.target >= time_base + Base
  <2>1. base # Off /\ base = timer_count + Base * Second
    BY <1>1 DEF SettingInv, TimeInv, BaseFollows
  <2>2. clock < base
    BY <1>1, <1>2, <2>1 DEF Expired
  <2> DEFINE x == a.target - time_base
  <2>3. x \in Int /\ Base <= x /\ DueAt(a) = timer_count + x * Second
    BY <1>2, <1>4 DEF DueAt
  <2> HIDE DEF x
  <2>4. Base * Second <= x * Second /\ x * Second \in Int /\ Base * Second \in Int
    BY <1>2, <2>3, ProductMonotonic
  <2> QED BY <1>2, <2>1, <2>2, <2>3, <2>4
<1> QED BY <1>2, <1>3, <1>4

LEMMA LateStays ==
  ASSUME Stall <= Second,
         TypeInv, TypeInv', TimeInv, ListOrdered, ArmedInv, SettingInv, LateInv, [Next]_vars
  PROVE  LateInv'
<1>0. /\ TypeOK /\ TypeOK' /\ alarm_list \in Seq(Alarm) /\ clock \in Nat /\ busy \in Nat
      /\ Second \in Nat /\ ReadInv /\ Armed /\ Range(alarm_list) \subseteq Alarm
  <2>1. alarm_list \in Seq(Alarm)
    BY DEF TypeInv, TypeOK
  <2>2. DOMAIN <<>> = {}
    OBVIOUS
  <2>3. Range(alarm_list) \subseteq Alarm
    BY <2>1, <2>2, HeadLeast DEF Range
  <2> QED BY <2>1, <2>3, TimesAssumption DEF TypeInv, TypeOK, ArmedInv
<1>1. CASE SetRecent \/ SetTimeBase \/ SetCount
  BY <1>1 DEF SetRecent, SetTimeBase, SetCount, ThreadStep, LateInv
<1>2. CASE SetTime \/ AlarmCount \/ AlarmBase \/ \E a \in Alarm : SetAlarm(a) \/ RemoveAlarm(a)
  BY <1>2 DEF SetTime, AlarmCount, AlarmBase, SetAlarm, RemoveAlarm, ThreadStep,
              LateInv, DueAt, times
<1>3. CASE SetResched
  <2>1. CASE HeadIsDue
    BY <1>3, <2>1 DEF SetResched, ThreadStep, LateInv
  <2>2. CASE ~HeadIsDue
    <3>1. /\ pc' = "set_update" /\ alarm_list' = alarm_list /\ UNCHANGED <<clock, busy, times>>
      BY <1>3, <2>2 DEF SetResched, ThreadStep
    <3>2. ReadInv'
      BY <1>0, <1>3, ReadStep DEF Thread, ListOrdered
    <3>3. \A a \in Range(alarm_list) : clock - busy < DueAt(a) /\ DueAt(a) \in Int
      BY <1>0, <3>1, <3>2, DueInt DEF ReadInv, DueAt, times
    <3>4. \A a \in Range(alarm_list) : clock - busy < DueAt(a) + Second
      BY <1>0, <3>3
    <3> QED BY <3>1, <3>4 DEF LateInv, DueAt, times
  <2> QED BY <2>1, <2>2
<1>4. CASE SetUpdate
  <2>1. pc = "set_update" /\ UNCHANGED <<clock, busy, times, alarm_list>>
    BY <1>4 DEF SetUpdate, ThreadStep
  <2> QED BY <2>1 DEF LateInv, DueAt, times
<1>5. CASE AlarmInsert
  <2>1. /\ pc = "alarm_insert" /\ alarm_list' = Inserted(call.alarm, alarm_list)
        /\ UNCHANGED <<clock, busy, times>>
    BY <1>5 DEF AlarmInsert, ThreadStep
  <2>2. call.alarm \in Alarm
    BY <2>1 DEF TypeInv, CallInv, AlarmPcs
  <2>3. clock - busy < DueAt(call.alarm) + Second
    BY <1>0, <2>1, <2>2, DueInt DEF ReadInv
  <2>4. \A a \in Range(alarm_list') : clock - busy < DueAt(a) + Second
    BY <1>0, <2>1, <2>2, <2>3, InsertedRange DEF LateInv
  <2> QED BY <2>1, <2>4 DEF LateInv, DueAt, times
<1>6. CASE RemoveLocked
  <2>1. pc = "remove" /\ UNCHANGED <<clock, busy, times>>
    BY <1>6 DEF RemoveLocked, ThreadStep
  <2>2. Range(alarm_list') \subseteq Range(alarm_list)
    <3>1. CASE Listed(call.alarm.id)
      <4>1. alarm_list' = Without(call.alarm.id, alarm_list)
        BY <1>6, <3>1 DEF RemoveLocked
      <4> QED BY <1>0, <3>1, <4>1, WithoutRange DEF Listed
    <3>2. CASE ~Listed(call.alarm.id)
      BY <1>6, <3>2 DEF RemoveLocked
    <3> QED BY <3>1, <3>2
  <2> QED BY <2>1, <2>2 DEF LateInv, DueAt, times
<1>7. CASE Isr
  <2>1. pc' = pc /\ UNCHANGED <<clock, busy>>
    BY <1>7 DEF Isr, BaseExpires, RecentExpires, Ring, IsrUpdate
  <2>2. TimeKept
    <3>1. CASE BaseExpires
      BY <3>1, BaseExpiresKeepsTime
    <3>2. CASE RecentExpires \/ Ring \/ IsrUpdate
      BY <3>2 DEF RecentExpires, Ring, IsrUpdate, times, TimeKept
    <3> QED BY <1>7, <3>1, <3>2 DEF Isr
  <2>3. \A a \in Alarm : DueAt(a)' = DueAt(a)
    BY <1>0, <2>2, DueStays
  <2>4. ASSUME NEW a \in Range(alarm_list') PROVE a \in Range(alarm_list) \/ (a \in Alarm /\ Now < a.target)
    <3>1. CASE Ring
      BY <2>4, <3>1, RingRange
    <3>2. CASE ~Ring
      <4>1. alarm_list' = alarm_list
        BY <1>7, <3>2 DEF Isr, BaseExpires, RecentExpires, IsrUpdate
      <4> QED BY <2>4, <4>1
    <3> QED BY <3>1, <3>2
  <2>5. SUFFICES ASSUME pc \notin {"set_time_base", "set_count", "set_resched"},
                        NEW a \in Range(alarm_list')
                 PROVE  clock - busy < DueAt(a) + Second /\ DueAt(a)' = DueAt(a)
    BY <2>1 DEF LateInv
  <2>6. CASE a \in Range(alarm_list)
    BY <1>0, <2>3, <2>5, <2>6 DEF LateInv
  <2>7. CASE a \in Alarm /\ Now < a.target
    <3>1. clock < DueAt(a) /\ DueAt(a) \in Int
      BY <1>0, <2>7, NotYetDue, DueInt
    <3> QED BY <1>0, <2>3, <2>7, <3>1
  <2> QED BY <2>4, <2>6, <2>7
<1>8. CASE Tick
  <2>1. pc' = pc /\ UNCHANGED <<times, alarm_list>> /\ clock' = clock + 1
        /\ (Quiet => busy' = 0)
    BY <1>8 DEF Tick
  <2>2. CASE Quiet
    <3>1. \A a \in Range(alarm_list) : clock + 1 < DueAt(a) + Second
      BY <1>0, <2>2, QuietInTime
    <3>2. clock' - busy' = clock + 1
      BY <1>0, <2>1, <2>2
    <3> QED BY <2>1, <3>1, <3>2 DEF LateInv, DueAt, times
  <2>3. CASE ~Quiet
    <3>1. clock' - busy' = clock - busy
      BY <1>0, <1>8, <2>3, BusyTick
    <3> QED BY <2>1, <3>1 DEF LateInv, DueAt, times
  <2> QED BY <2>2, <2>3
<1>9. CASE UNCHANGED vars
  BY <1>9 DEF vars, LateInv, DueAt, times
<1> QED
  BY <1>1, <1>2, <1>3, <1>4, <1>5, <1>6, <1>7, <1>8, <1>9 DEF Next, Call, Thread

LEMMA SpecLateInv ==
  ASSUME Stall <= Second, Stall < Base * Second
  PROVE  Spec => [](TypeInv /\ SettingInv /\ LateInv)
<1> DEFINE Inv == TypeInv /\ TimeInv /\ ListOrdered /\ ArmedInv
<1>1. Spec => []Inv
  BY SpecArmedInv
<1>2. Init => SettingInv /\ LateInv
  BY InitLateInv
<1>3. Inv /\ Inv' /\ SettingInv /\ LateInv /\ [Next]_vars => SettingInv' /\ LateInv'
  BY SettingStays, LateStays
<1>4. Inv => TypeInv
  OBVIOUS
<1> HIDE DEF Inv
<1> QED BY <1>1, <1>2, <1>3, <1>4, PTL DEF Spec

LEMMA RungInTime ==
  ASSUME Stall <= Second, TypeOK, SettingInv, LateInv, Ring
  PROVE  clock - DueAt(Head(alarm_list)) \in 0 .. 2 * Second - 1
<1> DEFINE h == Head(alarm_list)
<1>1. alarm_list \in Seq(Alarm) /\ alarm_list # <<>> /\ isr = "resched"
  BY DEF Ring, HeadIsDue, TypeOK
<1>2. h \in Alarm /\ h \in Range(alarm_list)
  BY <1>1, HeadLeast
<1>3. clock - busy < DueAt(h) + Second
  BY <1>1, <1>2 DEF SettingInv, LateInv
<1>4. clock >= DueAt(h)
  BY DueWhenRung
<1>5. clock \in Nat /\ busy \in Nat /\ busy <= Stall /\ Stall \in Nat /\ Second \in Nat
      /\ DueAt(h) \in Int
  BY <1>2, DueInt, TimesAssumption DEF TypeOK
<1> HIDE DEF h
<1>6. clock - DueAt(h) \in 0 .. 2 * Second - 1
  BY <1>3, <1>4, <1>5
<1> QED BY <1>6 DEF h

(* If calls, callbacks and interrupts hold each other up for no longer     *)
(* than a second, and for less than the base timer's period, and until the *)
(* lists are broken: no alarm rings before its time, or two seconds after  *)
(* it.                                                                     *)
THEOREM CalendarRingsInTime ==
  Stall <= Second /\ Stall < Base * Second
  => (Spec => RingsInTime)
<1> SUFFICES ASSUME Stall <= Second, Stall < Base * Second
             PROVE  Spec => RingsInTime
  OBVIOUS
<1>1. TypeInv /\ SettingInv /\ LateInv /\ [Next]_vars
      => [Ring => clock - DueAt(Head(alarm_list)) \in 0 .. 2 * Second - 1]_vars
  BY RungInTime DEF TypeInv
<1> QED BY <1>1, SpecLateInv, PTL DEF Spec, RingsInTime
=============================================================================
