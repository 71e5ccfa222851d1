--------------------------- MODULE SpiFlashProofs ---------------------------
(***************************************************************************)
(* The flash driver keeps to its part of the bargain with BLE_Handler, in  *)
(* every build and wherever the handler comes in: no command is lost, no   *)
(* chip is suspended too early, and no code is fetched from a flash that   *)
(* does not answer.                                                        *)
(*                                                                         *)
(* None of these is inductive.  Whether BLE_Handler may suspend depends on *)
(* what the interrupted caller has told it in flash_stat, and what the     *)
(* caller finds when it goes on depends on the handler having put back     *)
(* what it read on entry.  FlashInv says both: writing and XipBelow are    *)
(* functions of where the callers are, and bleSaw of what they were.       *)
(***************************************************************************)
EXTENDS SpiFlash, TLAPS

LEMMA InitFlashInv == Init => FlashInv
<1> SUFFICES ASSUME Init PROVE FlashInv
  OBVIOUS
<1> USE DEF Init, Callers
<1>1. TypeOK
  BY DEF TypeOK, Pcs, BlePcs, ChipStates
<1>2. \A c \in Callers : pc[c] = "idle" /\ saved[c] = FALSE
  OBVIOUS
<1>3. CallersInv
  BY <1>2 DEF CallersInv, Active, Window, XipIsOff, Locked, XipBelow, SleepPcs
<1>4. HandlerInv
  BY <1>2 DEF HandlerInv, Active
<1>5. ChipInv
  BY <1>2 DEF ChipInv
<1>. QED  BY <1>1, <1>3, <1>4, <1>5 DEF FlashInv

-----------------------------------------------------------------------------
LEMMA NextTypeOK == TypeOK /\ [Next]_vars => TypeOK'
<1> SUFFICES ASSUME TypeOK, [Next]_vars PROVE TypeOK'
  OBVIOUS
<1> USE DEF TypeOK, Step, Goto, BleStep, Callers, ChipStates, Pcs, WritePcs,
            ReadPcs, StartPcs, SleepPcs, BlePcs
<1>1. ASSUME NEW c \in Callers, flash_writing_critical(c) PROVE TypeOK'
  BY <1>1 DEF flash_writing_critical, CallDriver
<1>2. ASSUME NEW c \in Callers, flash_reading_critical(c) PROVE TypeOK'
  BY <1>2 DEF flash_reading_critical, CallDriver
<1>3. ASSUME NEW c \in Callers, WriteStop(c) PROVE TypeOK'
  BY <1>3 DEF WriteStop
<1>4. ASSUME NEW c \in Callers, WriteProgram(c) PROVE TypeOK'
  BY <1>4 DEF WriteProgram, AfterProgram, OpensWindowAtOnce, Unmask
<1>5. ASSUME NEW c \in Callers, WriteDelay(c) PROVE TypeOK'
  BY <1>5 DEF WriteDelay, DelayOver, Unmask
<1>6. ASSUME NEW c \in Callers, WritePoll(c) PROVE TypeOK'
  BY <1>6 DEF WritePoll
<1>7. ASSUME NEW c \in Callers, WriteLock(c) PROVE TypeOK'
  BY <1>7 DEF WriteLock
<1>8. ASSUME NEW c \in Callers, WriteStatus(c) PROVE TypeOK'
  BY <1>8 DEF WriteStatus, Unmask
<1>9. ASSUME NEW c \in Callers, WriteClear(c) PROVE TypeOK'
  BY <1>9 DEF WriteClear
<1>10. ASSUME NEW c \in Callers, ReadStop(c) PROVE TypeOK'
  BY <1>10 DEF ReadStop
<1>11. ASSUME NEW c \in Callers, ReadStopLocked(c) PROVE TypeOK'
  BY <1>11 DEF ReadStopLocked
<1>12. ASSUME NEW c \in Callers, ReadFunc(c) PROVE TypeOK'
  BY <1>12 DEF ReadFunc
<1>13. ASSUME NEW c \in Callers, Start(c) PROVE TypeOK'
  <2>1. CASE xip
    <3>1. Return(c) /\ UNCHANGED <<build, writing, xip, chip, ble, bleSaw, waiting>>
      BY <1>13, <2>1 DEF Start
    <3>. QED  BY <3>1 DEF Return
  <2>2. CASE ~xip
    BY <1>13, <2>2 DEF Start
  <2>. QED  BY <2>1, <2>2
<1>14. ASSUME NEW c \in Callers, StartLocked(c) PROVE TypeOK'
  BY <1>14 DEF StartLocked, Return
<1>15. CASE SleepBegin
  BY <1>15 DEF SleepBegin
<1>16. CASE SleepDown
  BY <1>16 DEF SleepDown
<1>17. CASE SleepEnd
  BY <1>17 DEF SleepEnd, Return
<1>18. CASE BleEnter
  BY <1>18 DEF BleEnter
<1>19. CASE BleSuspend
  BY <1>19 DEF BleSuspend
<1>20. CASE BleWait
  BY <1>20 DEF BleWait, StopsWaiting
<1>21. CASE BleXipOn
  BY <1>21 DEF BleXipOn
<1>22. CASE BleIsr
  BY <1>22 DEF BleIsr
<1>23. CASE BleXipOff
  BY <1>23 DEF BleXipOff
<1>24. CASE BleResume
  BY <1>24 DEF BleResume
<1>25. CASE WkupEnter
  BY <1>25 DEF WkupEnter
<1>26. CASE WkupEnd
  BY <1>26 DEF WkupEnd
<1>27. CASE ChipOlder
  BY <1>27 DEF ChipOlder
<1>28. CASE ChipDone
  BY <1>28 DEF ChipDone
<1>29. CASE UNCHANGED vars
  BY <1>29 DEF vars
<1>. QED  BY <1>1, <1>2, <1>3, <1>4, <1>5, <1>6, <1>7, <1>8, <1>9, <1>10,
             <1>11, <1>12, <1>13, <1>14, <1>15, <1>16, <1>17, <1>18,
             <1>19, <1>20, <1>21, <1>22, <1>23, <1>24, <1>25, <1>26,
             <1>27, <1>28, <1>29
        DEF Next, Call, Driver, Sleep, Handler, Chip

-----------------------------------------------------------------------------
(* What is to be shown of each step, its types aside.                      *)
Agreement == CallersInv /\ HandlerInv /\ ChipInv

LEMMA NextAgreement == FlashInv /\ [Next]_vars => Agreement'
<1> SUFFICES ASSUME FlashInv, [Next]_vars PROVE Agreement'
  OBVIOUS
<1> USE WakeOpsAssumption
    DEF Agreement, FlashInv, TypeOK, CallersInv, HandlerInv, ChipInv, Callers,
        Active, Window, Working, XipIsOff, Locked, Unlocked, XipBelow,
        Step, Goto, BleStep, Runs, WritePcs, ReadPcs, StartPcs, SleepPcs
<1>0. TypeOK'
  BY NextTypeOK
<1>1. ASSUME NEW c \in Callers, flash_writing_critical(c) PROVE Agreement'
  BY <1>0, <1>1, SMTT(60)
     DEF flash_writing_critical, CallDriver, Priority, BasePriority, SvcPriority
<1>2. ASSUME NEW c \in Callers, flash_reading_critical(c) PROVE Agreement'
  BY <1>0, <1>2, SMTT(60)
     DEF flash_reading_critical, CallDriver, Priority, BasePriority, SvcPriority
<1>3. ASSUME NEW c \in Callers, WriteStop(c) PROVE Agreement'
  BY <1>0, <1>3, SMTT(60) DEF WriteStop
<1>4. ASSUME NEW c \in Callers, WriteProgram(c) PROVE Agreement'
  <2>1. HandlerInv' /\ ChipInv'
    BY <1>0, <1>4, SMTT(60)
       DEF WriteProgram, AfterProgram, OpensWindowAtOnce, Unmask
  <2>2. CASE build = "none"
    <3>1. /\ pc[c] = "w_program" /\ pc' = [pc EXCEPT ![c] = "w_status"]
          /\ writing' = TRUE
          /\ primask' = IF saved[c] THEN primask ELSE FALSE
          /\ UNCHANGED <<build, xip, saved, ble, bleSaw, waiting>>
          /\ ble = "none"
      BY <1>4, <2>2 DEF WriteProgram, AfterProgram, OpensWindowAtOnce, Unmask
    <3>2. \A d \in Callers : d # c => pc[d] = "idle" /\ pc'[d] = "idle"
      BY <3>1
    <3>3. pc'[c] = "w_status"
      BY <3>1
    <3>4. CallersInv'
      BY <2>2, <3>1, <3>2, <3>3, SMTT(60)
    <3>. QED  BY <2>1, <3>4
  <2>3. CASE build # "none"
    <3>1. CallersInv'
      BY <1>0, <1>4, <2>3, SMTT(60)
         DEF WriteProgram, AfterProgram, OpensWindowAtOnce, Unmask
    <3>. QED  BY <2>1, <3>1
  <2>. QED  BY <2>2, <2>3
<1>5. ASSUME NEW c \in Callers, WriteDelay(c) PROVE Agreement'
  BY <1>0, <1>5, SMTT(60) DEF WriteDelay, DelayOver, Unmask
<1>6. ASSUME NEW c \in Callers, WritePoll(c) PROVE Agreement'
  BY <1>0, <1>6, SMTT(60) DEF WritePoll
<1>7. ASSUME NEW c \in Callers, WriteLock(c) PROVE Agreement'
  BY <1>0, <1>7, SMTT(60) DEF WriteLock
<1>8. ASSUME NEW c \in Callers, WriteStatus(c) PROVE Agreement'
  <2>1. HandlerInv' /\ ChipInv'
    BY <1>0, <1>8, SMTT(60) DEF WriteStatus, Unmask
  <2>2. /\ pc[c] = "w_status"
        /\ pc' = [pc EXCEPT ![c] = IF writing THEN "w_clear" ELSE "start"]
        /\ primask' = IF build = "puya" /\ ~saved[c] THEN FALSE ELSE primask
        /\ UNCHANGED <<build, writing, xip, saved, ble, bleSaw, waiting>>
        /\ ble = "none"
    BY <1>8 DEF WriteStatus, Unmask
  <2>3. \A d \in Callers : d # c => pc[d] = "idle" /\ pc'[d] = "idle"
    BY <2>2
  <2>4. pc'[c] = IF writing THEN "w_clear" ELSE "start"
    BY <2>2
  <2>5. writing <=> build = "none" \/ (build = "puya" /\ ~saved[c])
    BY <2>2, <2>3
  <2>6. XipBelow' <=> ~\E d \in Callers : XipIsOff(d)'
    BY <2>2, <2>3, <2>4
  <2>7. writing' <=> \E d \in Callers : Window(d)'
    BY <2>2, <2>3, <2>4, <2>5
  <2>8. /\ (Locked(c) \/ saved[c])' => primask'
        /\ (Unlocked(c) /\ Active(c))' => ~primask'
    <3>1. CASE writing = TRUE
      BY <2>2, <2>4, <2>5, <3>1
    <3>2. CASE writing = FALSE
      BY <2>2, <2>4, <2>5, <3>2, BuildsAssumption
    <3>. QED  BY <3>1, <3>2
  <2>9. CallersInv'
    BY <1>8, <2>2, <2>3, <2>4, <2>5, <2>6, <2>7, <2>8, SMTT(60)
  <2>. QED  BY <2>1, <2>9
<1>9. ASSUME NEW c \in Callers, WriteClear(c) PROVE Agreement'
  BY <1>0, <1>9, SMTT(60) DEF WriteClear
<1>10. ASSUME NEW c \in Callers, ReadStop(c) PROVE Agreement'
  BY <1>0, <1>10, SMTT(60) DEF ReadStop
<1>11. ASSUME NEW c \in Callers, ReadStopLocked(c) PROVE Agreement'
  BY <1>0, <1>11, SMTT(60) DEF ReadStopLocked
<1>12. ASSUME NEW c \in Callers, ReadFunc(c) PROVE Agreement'
  BY <1>0, <1>12, SMTT(60) DEF ReadFunc
<1>13. ASSUME NEW c \in Callers, Start(c) PROVE Agreement'
  BY <1>0, <1>13, SMTT(60) DEF Start, Return
<1>14. ASSUME NEW c \in Callers, StartLocked(c) PROVE Agreement'
  BY <1>0, <1>14, SMTT(60) DEF StartLocked, Return
<1>15. CASE SleepBegin
  BY <1>0, <1>15, SMTT(60) DEF SleepBegin
<1>16. CASE SleepDown
  BY <1>0, <1>16, SMTT(60) DEF SleepDown
<1>17. CASE SleepEnd
  BY <1>0, <1>17, SMTT(60) DEF SleepEnd, Return
<1>18. CASE BleEnter
  <2>1. CASE writing = TRUE
    BY <1>18, <2>1, SMTT(60) DEF BleEnter
  <2>2. CASE writing = FALSE
    <3>1. /\ ble' = IF xip THEN "isr" ELSE "on"
          /\ bleSaw' = [writing |-> writing, xip |-> xip]
          /\ UNCHANGED <<build, writing, xip, primask, chip, pc, saved, waiting>>
          /\ ~primask /\ ~waiting /\ ble = "none"
      BY <1>18, <2>2 DEF BleEnter
    <3>2. CallersInv'
      BY <3>1, <2>2, SMTT(60)
    <3>3. HandlerInv'
      BY <3>1, <2>2, SMTT(60)
    (* No caller has the chip at work: it would have told the handler, or  *)
    (* kept it out.                                                        *)
    <3>4. ASSUME NEW c \in Callers PROVE ~Working(c) /\ pc[c] # "s_wfi"
      <4>1. ~Locked(c) /\ ~saved[c] /\ ~Window(c)
        BY <3>1, <2>2
      <4>2. build \in {"puya", "tsingteng", "none"}
        BY BuildsAssumption
      <4>. QED  BY <4>1, <4>2
    <3>5. chip = "idle"
      BY <3>1, <3>4 DEF ChipStates
    <3>6. ChipInv'
      BY <3>1, <3>5
    <3>. QED  BY <3>2, <3>3, <3>6
  <2>. QED  BY <2>1, <2>2
<1>19. CASE BleSuspend
  BY <1>0, <1>19, SMTT(60) DEF BleSuspend
<1>20. CASE BleWait
  <2>1. CASE bleSaw.xip = TRUE
    BY <1>20, <2>1, SMTT(60) DEF BleWait, StopsWaiting
  <2>2. CASE bleSaw.xip = FALSE
    <3>1. /\ ble = "wait" /\ ble' = "on" /\ chip \in {"idle", "suspended"}
          /\ UNCHANGED <<build, writing, xip, primask, chip, pc, saved, bleSaw,
                         waiting>>
      BY <1>20, <2>2 DEF BleWait, StopsWaiting, ChipStates
    <3>2. CallersInv'
      BY <3>1, SMTT(60)
    <3>3. HandlerInv'
      BY <3>1, SMTT(60)
    <3>4. ChipInv'
      BY <3>1, SMTT(60)
    <3>. QED  BY <3>2, <3>3, <3>4
  <2>. QED  BY <1>20, <2>1, <2>2
<1>21. CASE BleXipOn
  BY <1>0, <1>21, SMTT(60) DEF BleXipOn
<1>22. CASE BleIsr
  BY <1>0, <1>22, SMTT(60) DEF BleIsr
<1>23. CASE BleXipOff
  BY <1>0, <1>23, SMTT(60) DEF BleXipOff
<1>24. CASE BleResume
  BY <1>0, <1>24, SMTT(60) DEF BleResume
<1>25. CASE WkupEnter
  BY <1>0, <1>25, SMTT(60) DEF WkupEnter
<1>26. CASE WkupEnd
  BY <1>0, <1>26, SMTT(60) DEF WkupEnd
<1>27. CASE ChipOlder
  BY <1>0, <1>27, SMTT(60) DEF ChipOlder
<1>28. CASE ChipDone
  BY <1>0, <1>28, SMTT(60) DEF ChipDone
<1>29. CASE UNCHANGED vars
  BY <1>29 DEF vars
<1>. QED  BY <1>1, <1>2, <1>3, <1>4, <1>5, <1>6, <1>7, <1>8, <1>9, <1>10,
             <1>11, <1>12, <1>13, <1>14, <1>15, <1>16, <1>17, <1>18,
             <1>19, <1>20, <1>21, <1>22, <1>23, <1>24, <1>25, <1>26,
             <1>27, <1>28, <1>29
        DEF Next, Call, Driver, Sleep, Handler, Chip

(* Where the callers are, what BLE_Handler read and undoes, and what the   *)
(* chip does always agree, in every build and with any use of the flash    *)
(* between a deep sleep and the wake-up interrupt.                         *)
THEOREM FlashAgrees == Spec => []FlashInv
<1>1. FlashInv /\ [Next]_vars => FlashInv'
  BY NextTypeOK, NextAgreement DEF FlashInv, Agreement
<1>. QED  BY InitFlashInv, <1>1, PTL DEF Spec

-----------------------------------------------------------------------------
LEMMA CommandsHeardInv == FlashInv => CommandsHeard
<1> SUFFICES ASSUME FlashInv PROVE CommandsHeard
  OBVIOUS
<1> USE DEF FlashInv, TypeOK, CallersInv, HandlerInv, ChipInv, Callers,
            Active, Window, Working, XipIsOff, Locked, XipBelow, SleepPcs,
            ChipStates, BlePcs
<1>1. ASSUME NEW c \in Callers, pc[c] = "w_program" PROVE ~xip /\ chip = "idle"
  BY <1>1
<1>2. ASSUME NEW c \in Callers, Runs(c), pc[c] \in {"r_func", "start_locked", "s_down"}
      PROVE  ~xip /\ chip = "idle"
  BY <1>2 DEF Runs
<1>3. ble \in {"suspend", "resume"} => ~xip /\ ~bleSaw.xip
  OBVIOUS
<1>4. ble = "on" => ~xip /\ chip \in {"idle", "suspended"}
  OBVIOUS
<1>. QED  BY <1>1, <1>2, <1>3, <1>4 DEF CommandsHeard

LEMMA FetchServedInv == FlashInv /\ WakeOps = {} => FetchServed
BY DEF FetchServed, CodeReadable, FlashInv, TypeOK, CallersInv, HandlerInv,
       ChipInv, Callers, Active, Window, Working, XipIsOff, Locked, Unlocked,
       XipBelow, WritePcs, ReadPcs, StartPcs, SleepPcs, Pcs, ChipStates, Priority,
       BasePriority, SvcPriority

LEMMA NoEarlySuspendInv == FlashInv => NoEarlySuspend
BY DEF NoEarlySuspend, FlashInv, TypeOK, CallersInv, HandlerInv, ChipInv,
       Callers, Window, Working, Locked

(* No command of the driver or of BLE_Handler goes to a controller in its  *)
(* read mode or to a chip that does not hear it.                           *)
THEOREM FlashCommandsHeard == Spec => []CommandsHeard
BY FlashAgrees, CommandsHeardInv, PTL

(* Code in the flash, that of the Bluetooth stack within BLE_Handler       *)
(* included, runs only when the flash answers, if nothing uses the flash   *)
(* between a deep sleep and the wake-up interrupt.                         *)
THEOREM FlashFetchServed == WakeOps = {} => (Spec => []FetchServed)
<1> SUFFICES ASSUME WakeOps = {} PROVE Spec => []FetchServed
  OBVIOUS
<1>1. FlashInv => FetchServed
  BY FetchServedInv
<1>. QED  BY FlashAgrees, <1>1, PTL

(* A Puya chip is never told to suspend an operation in its first 500 us.  *)
THEOREM FlashNoEarlySuspend == Spec => []NoEarlySuspend
BY FlashAgrees, NoEarlySuspendInv, PTL
=============================================================================
