------------------------------ MODULE SpiFlash ------------------------------
(***************************************************************************)
(* The flash driver and everything that may run while it works.            *)
(*                                                                         *)
(* Code is executed in place (XIP) from the flash that the driver erases   *)
(* and programs.  While an operation is in flight XIP is off, and the only *)
(* handlers that can preempt it are those of a higher priority than the    *)
(* supervisor call it runs in: BLE_Handler, which suspends the operation   *)
(* and switches XIP on for the Bluetooth stack, and the wake-up handler    *)
(* after a deep sleep.                                                     *)
(*                                                                         *)
(* One step is what happens between two points at which an interrupt can   *)
(* be taken or the flash chip can change; the code of a critical section   *)
(* that the chip cannot tell apart is one step.                            *)
(***************************************************************************)
EXTENDS Naturals

CONSTANTS
    Builds,    \* values of SUSPEND_WORKAROUND the driver is built with
    WakeOps    \* callers that may use the flash between a deep sleep and the
               \* wake-up interrupt of the Bluetooth core

ASSUME BuildsAssumption == Builds \subseteq {"puya", "tsingteng", "none"}

(* Who calls the driver: the main loop or a task, and the handlers of      *)
(* priority 3 (UART, DMA, EXTI, ...).                                      *)
Callers == {"thread", "irq3"}

ASSUME WakeOpsAssumption == WakeOps \subseteq Callers

VARIABLES
    build,      \* SUSPEND_WORKAROUND
    writing,    \* flash_stat.writing
    xip,        \* flash_stat.xip, and the read mode of the flash controller
    primask,    \* all interrupts are masked
    chip,       \* what the flash chip does
    pc,         \* where each caller is in the driver
    saved,      \* PRIMASK at the call, which exit_critical restores
    ble,        \* where the handler of priority 1 is
    bleSaw,     \* what BLE_Handler read on entry: [writing, xip]
    waiting     \* waiting_ble_wkup_irq

vars == <<build, writing, xip, primask, chip, pc, saved, ble, bleSaw, waiting>>

(* "young" is an operation in its first 500 us, in which a Puya chip must  *)
(* not be told to suspend.                                                 *)
ChipStates == {"idle", "young", "busy", "suspended", "down"}

WritePcs == {"w_stop", "w_program", "w_delay", "w_poll", "w_lock",
             "w_status", "w_clear"}
ReadPcs == {"r_stop", "r_stop_locked", "r_func"}
StartPcs == {"start", "start_locked"}
SleepPcs == {"s_down", "s_wfi"}
Pcs == {"idle"} \union WritePcs \union ReadPcs \union StartPcs \union SleepPcs

BlePcs == {"none", "suspend", "wait", "on", "isr", "off", "resume", "wkup"}

TypeOK ==
    /\ build \in Builds
    /\ writing \in BOOLEAN /\ xip \in BOOLEAN /\ primask \in BOOLEAN
    /\ chip \in ChipStates
    /\ pc \in [Callers -> Pcs]
    /\ saved \in [Callers -> BOOLEAN]
    /\ ble \in BlePcs
    /\ bleSaw \in [writing: BOOLEAN, xip: BOOLEAN]
    /\ waiting \in BOOLEAN

Init ==
    /\ build \in Builds
    /\ writing = FALSE /\ xip = TRUE /\ primask = FALSE
    /\ chip = "idle"
    /\ pc = [c \in Callers |-> "idle"]
    /\ saved = [c \in Callers |-> FALSE]
    /\ ble = "none"
    /\ bleSaw = [writing |-> FALSE, xip |-> TRUE]
    /\ waiting = FALSE

-----------------------------------------------------------------------------
(* Priorities: a smaller number is more urgent.                            *)

SvcPriority == 2

BasePriority(c) == IF c = "irq3" THEN 3 ELSE 4

(* A driver call made with interrupts enabled goes through SVC; with       *)
(* interrupts masked it is a plain call.                                   *)
Priority(c) ==
    IF pc[c] # "idle" /\ ~saved[c] /\ pc[c] \notin SleepPcs
    THEN SvcPriority ELSE BasePriority(c)

(* Caller c has the processor.                                             *)
Runs(c) ==
    /\ ble = "none"
    /\ c = "thread" => pc["irq3"] = "idle"

Goto(c, label) == pc' = [pc EXCEPT ![c] = label]

Step(c, from, to) ==
    /\ Runs(c)
    /\ pc[c] = from
    /\ Goto(c, to)

(* The call: FLASH_EXECUTE_NO_RETVAL.  A handler of priority 3 must first  *)
(* be able to preempt whatever is running.                                 *)
CallDriver(c, label) ==
    /\ Runs(c)
    /\ pc[c] = "idle"
    /\ c = "irq3" => /\ ~primask
                     /\ BasePriority(c) < Priority("thread")
    /\ waiting => c \in WakeOps
    /\ \E masked \in BOOLEAN :
           /\ saved' = [saved EXCEPT ![c] = masked]
           /\ primask' = masked
    /\ Goto(c, label)
    /\ UNCHANGED <<build, writing, xip, chip, ble, bleSaw, waiting>>

(* Back from the driver; who had masked the interrupts unmasks them.       *)
Unmask(c) == primask' = IF saved[c] THEN primask ELSE FALSE

Return(c) ==
    /\ Goto(c, "idle")
    /\ primask' = FALSE
    /\ saved' = [saved EXCEPT ![c] = FALSE]

-----------------------------------------------------------------------------
(* flash_writing_critical                                                  *)

flash_writing_critical(c) == CallDriver(c, "w_stop")

(* Mutant: the operation begins with the controller in its read mode.      *)
WriteStopInXip(c) ==
    /\ Step(c, "w_stop", "w_program")
    /\ primask' = TRUE
    /\ UNCHANGED <<build, writing, xip, chip, saved, ble, bleSaw, waiting>>

(* enter_critical and spi_flash_xip_stop.                                  *)
WriteStop(c) ==
    /\ Step(c, "w_stop", "w_program")
    /\ primask' = TRUE
    /\ xip' = FALSE
    /\ UNCHANGED <<build, writing, chip, saved, ble, bleSaw, waiting>>

(* Where the operation goes once the command is given: a Puya build waits  *)
(* 500 us before it opens the window in which it can be suspended, a build *)
(* without a workaround opens it at once, and the other one never does.    *)
AfterProgram(c) ==
    IF build = "puya" /\ ~saved[c] THEN "w_delay" ELSE "w_status"

OpensWindowAtOnce == build = "none"

(* spi_flash_write_enable and func(param): the chip begins to work.  A     *)
(* chip that works or sleeps does not hear the command.                    *)
WriteProgram(c) ==
    /\ Step(c, "w_program", AfterProgram(c))
    /\ chip' = IF chip = "idle" THEN "young" ELSE chip
    /\ IF OpensWindowAtOnce
       THEN writing' = TRUE /\ Unmask(c)
       ELSE UNCHANGED <<writing, primask>>
    /\ UNCHANGED <<build, xip, saved, ble, bleSaw, waiting>>

(* Mutant: the window opens without the delay.                             *)
NoDelay == TRUE

(* DELAY_US(500), then writing = true and exit_critical.                   *)
DelayOver == chip # "young"

WriteDelay(c) ==
    /\ Step(c, "w_delay", "w_poll")
    /\ DelayOver
    /\ writing' = TRUE
    /\ Unmask(c)
    /\ UNCHANGED <<build, xip, chip, saved, ble, bleSaw, waiting>>

(* Mutant: the poll has no time limit and waits for the wrong status.      *)
WritePollForBusy(c) ==
    /\ Step(c, "w_poll", "w_lock")
    /\ chip = "busy"
    /\ UNCHANGED <<build, writing, xip, primask, chip, saved, ble, bleSaw,
                   waiting>>

(* systick_poll_timeout returns after 1 or 7 ms, whatever the chip does.   *)
WritePoll(c) ==
    /\ Step(c, "w_poll", "w_lock")
    /\ UNCHANGED <<build, writing, xip, primask, chip, saved, ble, bleSaw,
                   waiting>>

WriteLock(c) ==
    /\ Step(c, "w_lock", "w_status")
    /\ primask' = TRUE
    /\ UNCHANGED <<build, writing, xip, chip, saved, ble, bleSaw, waiting>>

(* spi_flash_write_status_check returns when the chip no longer works; a   *)
(* Puya build then leaves its second critical section.                     *)
WriteStatus(c) ==
    /\ Step(c, "w_status", IF writing THEN "w_clear" ELSE "start")
    /\ chip \notin {"young", "busy"}
    /\ IF build = "puya" THEN Unmask(c) ELSE UNCHANGED primask
    /\ UNCHANGED <<build, writing, xip, chip, saved, ble, bleSaw, waiting>>

(* Mutant: the flag is left set.                                           *)
WriteClearForgotten(c) ==
    /\ Step(c, "w_clear", "start")
    /\ UNCHANGED <<build, writing, xip, primask, chip, saved, ble, bleSaw,
                   waiting>>

WriteClear(c) ==
    /\ Step(c, "w_clear", "start")
    /\ writing' = FALSE
    /\ UNCHANGED <<build, xip, primask, chip, saved, ble, bleSaw, waiting>>

(* spi_flash_xip_start: it looks at the status outside its critical        *)
(* section.                                                                *)
Start(c) ==
    /\ Runs(c)
    /\ pc[c] = "start"
    /\ IF xip
       THEN Return(c)
       ELSE Goto(c, "start_locked") /\ UNCHANGED <<primask, saved>>
    /\ UNCHANGED <<build, writing, xip, chip, ble, bleSaw, waiting>>

StartLocked(c) ==
    /\ Runs(c)
    /\ pc[c] = "start_locked"
    /\ xip' = TRUE
    /\ Return(c)
    /\ UNCHANGED <<build, writing, chip, ble, bleSaw, waiting>>

-----------------------------------------------------------------------------
(* flash_reading_critical, which masks interrupts only within its parts.   *)

flash_reading_critical(c) == CallDriver(c, "r_stop")

ReadStop(c) ==
    /\ Step(c, "r_stop", IF xip THEN "r_stop_locked" ELSE "r_func")
    /\ UNCHANGED <<build, writing, xip, primask, chip, saved, ble, bleSaw,
                   waiting>>

ReadStopLocked(c) ==
    /\ Step(c, "r_stop_locked", "r_func")
    /\ xip' = FALSE
    /\ UNCHANGED <<build, writing, primask, chip, saved, ble, bleSaw, waiting>>

(* The transfer itself is one critical section (stig_rd_wr).               *)
ReadFunc(c) ==
    /\ Step(c, "r_func", "start")
    /\ UNCHANGED <<build, writing, xip, primask, chip, saved, ble, bleSaw,
                   waiting>>

-----------------------------------------------------------------------------
(* deep_sleep, called by the main loop with interrupts masked.             *)

SleepBegin ==
    /\ Runs("thread")
    /\ pc["thread"] = "idle"
    /\ ~waiting
    /\ primask' = TRUE
    /\ xip' = FALSE
    /\ Goto("thread", "s_down")
    /\ UNCHANGED <<build, writing, chip, saved, ble, bleSaw, waiting>>

SleepDown ==
    /\ Step("thread", "s_down", "s_wfi")
    /\ chip' = "down"
    /\ UNCHANGED <<build, writing, xip, primask, saved, ble, bleSaw, waiting>>

(* The processor wakes up; the Bluetooth core has still to, and its        *)
(* interrupt stays disabled until WkupEnd.                                 *)
SleepEnd ==
    /\ Runs("thread")
    /\ pc["thread"] = "s_wfi"
    /\ chip' = "idle"
    /\ xip' = TRUE
    /\ waiting' = TRUE
    /\ Return("thread")
    /\ UNCHANGED <<build, writing, ble, bleSaw>>

-----------------------------------------------------------------------------
(* BLE_Handler.  It is not interrupted: only LVD33_Handler, which touches  *)
(* no flash, is more urgent.                                               *)

BleStep(from, to) == ble = from /\ ble' = to

(* Mutant: only the writing flag is looked at, not XIP, which a read has   *)
(* switched off as well.                                                   *)
BleEnterWritingOnly ==
    /\ ~primask /\ ~waiting
    /\ BleStep("none", IF writing THEN "suspend" ELSE "isr")
    /\ bleSaw' = [writing |-> writing, xip |-> xip]
    /\ UNCHANGED <<build, writing, xip, primask, chip, pc, saved, waiting>>

BleEnter ==
    /\ ~primask /\ ~waiting
    /\ BleStep("none", IF writing THEN "suspend"
                       ELSE IF xip THEN "isr" ELSE "on")
    /\ bleSaw' = [writing |-> writing, xip |-> xip]
    /\ UNCHANGED <<build, writing, xip, primask, chip, pc, saved, waiting>>

(* spi_flash_prog_erase_suspend: a chip that is not working ignores it.    *)
BleSuspend ==
    /\ BleStep("suspend", "wait")
    /\ chip' = IF chip = "busy" THEN "suspended" ELSE chip
    /\ UNCHANGED <<build, writing, xip, primask, pc, saved, bleSaw, waiting>>

(* Until the chip is neither working nor without a suspend bit.            *)
StopsWaiting == chip \notin {"young", "busy"}

BleWait ==
    /\ BleStep("wait", IF bleSaw.xip THEN "isr" ELSE "on")
    /\ StopsWaiting
    /\ UNCHANGED <<build, writing, xip, primask, chip, pc, saved, bleSaw,
                   waiting>>

BleXipOn ==
    /\ BleStep("on", "isr")
    /\ xip' = TRUE
    /\ UNCHANGED <<build, writing, primask, chip, pc, saved, bleSaw, waiting>>

(* ble_stack_isr returns.                                                  *)
BleIsr ==
    /\ BleStep("isr", IF ~bleSaw.xip THEN "off"
                      ELSE IF bleSaw.writing THEN "resume" ELSE "none")
    /\ UNCHANGED <<build, writing, xip, primask, chip, pc, saved, bleSaw,
                   waiting>>

BleXipOff ==
    /\ BleStep("off", IF bleSaw.writing THEN "resume" ELSE "none")
    /\ xip' = FALSE
    /\ UNCHANGED <<build, writing, primask, chip, pc, saved, bleSaw, waiting>>

BleResume ==
    /\ BleStep("resume", "none")
    /\ chip' = IF chip = "suspended" THEN "busy" ELSE chip
    /\ UNCHANGED <<build, writing, xip, primask, pc, saved, bleSaw, waiting>>

(* BLE_WKUP_Handler, whose code is in the flash.                           *)
WkupEnter ==
    /\ ~primask /\ waiting
    /\ BleStep("none", "wkup")
    /\ UNCHANGED <<build, writing, xip, primask, chip, pc, saved, bleSaw,
                   waiting>>

WkupEnd ==
    /\ BleStep("wkup", "none")
    /\ waiting' = FALSE
    /\ UNCHANGED <<build, writing, xip, primask, chip, pc, saved, bleSaw>>

-----------------------------------------------------------------------------
(* The chip.                                                               *)

ChipOlder ==
    /\ chip = "young"
    /\ chip' = "busy"
    /\ UNCHANGED <<build, writing, xip, primask, pc, saved, ble, bleSaw,
                   waiting>>

ChipDone ==
    /\ chip \in {"young", "busy"}
    /\ chip' = "idle"
    /\ UNCHANGED <<build, writing, xip, primask, pc, saved, ble, bleSaw,
                   waiting>>

Call(c) == flash_writing_critical(c) \/ flash_reading_critical(c)

Driver(c) ==
    \/ WriteStop(c) \/ WriteProgram(c) \/ WriteDelay(c) \/ WritePoll(c)
    \/ WriteLock(c) \/ WriteStatus(c) \/ WriteClear(c)
    \/ ReadStop(c) \/ ReadStopLocked(c) \/ ReadFunc(c)
    \/ Start(c) \/ StartLocked(c)

Sleep == SleepBegin \/ SleepDown \/ SleepEnd

Handler ==
    \/ BleSuspend \/ BleWait \/ BleXipOn \/ BleIsr \/ BleXipOff
    \/ BleResume \/ WkupEnd

Chip == ChipOlder \/ ChipDone

Next ==
    \/ \E c \in Callers : Call(c) \/ Driver(c)
    \/ Sleep
    \/ BleEnter \/ WkupEnter \/ Handler
    \/ Chip

Spec == Init /\ [][Next]_vars

(* A caller's step is strongly fair: interrupts may come without end, but  *)
(* between two of them the interrupted code goes on.  Handlers and the     *)
(* chip are not interrupted.                                               *)
FairSpec ==
    /\ Spec
    /\ \A c \in Callers : SF_vars(Driver(c))
    /\ WF_vars(Sleep)
    /\ WF_vars(Handler)
    /\ WF_vars(Chip)

-----------------------------------------------------------------------------
(* Where a caller is, in terms of what it has set up.                      *)

Active(c) == pc[c] # "idle"

(* The operation may be suspended, and BLE_Handler knows.                  *)
Window(c) ==
    \/ pc[c] \in {"w_poll", "w_lock", "w_clear"}
    \/ pc[c] = "w_status" /\ (build = "none" \/ (build = "puya" /\ ~saved[c]))

(* The chip may be at work for c.                                          *)
Working(c) == pc[c] \in {"w_delay", "w_poll", "w_lock", "w_status"}

XipIsOff(c) ==
    pc[c] \in {"w_program", "w_delay", "w_poll", "w_lock", "w_status",
              "w_clear", "r_func", "start", "start_locked"} \union SleepPcs

(* Interrupts are certainly masked, and certainly not, by the driver.      *)
Locked(c) ==
    \/ pc[c] \in {"w_program", "w_delay"} \union SleepPcs
    \/ pc[c] = "w_status" /\ build # "none"

Unlocked(c) ==
    /\ ~saved[c]
    /\ \/ pc[c] \in {"idle", "w_stop", "w_poll", "w_lock", "w_clear"} \union ReadPcs
       \/ pc[c] = "w_status" /\ build = "none"
       \/ pc[c] \in StartPcs /\ build # "tsingteng"

(* XIP as the interrupted code left it.                                    *)
XipBelow == IF ble \in {"none", "wkup"} THEN xip ELSE bleSaw.xip

(* The inductive invariant.  Callers: what holds wherever a caller is.     *)
CallersInv ==
    /\ ~(Active("thread") /\ Active("irq3"))
    /\ pc["irq3"] \notin SleepPcs
    /\ XipBelow <=> ~(\E c \in Callers : XipIsOff(c))
    /\ writing <=> (\E c \in Callers : Window(c))
    /\ \A c \in Callers :
         /\ pc[c] \in {"w_delay", "w_poll", "w_lock"} => build = "puya" /\ ~saved[c]
         /\ pc[c] = "w_clear" => build # "tsingteng" /\ (build = "puya" => ~saved[c])
         /\ pc[c] \in {"idle"} \union SleepPcs => ~saved[c]
         /\ Locked(c) \/ saved[c] => primask
         /\ Unlocked(c) /\ Active(c) => ~primask
    /\ (\A c \in Callers : ~Active(c)) => ~primask

(* The handlers: they start unmasked, and undo what they did.              *)
HandlerInv ==
    /\ primask => ble = "none"
    /\ ble \notin {"none", "wkup"} =>
         /\ (bleSaw.writing <=> writing)
         /\ ~waiting
         /\ bleSaw.writing => ~bleSaw.xip
    /\ ble \in {"suspend", "wait", "resume"} => bleSaw.writing /\ ~xip
    /\ ble = "on" => ~bleSaw.xip /\ ~xip
    /\ ble = "isr" => xip
    /\ ble = "off" => ~bleSaw.xip /\ xip
    /\ ble = "wkup" => waiting
    /\ WakeOps = {} /\ waiting => \A c \in Callers : ~Active(c)

(* The chip: it works only for a caller that waits for it.                 *)
ChipInv ==
    /\ chip \in {"young", "busy", "suspended"} => \E c \in Callers : Working(c)
    /\ chip = "down" => pc["thread"] = "s_wfi"
    /\ chip = "suspended" => ble \in {"wait", "on", "isr", "off", "resume"}
    /\ ble \in {"on", "isr", "off", "resume"} => chip \in {"idle", "suspended"}
    /\ build = "puya" /\ chip = "young" =>
         \E c \in Callers : Working(c) /\ ~Window(c)

(* The driver, the handlers and the chip agree about what is in flight.    *)
(* It is the inductive invariant of SpiFlashProofs, checked here first.    *)
FlashInv == TypeOK /\ CallersInv /\ HandlerInv /\ ChipInv

-----------------------------------------------------------------------------
(* Properties                                                              *)

(* Every command of the driver and of BLE_Handler finds the controller out *)
(* of the read mode and a chip that hears it, so that the dummy read of    *)
(* xip_start gets its answer (the assertion of quad_io_read_dummy), no     *)
(* program or erase command is dropped, and BLE_Handler's assertion that   *)
(* XIP is off while an operation is in flight holds.                       *)
CommandsHeard ==
    /\ \A c \in Callers :
         /\ pc[c] = "w_program" => ~xip /\ chip = "idle"
         /\ Runs(c) /\ pc[c] \in {"r_func", "start_locked", "s_down"} =>
                ~xip /\ chip = "idle"
    /\ ble \in {"suspend", "resume"} => ~xip /\ ~bleSaw.xip
    /\ ble = "on" => ~xip /\ chip \in {"idle", "suspended"}

(* The flash answers instruction fetches.                                  *)
CodeReadable == xip /\ chip \in {"idle", "suspended"}

(* Code in the flash runs only when the flash answers: the main loop and   *)
(* the tasks, a handler of priority 3 whenever it could preempt, the       *)
(* Bluetooth stack within BLE_Handler, and the wake-up handler, which,     *)
(* unlike BLE_Handler, is not kept out of the flash.                       *)
FetchServed ==
    /\ ble = "none" /\ (\A c \in Callers : ~Active(c)) => CodeReadable
    /\ ble = "none" /\ ~primask /\ ~Active("irq3")
          /\ BasePriority("irq3") < Priority("thread") => CodeReadable
    /\ ble \in {"isr", "wkup"} => CodeReadable

(* What the workaround is for: in the first 500 us of an operation a Puya  *)
(* chip is not told to suspend, and no interrupt that would do so can be   *)
(* taken.                                                                  *)
NoEarlySuspend ==
    build = "puya" /\ chip = "young" =>
        /\ ble # "suspend"
        /\ writing => primask

(* Every driver call returns, however often BLE_Handler suspends it, in    *)
(* the builds for the shipped parts: the last wait for the chip is one     *)
(* with interrupts masked.                                                 *)
OperationEnds ==
    \A c \in Callers : Active(c) /\ build # "none" ~> ~Active(c)
=============================================================================
