# A specification of the LinkedSemi LE501x SDK

TLA+ modules for the parts of the SDK whose logic is its own, TLC configurations
that check them on small instances, and proofs for the TLA+ proof system. The
modules are written from the C code; every definition that stands for code is
listed with its lines in `PROJECT.json` ("map").

Contents: [inventory](#1-inventory) · [modules](#2-modules) · [runs](#3-runs) ·
[proofs](#4-proofs) · [findings](#5-what-the-violated-properties-show) ·
[not modelled](#6-what-is-not-modelled) · [plan](#7-plan)

## 1. Inventory

The repository is an SDK for a Bluetooth LE chip without an operating system of
its own. Most of its 989 files are register headers, board projects, mesh and
BLE profile headers, a FreeRTOS port and third-party libraries; the link layer
is in ROM or in binary libraries. What is left, and has behaviour worth a model:

| component | state | operations | interacts with |
|---|---|---|---|
| `module/static_buffer/fifo.c` | an array, a write and a read index | put, get, flush | one context puts, another gets, no lock; under async_call, uart and the controller |
| `module/static_buffer/linked_buffer.c` | elements, free list, reference counts | alloc, retain, release, contain | node pool of tinyfs; the controller |
| `module/common/async_call.c` | a fifo of calls | post from any interrupt level, process | cpu.c critical sections, fifo |
| `module/common/linked_async_framework.c` | a list of requests, the first of them under way | start, end (calls back) | callbacks start the next |
| `module/common/circular_doubly_linked_list.c` | pointers | insert in order, pop, extract | sw_timer, calendar |
| `module/common/sw_timer.c`, `sw_timer_port.c` | ordered list of timers, one compare register, interrupt mask and status | start, stop, interrupt, callbacks | every context; the clock runs beside it |
| `module/calendar/calendar.c` | time base, alarm list, two timers | set time, set and remove alarm, two callbacks | sw_timer |
| `module/tinyfs` | flash sections, one-page cache, RAM lists and tree | init, mkdir, write, delete, write-through, collection | flash; power losses |
| `module/settings/inflash_settings.c` | one flash page | get, set, make invalid | flash; power losses |
| `module/settings/ota_settings.c`, `ble_fota_server`, `boot_ram_le501x.c` | the transfer, three settings, two image areas | requests of the client, FINISH, boot | client over the air, settings, power losses |
| `peripheral/src/spi_flash*.c`, `flash_svcall.c` | suspend state | program, erase, suspended by the radio | BLE interrupt (`platform.c`) |
| `soc/.../sleep.c`, `sys_stat.c`, `systick.c`, `freertos_adapt_*.c` | reasons not to sleep, ticks | sleep, wake up | sw_timer_port, FreeRTOS |
| `peripheral/src/uart.c`, `lsi2c.c`, `lsspi.c`, ... | transfer state, buffer, count | start, interrupt, callback | hardware |

What makes them hard: interrupts between any two accesses (fifo, sw_timer,
async_call, uart); a clock that moves between two instructions (sw_timer,
sleep); power that fails between or within two flash operations (tinyfs,
settings, update); callbacks that call the module that calls them (sw_timer,
linked_async, calendar); numbers that wrap (clock, section number, indices);
rows, rings and pools that fill up (settings, tinyfs, fifo, linked_buffer).

What makes each correct:
fifo - first in, first out, without a lock, at most `length` items.
tinyfs - after a power loss the content is one that was current at or after the
last write-through, flash is programmed only where it is erased, live data is
always readable, room is made in time, every call returns.
settings and update - whatever happens the chip starts a whole image, and the
one it was told to. sw_timer - no timer early, out of order, drifting or lost.
calendar - an alarm rings at its time, whatever is set meanwhile.
async_call - each call accepted runs once, in order. linked_buffer - an element
is free exactly while nobody refers to it. linked_async - one request at a time,
none forgotten. spi_flash - no read of the chip while an operation is not
suspended. sleep - never past a timer that is due. uart - each byte once, one
callback per transfer.

`PROJECT.json` lists all components with their status, and under "hazards" each
place where one of these can go wrong.

## 2. Modules

```
BoundedQueue  <--implements--  Fifo            <--proofs--  FifoProofs
VersionedStore <--implements-- TinyFs          <--TLC--     MCTinyFs, <--proofs-- TinyFsProofs
                               InflashSettings <--extends-- OtaUpdate <--proofs-- OtaProofs, OtaVersionProofs
TimerService  <--implements--  SwTimer         <--TLC--     MCSwTimer
                               Cdll            <--instance- SwTimer <--proofs-- SwTimerProofs
                               Calendar        <--proofs--  CalendarProofs
                               SpiFlash        <--proofs--  SpiFlashProofs
                               Uart            <--proofs--  UartProofs
```

**Fifo**. `wr_idx`, `rd_idx` and `buf` are `struct fifo_env`. `general_fifo_put`
and `dword_fifo_put` are the same operation in three steps, `PutTest`, `PutCopy`
and `PutAdvance`, because a context may be interrupted between them; get
likewise. `Held` reads the two indices as a sequence, and with it Fifo
implements **BoundedQueue**.

**TinyFs**. `flash` is a function from sections to units; a unit is a section
head, a piece of a node's metadata (the first and `MetaRest` more), of a record's data
or of a CRC, or erased. Each of them may be the last of a section, and what follows is
read from the next one (`Behind`). `cache`, `off`,
`head`, `tail`, `gc`, `count` are the RAM of `tinyfs_env` and of the write cache;
`lists` are the per-section lists of live nodes. A call (`WriteRecord`,
`MakeDir`, `DelRecord`, `DelDir`, `WriteThrough`) starts an update and the steps
that follow are the code's: `CopyNode` for each node collected, `Program` for
each portion that reaches the cache or the flash, `NextSection` for the erase
and the head of the next section, `CollectionDone`. `Recovered` is
`tinyfs_init`, with `HeadAndTail` for `find_head_tail_section`, `ScanSection`
and `LogOf` for `nodes_info_load`, and is applied to the flash at each
`PowerLoss` and, with a page left in part, `PowerLossInPage`.
**VersionedStore** is what the user is promised: a sequence of versions, the
last is current; a power loss may bring back any of those since the last
write-through, and nothing else. A version is the set of nodes.

**InflashSettings** gives the settings page and its four operations as
functions; programming only clears bits, and a program that runs past the page
wraps within it. **OtaUpdate** puts the client, the FOTA server, the settings
and the boot loader together: one action per request, one per flash operation of
FINISH (`SetFind`, `SetWrite`) and of the boot loader (`CopyErase`, `CopyPage`,
`CopyDone`, `BootApp`), and a power loss between or within them. An image is the
version of each of its pages. The client is the one the protocol asks for: it
goes on to the next sector when all of one is acknowledged, and finishes only
after the integrity check; it may repeat segments, give up, or lose its link. The
check answers one way or the other whatever the image is (`IntegrityCheck`): its result
goes through a pointer that no code sets (fota_svc_server.c:367), and nothing that is
checked or proved relies on the answer. The image is whole by then all the same
(`CheckedWhole`).

**Cdll** is the list, over functions `next` and `prev`. **SwTimer** is
`sw_timer.c` over it: `pc` is the step of `sw_timer_update` that is next, and
the clock (`Tick`) may move between any two of them, which is where a wake-up
would be lost. `callbacks` is the stack of callbacks that run within the loop of
the update, and each may start and stop timers. `stat` and `unmasked` are the
interrupt's status and mask. Nothing preempts the interrupt that uses timers
(priorities in `platform.c:58-71`), and the update runs with interrupts off, so
a caller is interrupted only between computing the target (`StartTarget`) and
the critical section (`StartInsert`). Callers keep the contract of
`calendar.c:35-43`: a timer is started only while it is not active, and stopped
only if found active within the same critical section. **TimerService** is the
promise, with neither list nor compare register nor wrap: `left` is the time
until a timer is due.

**Calendar** is `calendar.c` over two timers as TimerService shows them: each is
called back when due, the one due first before the other. `time_base` and
`timer_count` are the variables of that name, `base` and `recent` the targets of
the two timers (or off), `alarm_list` the alarms with their targets in the order
of the list. `sw_calendar_set_time` is five steps (`SetTime` to `SetUpdate`)
because it has no critical section around it, `sw_calendar_set_alarm` three reads
and a locked insertion (`SetAlarm` to `AlarmInsert`), `sw_calendar_remove_alarm` a
look and a locked removal. The callbacks (`BaseExpires`, `RecentExpires`) begin
`alarm_resched`, which is `Ring` for each alarm due, whatever the program's own
callback does then, and `IsrUpdate`. `busy` counts the ticks for which calls and
interrupts hold one another up. `broken` is set where the C code links or takes out a
header twice: in `sw_calendar_remove_alarm` if the alarm rings between its look at the
list and its critical section, and in `alarm_update` if the base timer is due within it
(`Reenters`). Both can happen, as section 5 shows; nothing can be said of such a list,
so a behaviour ends there.

**SpiFlash** is a flash operation and what may run while it works. `pc` has the
steps of `flash_writing_critical`, `flash_reading_critical` and
`spi_flash_xip_start` for each of two callers, a thread and a handler of priority
3; `build` is which of the three suspend workarounds is compiled in. `Runs` and
`Priority` are the supervisor call the operation runs in. `ble` follows
`BLE_Handler` from its look at XIP and the writing flag to the resume, and the
wake-up handler; `chip` is the flash chip, external to the code: it is busy, may be
suspended, and is deaf while it works or sleeps. Deep sleep (`SleepBegin` to
`SleepEnd`) is there because it powers the chip down and up again.

**Uart** is `uart.c` for one UART. Of `UART_HandleTypeDef` it has the two states,
counts and the buffer pointer; of the hardware the two FIFOs, the shift register,
the threshold RXTL and the interrupt bits. A transfer by polling or by interrupt
is cut where the interrupt handler can come in and see or change a register that
the thread is about to use: before each byte of a polled transfer, between the
read and the write of FCR, between the first byte and the enable bit. The handler
is one action per flag and per byte, its callbacks start the next transfers
(`Reply`, `MayReceive`). A program is one of four `user`s: it transmits only by
polling, only from callbacks, or by both from the thread - the driver claims its
state without a lock, and so must be used from one context. The fourth, "echo", is
`examples/peripheral/uart/uart_it`: it answers from callbacks, and
`HAL_UART_TxCpltCallback` starts the next reception; for the same reason its thread
starts one only while nothing is sent.

**MCTinyFs** and **MCSwTimer** only define the symmetry.

## 3. Runs

| run | configuration | asks |
|---|---|---|
| `fifo` | MCFifo | invariant of the half-done operations; implements BoundedQueue |
| `tinyfs` | MCTinyFs | two records of two lengths, metadata and data across the ends of sections, one power loss: implements VersionedStore, live nodes readable, only erased flash programmed, the ring never closes on live data, recovery finds the section begun last |
| `tinyfs_dirs` | MCTinyFsDirs | directories within directories, forced removal, one power loss: implements VersionedStore, no orphan, every call returns |
| `tinyfs_emptied` | MCTinyFsEmptied | violated: `tinyfs_init` returns, after a write-through that left no live node |
| `ota` | MCOtaUpdate | two updates, three power losses: acknowledged means stored, no half image is started, a start finds a version it may find, and one is always started |
| `ota_slots` | MCOtaSlots | violated: slots suffice, for five updates by copy |
| `sw_timer` | MCSwTimer | three timers, one level of callbacks: order and ring under insertion anywhere, no lost wake-up |
| `sw_timer_live` | MCSwTimerLive | two timers, two levels of callbacks: implements TimerService, every timer started fires |
| `calendar` | MCCalendar | two alarms, time set forwards and back: the list stays ordered and armed, alarms ring in time, the time does not drift, every alarm rings or is removed, until the lists are broken |
| `spi_flash` | MCSpiFlash | three builds, two callers, BLE_Handler and deep sleep: commands heard, fetches served, no suspend too early, operations end |
| `uart` | MCUart | four kinds of program: bytes in order, no overrun, ready only when done, every transfer ends |
| `uart_duplex` | MCUartDuplex | violated: a receive transfer ends, when the thread starts a transmission meanwhile |

Every property of a passing run has a mutant: a change to one mapped definition,
of the kind a slip in that code would be, under which TLC finds it violated.

### Bounds

*Fifo*: length 3, so that the indices run over six values and both wrap; 3423
states.

*TinyFs*: three sections, the least `tinyfs_config.h:9` admits, of eight units, of
ten in `tinyfs_dirs`. Pages are of four units in `tinyfs`, of two elsewhere; nodes are
of three to five (two of metadata, up to two of data, a CRC), so that they end in the
middle of pages, and that the end of a section falls between two units of metadata as
well as before and within data. `FillLimit` (sections begun) is 5 in `tinyfs` and 4
elsewhere: the ring is closed, each section is collected, and the log goes on over
erased sections. `LagLimit` is the number of
updates between write-throughs, so the number of versions a power loss may
choose from. `LossLimit` is one power loss, at any step. `LiveLimit` is how much
live data the caller keeps, 8 units in `tinyfs` and 10 in `tinyfs_dirs`: the code has
no limit of its own and no error for a full store (section 5 says what happens with
more; in `tinyfs` 9 units are too many). `CountSize` 16 keeps the
section number from wrapping, so the runs say nothing beyond 65535 section
changes (see section 5). The passing runs also keep out of the situations of
section 5: a CRC is one unit and straddles nothing, values and sizes are such
that the remains of a node are not mistaken for one, and a store that was emptied
and restarted is left as `pc = "hung"`, which has no next step.

*OtaUpdate*: two sectors of two pages, so that a copy crosses a sector. Two
updates, so that the second meets what the first left in the settings, and three
power losses, so that one may strike the recovery from another. Slots are used up
by requests that are not followed by an erase: `ota_slots` needs five updates
by copy for it. The slots are those of the code (64 bytes: five of the boot address).

*SwTimer*: the clock has 8 values and periods are 1 and 2, so that order and due
are decided across the wrap; an interrupt or step is late by at most `LateLimit`
ticks, without which no order by signed difference is sound (`ClockAssumption`).
Three timers, the least that insert in the middle, with callbacks one deep; two
timers with callbacks two deep, one within another of the same timer included.

*Calendar*: a second of two ticks, so that times in seconds lose half of one, and
a base period of three seconds. Alarms are set to 2, 3, 5 and 7 s, the calendar to
0 and 3 s: alarms of the same time, exactly at the end of a base period, one and
two periods ahead, and passed over or put off by a new time. Calls are made in the
first nine ticks (`CallLimit`), which the first base period ends within; the clock
goes on until all alarms are past. `Stall` is how late an interrupt can be, one
second, with which the unsigned comparison in `alarm_update` still works. Nothing is
assumed of when alarms are removed or where the base timer falls due; a behaviour ends
with the step that breaks the lists, and `AlarmEnds` allows for that end. `BeyondAssumption` says
that the number that stands for "far ahead" is beyond all targets.

*SpiFlash*: nothing is counted, the 599 states are all there are. `WakeOps`, who
may use the flash between a deep sleep and the wake-up interrupt, is empty
(section 5).

*Uart*: FIFOs of two bytes, transfers of one and four to be sent and of one and
three received, so that each is below, at and above the FIFO and the threshold
of two, and the number of bytes received crosses the threshold once downwards.
Only polling programs give `HAL_UART_Transmit` a time limit (`TimedUsers`), and a
thread that also transmits by interrupt receives single bytes only
(`DuplexSizes`); section 5 says why. `uart_duplex` lifts the second.

`CHECK_DEADLOCK FALSE` is given where a behaviour ends at its bounds: the limits
on sections begun (TinyFs) and updates (OtaUpdate), and the states `failed`,
`hung` and `assert`, where the program stops, and the end of Calendar's clock.

### Fairness

TinyFs (`tinyfs_dirs`): weak fairness of the code's own steps
only; the code never waits, and power losses and calls may cease. OtaUpdate: weak fairness of the handler and
the boot loader; nothing is asked of the client. SwTimer: weak fairness of the
update's steps, of the interrupt and of the clock; strong fairness of a callback
returning, which may start and stop timers first and so be disabled in between,
and of a thread getting from `StartTarget` to its critical section, which
interrupts may delay but not for ever. SpiFlash and Uart: weak fairness of the
handlers and of the hardware that needs nobody else (the chip ends what it does,
the line takes what is in the FIFO), strong fairness of the code they interrupt,
which goes on whenever they leave it time; nothing obliges a peer to send, so
ReceiveEnds only speaks of bytes that have come. Calendar: strong fairness of the
clock, the interrupts and the thread, because calls could otherwise follow each
other without end in one tick and keep the interrupts masked.

## 4. Proofs

`FifoProofs` proves, for every `Length`, `IdxSize` and set of items:

* `FifoSafe`: `Spec => []FifoInv`. `FifoInv` is inductive: besides the ranges it
  says that a put under way still has room (`Count < Length`) whatever the get
  did since the test, that what it copied is in the slot `wr_idx` names, and the
  same of the get. Without these two the test could not be used after an
  interruption, and the invariant would not be preserved by `PutAdvance`.
* `FifoImplementsQueue`: `Spec => ImplementsQueue`. The step that matters is
  `PutAdvance`: the slot written is none of those held (`FreeSlot`), so the
  sequence read through the new index is the old one with the item appended.
  `GetAdvance` removes the first (`SlotInArray`, `CountMeaning`).

The only assumption is `LengthAssumption`: the indices, which run over two
lengths, fit their type. `sw_fifo_init` does not check it.

`OtaProofs` proves `OtaAckMeansStored`, `Spec => []AckMeansStored`, for any number
of sectors and pages, of updates and of power losses, from `LayoutAssumption`
(an image has at least one page). `AckMeansStored` alone is not inductive: a
segment is programmed over what its page holds and is good only if that was
erased or the same data. `TransferInv` therefore follows the clean-up
(`CleanInv`: the sectors it has passed are blank), says that afterwards a page is
blank or of the new version until the transfer ends (`FreshInv`), and that while
the client sends nothing but the server runs (`SendingInv`), so that neither
FINISH nor a copy of the boot loader touches the area in between. Every step of
those then falls under `NotSending`. TLC has checked `TransferInv` with the
constants of the run `ota`.

It also proves `OtaBootsWhole`, `Spec => []BootsWhole`, for images of any
size, any kinds of FINISH and any number of updates and power losses, from
`LayoutAssumption` (the layout of the settings page is that of the code). The page
itself is treated word by word:

* `PageSound` is what the page always satisfies: a setting has at most one valid
  slot, and `_settings_get` stops at it (`SettingSound`). It has to be shown of
  every way a slot is made invalid (`BootInvalid`, `CopyInvalid`) or written, whole
  or in part (`BootWritten`, `CopyRequested`, `EraseBurnt`). The sixth slot of the
  boot address reaches into the copy information, so these lemmas show as well that
  a word of the one never completes a slot of the other.
* `UpdateInv` is inductive together with `TransferInv`. Its parts say what holds
  where: the slot that `settings_set` is about to write is free and nothing before
  it stops the search (`SlotInv`); from FINISH to the reset both areas are whole
  (`FinishInv`), so a power loss may leave any of its settings written or not;
  while the application runs there is no request to copy and the boot address is
  the area it runs from (`AppInv`); while the copy is under way its source is whole
  and the request stays, so that it is begun again (`LoaderInv`); and an erase
  request, which takes the boot address with it, is there only while that is the
  default (`EraseInv`). `Restartable` is what a power loss needs of all this.
* `OtaTypeOK`, `Spec => []TypeOK`, follows from the same invariant with the range of
  `i` and of the versions in the flash.

TLC has checked `UpdateInv` with two sectors of two pages, two updates and two
power losses, and with ten updates of one page, by which the slots are used up.

`OtaVersionProofs` proves `OtaBootsAllowed`, `Spec => BootsAllowed` for
`UpdateLimit \in 0 .. 6`, from `LayoutAssumption` and `KindAssumption` (FINISH is used
in the four ways of `FinishSettings`). Six is the number of slots of the boot
address, and with seven updates the property fails (section 5); what counts is the
updates since the page was last erased, and the model may never erase it. Images
are of any size, and there may be any number of power losses. `VersionInv` adds to
`UpdateInv` and `TransferInv`

* `FrontInv`: the slots are used one after the other, so that there is a frontier
  before which none is free and only the last can hold the address, and behind which
  the range is erased; the updates so far account for it. Two things make that
  delicate: a power loss within a write uses a slot up without a value, while its
  update is over, so an update may use one slot at most (`FrontPut`); and
  the sixth slot ends in the first words of the range for copy requests, so it counts
  as used by any update that requested a copy (`FrontierCopied`). With it, the slot of a
  write is free (`RoomForAddress`), and `_settings_get` reads back what was written
  (`BootStored`), which no part of `UpdateInv` says;
* `PromiseInv`: when FINISH has nothing left to set, the settings lead to the area of
  the update, by its address or by a copy;
* `AllowedInv`: wherever a restart would lead from here is of a version it may find.

TLC has checked these parts with six updates, three power losses and images of one
page (1064004 states), and shows the violation with seven.

`SpiFlashProofs` proves `FlashAgrees`, `Spec => []FlashInv`, for every choice of
builds and of `WakeOps`, and from it `FlashCommandsHeard`, `FlashNoEarlySuspend`
and, if `WakeOps = {}`, `FlashFetchServed`. What BLE_Handler does depends on what the
interrupted caller has told it in the writing flag, and what the caller finds
afterwards on the handler having undone what it did by what it read on entry, so
the invariant has a part for each: `CallersInv` (flag and XIP are functions of where
the callers are), `HandlerInv` (what the handler read still holds) and `ChipInv`
(the chip works only for a caller that waits, and is suspended only while the
handler is in between).

`UartProofs` proves `UartSafe`, `Spec => []UartInv`, and `UartSentInOrder`,
`UartBufferKept` and `UartReadyMeansDone` for FIFOs, thresholds and transfers of
any size, in programs that do not limit the time of a polled transmission if they
also transmit by interrupt. `TxInv` says who has the transmitter: where the thread
is, which interrupts are on, and that a transfer by interrupt begins with an empty
FIFO, the only reason why its first byte needs no test. `RxInv` says the same of
the receiver. The order of the bytes (`SentInOrder`) is then proved step by step
from the places of the bytes in flight, which are counted modulo a number larger
than can be on their way (`BehindPlace`).

`CalendarProofs` proves, for seconds, base periods and delays of any length and any
number of alarms, from `TimesAssumption`:

* `CalendarTypeOK`: `Spec => []TypeOK`. The list stays a sequence of alarms through
  `cdll_insert` and `cdll_extract` because the alarm that the thread is about to set
  has its fields (`CallInv`), and the count is never ahead of the clock because the
  callback that moves it on runs only once its target has come.
* `CalendarListOrdered`: `Spec => []ListOrdered`, with no assumption on the program.
  The alarm that the thread puts in is in no list although callbacks come in between
  (`CallInv`); the one it takes out may have rung, which is where a behaviour ends.
  That insertion and removal keep the order, and each alarm once, is proved of
  `Inserted` and `Without` for lists of any length.
* `CalendarKeepsTime`: `Spec => KeepsTime`. A base timer that runs was set one period
  after the count (`BaseFollows`), so its callback, whenever it comes, moves base
  and count by the same amount.
* `CalendarNeverEarly`: no alarm rings before its time, the first half of
  `RingsInTime`. Rounding the time down to seconds is what makes it hold.
* `CalendarArmed`: `Spec => []Armed` if `Stall <= Second`, the removal of an alarm that
  may ring meanwhile and a base timer due in any critical section included. What
  has to be added is `ReadInv`: what the thread has read of clock, count and base
  when it comes to its critical section is not older than the moment at which there
  was last nothing to do (`clock - busy`), and a base timer that runs in between does
  not take its time ahead of the clock.
* `CalendarRingsInTime`: `Spec => RingsInTime` if besides `Stall < Base * Second`. The
  parts added are `SettingInv` (while the time is set the timers are off, and the base
  timer set then does not run before the call returns) and `LateInv` (at that same
  moment no alarm in the list was overdue by a second).

Both bounds are needed, as TLC shows. With a second of two ticks and `Stall = 3` an
alarm just due looks far ahead to the unsigned comparison and `Armed` is violated;
with a base period of one second and `Stall = 2` the base timer falls due within
`sw_calendar_set_time`, whose caller's alarms its callback then rings late. These
theorems, too, speak of a behaviour up to the step that breaks the lists.

`SwTimerProofs` proves, for any number of timers, any periods and depth of
callbacks and a clock of any range, from `NullAssumption`, `DepthAssumption` and
`ClockAssumption` (periods and delays together are less than half the range of the
clock, without which no order by signed difference is sound):

* `TypesHold`: `Spec => []TypeOK`.
* `ListStaysSorted`: `Spec => []InOrder`, the pointers of the list form one ring over
  the active timers, forwards and backwards, in the order of the time left.
* `NoWakeUpIsLost`: `Spec => []WakeUpDue`.
* `UpdateImplementsService`: `Spec => ImplementsService`, the refinement of
  TimerService: every step of the update fires the timer due first, or does nothing
  the service can see.

The invariant, `TimerInv`, has two arguments that do not meet elsewhere. One is
about pointers: `ListInv` says that there is a sequence of timers, sorted by time
left, of which the list is the ring, and lemmas say what `cdll_insert`,
`cdll_extract` and `cdll_pop_front` make of that sequence (`InsertRing`,
`ExtractRing`, `PopRing`). The loop in `cdll_insert` is followed by least elements of
sets of naturals instead of induction. The other is about the clock: `TimesInv`
keeps every target so close to the clock that the difference of two of them,
taken modulo the range and read as a signed number, is their true difference
(`CompareTwo`), also when the clock moves on (`CompareTick`). `WakeInv` then goes
through the update: once `match` is written the interrupt is pending or the clock
still has to come to it, whatever the clock did since `now` was read. TLC has checked
`TimerInv` on the constants of both runs.

`TinyFsProofs` proves, from `SizesAssumption` (sections are whole pages, at least two
units to a page, no record longer than a section, twice as many section numbers as
sections), for any number of sections, any names, values and directories, any number
of updates and of power losses, also within a page:

* `TypeCorrect`: `Spec => []TypeOK`. The end of the log never passes the section and the
  cache always is the beginning of its page. The invariant, `TypesInv`, adds the
  shape of what a call has under way (`CallTypes`, `WriteTypes`) and the shape of the
  flash. A power loss means the lemmas have to say what `tinyfs_init` makes of
  any flash of that shape (`RestartTyped`), reachable or not.
* `TailIsFound`: `Spec => []TailFound`, as long as fewer sections were begun than the
  number counts. `TailFound` is about `find_head_tail_section` alone and says nothing
  of why it succeeds; `RingInv` does: the sections with a head are an arc of the ring
  that ends at the one begun last, and their numbers go up by one along it. An arc
  may begin at any section, so the walk may start in its middle, and may close the
  ring; lemma `ArcEnd` says that the walk ends at its end all the same. The head of the
  tail section may still be in the cache, which makes the section before it the
  newest on the flash (`Newest`).
* `TailStaysErased`: `Spec /\ []CopyFaithful => []TailErased`, flash is programmed only
  where it is erased. What `nodes_info_load` takes for the end of the log must be
  behind all that was programmed, whatever the power loss left of a page. `TailInv`
  says what makes that so: every section is blank, or no page after the first node
  begins with an erased unit before one that does not (`LayoutOk`), and up to
  the cache every page of the tail section has been begun (`TailOk`).
  `CopyFaithful`, that a collection reads what the node it copies holds, is a
  hypothesis because a copy of erased units would itself look like free space; it
  is part of `LiveReadable`, which the run `tinyfs` checks and which is not
  true for all constants (section 5, recovery).

TinyFs follows sections, walks and logs with recursive functions. Nothing the
provers know is about those, and induction over them cannot be cited. Each is an
instance of one scheme (`Recursion`: the value at x is made of the value at one
argument of smaller measure), for which a least counterexample does the work:
`RecursionIsDefined` shows there is such a function, `SolutionsAgree` that there is no
other, and `ByMeasure` carries what is to be said of its values from step to step.

TLC has checked the parts of `TypesInv` and `RingInv` with two sizes of section, three
of pages and two power losses, and those of `TailInv` with the constants of `tinyfs`.

What is stored follows from `ContentInv`, for the same constants:

* `ContentKept`: `Spec => [](pc = "idle" => Live = Current)`. A node is in one list at
  most (`Distinct`), and the lists together with the node being copied and the one
  that a collection holds up (`Held`) are the last version without the change under
  way (`Changed`); so neither an overwritten record that left its list early nor a
  node between two sections is lost or doubled. A power loss makes what it brings
  back the only version, so nothing is said here of what that is.
* `StepsOfStore`: `Spec => [][StoreStep]_vars`, each step but a power loss is one of
  VersionedStore or none, and `ImplementsWithoutLoss` is `Spec => ImplementsStore` for
  `LossLimit = 0`. What a power loss brings back is not proved: that each of them is
  one of VersionedStore's, `RecoveryRestores`, is a part of `ImplementsStore`, which TLC
  checks, and is not true for all constants (section 5). Lemma `ImplementsIfRestored`
  says that nothing else is missing.
* `NoOrphanLeft`: `Spec /\ RecoveryRestores => []NoOrphan`, and `NoOrphanWithoutLoss`.
  The current version alone is not enough: each version since the last write-through
  may come back, so each has to have the directories of its nodes (`Rooted`), also
  those in the midst of `DelDir`, which removes a directory only when nothing is left
  in it.

That there is room for it, and that it can be read, is proved for the time until the
power first fails and for `LiveFits`, `LiveLimit + Page + 1 + MetaRest + Crc <= Size`: live data
fits in one section, beside a page of padding and the node of a removal. This is a
condition on the caller that the code neither states nor tests; without any it is
false (section 5). It is sufficient, not necessary: the constants of the runs, which
TLC checks, do not meet it. With sections of 4096 bytes and pages of 256 it allows
some 3800 bytes of live nodes.

* `RoomUntilLoss`: `Spec => [](losses = 0 => RoomIsMade)`. Counted from `head`, which
  is the section behind the tail, every section before `gc` holds no live node
  (`Emptied`), and while a collection runs all that it still has to write - what waits
  in `gc`, the rest of the node in hand, the padding of a page and the node whose
  call waits - fits in what is left of the tail and one section more (`RoomToCollect`,
  `ToWrite`). The sizes of sets of nodes are folds of the community modules, so first
  come lemmas that say what those sums are (`IsSum` to `CountingOne`).
* `ReadableUntilLoss`: `Spec => [](losses = 0 => LiveReadable)`. `Medium` is what can
  be read of every place through the cache. `ReadOk` says that it holds every entry of
  the lists (`HoldsLists`), and of a node half written that its first units are held
  where it was begun (`Placed`) and the others, fetched from where they are, are
  what its last ones should be (`ToFetch`). A node may begin in one section and go on
  in the next, so `NextSection` must show that neither part of any node lies in
  the section it erases: that is where `RoomOk` is needed (`NextSectionRead`), and for
  `Program` it is that the tail is erased where it is programmed (`TailInv`), which in
  turn needs that copies are exact. `ReadInv` joins them.
* `ErasedUntilLoss`: `Spec => [](losses = 0 => TailErased)`, which is `TailStaysErased`
  without its hypothesis.

TLC has checked, with `MetaRest = 0`, the parts of `RoomOk` with four sets of constants
that meet `LiveFits` (up to 11 million states, one with directories) and those of `ReadOk` with `Size = 10,
Page = 2`, values 1 and 2, `LiveLimit = 6`, `FillLimit = 5` (1125885 states).

Only model-checked: of TinyFs all that depends on what `nodes_info_load` makes of a
log rather than on its type - that recovery brings back a version
(`RecoveryRestores`), and `RoomIsMade` and `LiveReadable` after a power loss or beyond
`LiveFits`. None of these holds for all constants (section 5). All
liveness stays with TLC (`EveryTimerFires`, `AlarmEnds`, `EveryCallReturns` and those
of the other runs).

## 5. What the violated properties show

* `tinyfs_emptied`: `gc_section_find` (tinyfs.c:791) looks for a section with
  live data and never stops when there is none. The run writes a record, removes it,
  writes through and starts again; `tinyfs_init` does not return. The same happens,
  without any of these, after a power loss while the first page of all is being
  programmed, when only a section head is on the flash; `InitReturns` leaves this case
  aside by asking for a content that was written through.
* `ota_slots`: the settings have a fixed number of slots, and no free one ends in
  `LS_ASSERT(offset)` (inflash_settings.c:108). The range of the copy information
  holds four requests; of five updates by copy without an erase, the fifth FINISH
  asserts in its first `settings_set`, with nothing changed yet.
* `uart_duplex`: `HAL_UART_Transmit_IT` writes TXTL by reading and writing all of
  FCR (uart.c:214), and the receive interrupt lowers RXTL in the same register in
  between. The old threshold is put back, and the last bytes of a reception raise
  no interrupt.

Further observations, each of them seen with TLC by changing a constant, that have
no run of their own (those of TinyFs with `MetaRest = 0`, unless it says otherwise):

* TinyFs, live data (tinyfs.c:877): with `MetaRest = 1` and otherwise the constants of
  `tinyfs`, 8 units of live data are readable at every moment, and with
  `LiveLimit = 9` `LiveReadable` is violated. With four records and 12 of 21 units live
  `RoomIsMade` holds; with five and 15 (`Size = 8, Page = 2, NodeMax = 5,
  LiveLimit = 15, LagLimit = 6, LossLimit = 0`) it is violated, and `node_write`
  meets its assertion. Nothing limits what a caller stores. With `Val = {1, 2}`, five
  names and otherwise the same constants `LiveReadable` is violated as well, and
  silently: where a collection begins with `gc` behind the tail, the section that
  `node_write` erases is the one whose last node is being copied. Its list is empty
  by then, so the assertion before the erase holds.
* TinyFs, recovery (tinyfs.c:1002): with `Size = 6, Page = 2`, values 1 and 2 and
  `LiveLimit = 7`, `LiveReadable` is violated: a power loss in a collection, while a
  node is written across two sections, leaves a tail from which recovery derives a
  place that does not hold what it says.
* TinyFs, CRC (tinyfs.c:320): with `Size = 6, Page = 2, Crc = 2`, one name and
  `LiveLimit = 4`, `ImplementsStore` is violated: `node_crc_check` rejects, outside the
  tail section, a CRC that is not within one section, which `node_write` produces.
* TinyFs, numbers (tinyfs.c:260): `loop_count + 1` is computed as an int, so the
  order of the sections is lost when the 16-bit number wraps. `CountSize = 8`,
  `FillLimit = 10` violates `ImplementsStore`.
* OtaUpdate, slots (inflash_settings.c:106): with `Kind = {"boot"}`, one page, no
  power loss and `UpdateLimit = 7`, `BootsAllowed` is violated. `_settings_get` still
  finds the value in the slot at word 31, the last that begins within its range;
  `settings_set` makes it invalid and writes the next one behind it, among the
  copy information, where nothing reads it. There is no assertion, and the chip
  starts the default image instead of the new one. With six updates it holds.
* SpiFlash, `WakeOps = {"irq3"}`: BLE_WKUP_Handler (sleep.c:450) may interrupt a flash
  operation and, unlike BLE_Handler, is itself in the flash. `FetchServed` is
  violated if a handler uses the flash between the wake-up and this interrupt.
* Uart, `TimedUsers` with "thread": after `HAL_UART_Transmit` has timed out on a full
  FIFO, the first byte of the next transfer by interrupt is lost (uart.c:217), and
  `SentInOrder` is violated.
* Calendar, the invariant `~broken` is violated in two ways. `sw_calendar_remove_alarm`
  looks outside its critical section (calendar.c:167); if the alarm rings in between,
  it follows the null pointers of a header that is in no list. And
  `recent_alarm_timer_stop` (calendar.c:57) ends in `sw_timer_update`, whose callback of
  a base timer that is just due runs `alarm_update` within `alarm_update`, and
  `recent_alarm_timer` is inserted twice. No comment, assertion or test of the
  repository says that these cannot happen, so that no run is about them; the other
  properties of `calendar` hold up to that step.
* SpiFlash, the build without a workaround: `OperationEnds` is not stated for it, since
  nothing bounds how often the radio suspends one operation (spi_flash.c:126).
* Calendar, `Stall` more than a second: an alarm due by then looks far ahead to the
  unsigned comparison (calendar.c:55) and is not armed until the base moves on.
* Calendar, calendar.c:22-24: clock, count and base are read without a lock. If the
  base timer's callback runs in between, the thread's time is a base period ahead
  or, the difference being negative, enormous, and an alarm that lies ahead is
  refused. The model has this step (`AlarmBase`); no property says when an alarm may
  be refused.

## 6. What is not modelled

Of the modelled components: sibling links and handles of tinyfs' directory tree,
its hierarchy and read calls, two tasks in tinyfs at once (its mutex functions are
empty), record data beyond its length, a sector erase cut by a power loss
(of a tinyfs section or of the settings page), CRC collisions, the
signature check and the digests, and the pointer `finish_ind` through which the
integrity check stores its result and which is never set (the check returns, with
either answer), disconnection
inside a handler, the wake-up correction of the timer port, the UART's DMA
transfers, automatic baud rate, DeInit and error flags, two contexts that transmit
on one UART, which command a flash operation gives, the other flash controller
(`spi_flash_lsqspiv2.c`, of another chip), the conversion between `struct tm` and
seconds, a calendar set from within an alarm's callback (the base timer is then
inserted twice), whatever the calendar does once its lists are broken (a base timer
due within `alarm_update` counts as that also in the case in which the alarms that its
callback rings leave none near, and nothing is inserted twice). Of sleep only what it does to the flash. Outside: third-party
code (FreeRTOS, tinycrypt, micro-ecc, CMSIS, RTT), the BLE controller and host,
register-level drivers, codecs, logging, the example applications other than
`ble_fota_server`. `PROJECT.json` gives the reason for each.

## 7. Plan

Next, each with its runs and mutants:

1. `Sleep`: vetoes, `timer_sleep`, the tick handshake with FreeRTOS; a look at
   `peri_status_busy` before the critical section (freertos_adapt_mcu.c:390).
2. `UartDma`: the end of a DMA transmission is reported on a TXS that may be older
   than its last bytes (uart_dma.c:23), and both kinds of transfer share DMAEN.
3. `AsyncCall`: posts from nested interrupt levels over the steps of Fifo, within
   the critical section that makes them one producer; implements BoundedQueue.
4. `LinkedBuffer`: free list and 8-bit counts, with holders as actors.
5. `LinkedAsync`: one request under way, none forgotten, callbacks that start.
6. `TinyFsTree`: handles and sibling links over TinyFs' calls, stale handles.

The list of runs is kept to a dozen: as components are added, questions that one
configuration can answer share a run, and what a violated property has to say is
kept in section 5 when its run has to make room.

Theorems to follow, of TinyFs: that the lists and `LogOf` agree, so that a power loss
brings back a version (`RecoveryRestores`), for constants under which no remains of a
node pass for one and no CRC crosses the end of a section; and with it `LiveReadable`
after recovery.
