# STM32_Handler: TLA+ models and proofs

The repository is the firmware of an STM32F429 board: a dozen thousand lines of its own C and
C++ over FreeRTOS, FatFs, LwIP and the ST HAL.  This directory models the parts of it that carry
state shared by tasks, interrupts, devices and a power supply that may fail, checks the models
with TLC and proves their main properties with TLAPS.  Paths below are relative to `src/Code/`.

## Inventory

| Part | Source | State | Operations | What is hard |
|---|---|---|---|---|
| byte ring | `UsrParts/logger/circular_buffer.h` | `size`, `currentSize`, `head`, `tail`, `data` | Init, Put, Get | the macros are not atomic |
| serial logger | `UsrParts/logger/logger_process.c`, `Drivers/Src/usart_interrupt.c` | two rings, the line buffer, a mutex, the multi-thread flag, TXEIE | `print_log`, `fputc`, `USART1_IRQHandler`, `logger_process_run` | tasks, the idle hook and an interrupt share all of it |
| command reader | `UsrParts/logger/cmd_process.c` | the line being assembled | `cmd_process` | runs in the idle task, which must not block |
| log file | `UsrParts/fatfs_log/fatfs_logs.c` | file state, write count, mutex, message buffer | `fatfs_logs_init`, `fatfs_write`, `fatfs_close`, log task | timeouts, re-opening, a driver that sleeps within FatFs, a failed initialisation, a full volume, loss of power |
| parameter store | `Drivers/Src/drv_flash.c` | two flash pages | `flash_read`, `flash_write`, `flash_set_empty` | power fails between or inside device operations |
| software timers | `Application/Src/timer_manage.cpp` | a list of triggers, a mutex | register, remove, process | a callback that never waits, one-shots that expire |
| I2C monitor | `Application/Src/i2c_monitor.cpp`, `Drivers/Src/drv_i2c_pcf8574.c` | event queue, shadow register, interrupt enable | `pcf8574_write_io`, `run`, the EXTI interrupt | an interrupt that disables itself and a chain of three tasks to enable it again |
| monitor task | `Application/Src/monitor.cpp`, MultiButton | keys, buttons, counters | `run`, button handlers | alarm flag shared with an interrupt, debouncing |
| schedular task | `Application/Src/schedular.cpp` | none | resets the Ethernet chip, blinks | shares the expander's outputs |
| real-time clock | `Drivers/Src/drv_rtc.c` | time, alarm flag | read, update, alarm | carry arithmetic, alarm race |
| software I2C | `UsrParts/soft_i2c`, under `drv_i2c_pcf8574.c`, `drv_i2c_ap3216.c` | two pins, the device | initialise, read and write with or without a register number | SDA changes hands at each acknowledgement; words are refused; the MCU restarts in mid-word |
| serial flash | `Drivers/Src/drv_spi_w25q.c`, `drv_spi.c` | the chip: contents, write enable, busy | identify, erase, program, read | bytes that fail unseen and shift those that follow, waits that time out, a chip still busy from the call before |
| SD card | `Drivers/Src/drv_sdio_dma.c` under FatFs | state of the card, DMA stream | block transfers | READY forced after a time-out; errors of the data phase that nobody reads; a stream shared with SPI5 |
| CAN | `Drivers/Src/drv_can.c` | mailboxes, receive ring | write, receive interrupt | nothing initialises or calls it |
| HTTP server | `UsrParts/web/httpd.c` | one connection | accept, answer, close | its task is never created |
| the rest | ADC, DAC, PWM, LCD, SDRAM, LED, key, watchdog, start-up | registers | set-up and single reads | no protocol between actors |

How they interact: every part logs with `print_log`, under the logger's mutex; a line of level
`LOG_RECORD` goes on to `fatfs_write` while that mutex is held; the idle hook reads commands, whose
execution logs, and `!save` calls `fatfs_close`.  The monitor and the schedular set outputs of
the expander through the I2C monitor's shadow register and its queue; its transfers, and those of the
light sensor, are calls of the software I2C.  The I2C monitor registers one-shot triggers with the software
timers, whose callback posts into its queue.  The log file is on the SD card, below FatFs' disk interface.
The flash store and the serial flash are each used by one caller.  What makes each part correct is stated
as its properties below.

## Modules

| Module | Models | Kind |
|---|---|---|
| `CircularBuffer` | the byte ring | operators on a record |
| `Logger` | logger, UART interrupt, command reader | state machine, EXTENDS `CircularBuffer` |
| `BytePipe` | what the transmit half promises | abstract specification |
| `MCLogger` | instances of `Logger` | checks `PutBlock` against the loop it stands for |
| `FlashStore` | the two-page store | state machine |
| `TimeManage` | the trigger list | operators |
| `I2cMonitor` | I2C monitor, expander, timers | state machine, EXTENDS `TimeManage` |
| `FatfsLog` | the log file | state machine |
| `SoftI2c` | the bit-banged bus and a device on it | state machine |
| `SpiFlash` | driver and chip of the serial flash | state machine |
| `SdCard` | driver, card and DMA stream | state machine |
| `MCDrivers` | `FlashStore`, `SpiFlash` or `SoftI2c`, one in each behaviour | EXTENDS the three, for the checker |
| `MCFatfsLog` | `FatfsLog` or `SdCard`, one in each behaviour | EXTENDS the two, for the checker |
| `MultiButton` | the state machine of a button | operators on a record |
| `Monitor` | buttons, keys and alarm in the monitor's loop | state machine, EXTENDS `MultiButton` |
| `MCMonitor` | the list of started buttons and the alarm times of the run | values of constants |
| `*_proofs` | theorems of the module they are named after | proofs |

Actions bear the names of the functions they model; where a function can be interrupted between
two accesses to shared state, it is one action per access (`IdleLoad`/`IdleStore`,
`LoadShadow`/`StoreShadow`, `FormatHeader`/`FormatBody`).  Calls of the kernel are atomic.
Definitions named after another one with a suffix and commented "Mutant" are deliberately wrong
variants, used to see that a property notices them.

**Logger.**  A thread is where `pc[t]` says in `print_log` or the idle hook.  A log byte is
`<<thread, length, index>>`, a received byte a sequence number and a kind, so that loss, reordering and
mixing can be seen and nothing else can.  `unread` and `lapped` are history.  The transmit side starts
with the multi-thread flag as the monitor task sets it in its first statement, before another
task logs (the schedular waits 400 ticks for the Ethernet reset, the log task waits for a message),
or, in `LoggerUnguarded`, as it stays when that module is off.  The record that a line may leave in
`fatfs_write` is between `EnableTransmit` and `logger_unprotect`, with the mutex held; it changes
nothing that `Logger` has.

**FlashStore.**  A block is erased, torn, other or a value; `flash_write` is one action up to its
first device operation and one per device operation, and `PowerFail` may come between any two.
`ErasePrefixes` says what an interrupted erase may leave: a device that erases all or nothing, or the
`memset` of the default `flash_empty_device`, which clears upwards from the header.

**I2cMonitor.**  The input and two outputs of the expander, its INT line (low while the input
differs from the last transfer), the pending flag and the enable of the interrupt, the queue, the
i2c task, the timer task and the tasks that drive outputs.  `BASEPRI` computes from the kernel's
configuration whether a critical section masks anything (`CriticalMasks`); with the configured
values it does not, which allows more interleavings, so what holds then holds with a correct value
too.  `broken` is history: an event of the interrupt's chain was refused; `stale`: a write
of the outputs was.  The timer task takes the mutex of the timers without waiting; it never finds it taken, for
the only other taker is the i2c task, which has the higher priority and does not block while it holds it.

**FatfsLog.**  Writers, the idle task and the log task; FatFs is what `f_open`, `f_write`, `f_sync`
and `f_close` do to the records the directory entry counts (`disk`) and those in the open file
(`pending`).  The initialisation may fail at any of its steps (`result`): `main` starts the scheduler all the
same, without a log task after a failed mount or open.  The idle task has the lowest priority (`MayRun`), but
the SD driver sleeps in the middle of a call of FatFs (`delay_ms`, `drv_sdio_dma.c:132,161`, is `vTaskDelay`
once the scheduler runs), so an actor in FatFs holds up nobody, and FatFs is built without re-entrancy.
`shared` is history: FatFs was entered while another actor was in it.  What two such calls make of the volume
is not modelled, and the properties of the file speak of the behaviours before; `OneInFatFs` says when it can
happen.  `cut` is history: on a full volume `f_write` returns `FR_OK` with a short count, which
`fatfs_device_write` does not look at.  An `f_open` that fails leaves the FIL invalid, and what it held
unsynchronised is gone.  `PowerCycle` keeps `disk`.

**Monitor.**  The counts of a button wrap at the widths of `struct Button`, 3 bits and 16: a
`DEBOUNCE_TICKS` of 8, the "MAX 8" of `multi_button.h:14`, is never reached by a count of 3 bits, and no
level would be taken over.  One pass of the loop is `ReadAlarm` to `ClearAlarm` (`timer_loop_motion`), one
`ButtonTick` for each button of the list in its order (last started, first), and `ScanKeys`.  `acts` is
history: whether the handler of a button's last press or release returned at once because the other button
was down.  `run` counts equal reads of a key, `news` is an alarm not yet reported. An alarm is `set` until
the next pass of `timer_loop_motion` is over and `due` from then: five seconds against a loop of 20 ms and
its log output.  A log line that waited for five seconds would lose that, and only that assumption keeps an
alarm from coming between the report and the clear of the one before.

**SoftI2c.**  One action is one operation on a pin, and the device on the bus, which is not part of the
firmware, reacts to the edge in the same step: it knows nothing of calls, only levels, so that an edge at
the wrong time would be a start or a stop to it.  A call is the list of functions it has yet to run
(`todo`), built as the source's loops build it; a function that gives up jumps to the stop.
A device may refuse any word and answers a read with any, and `Reset` restarts the MCU at any edge
without the device noticing.  `slave.got` and `slave.gave` are what the device took and sent in the call.

**SpiFlash.**  One action is one selection of the chip.  A byte may fail; `lost` records that one failed
whose status the driver drops, so that `OkIsDone` says exactly what an unreported failure costs.  The select
line stays low after it, and the chip takes the bytes that follow in its place: a page program is executed
however long it is, somewhere (`Astray`), an erase only at its exact length.  The two bytes of the
identifier fail each by itself: half read it is `0xEFFF`, which is of the manufacturer but not the
W25Q256's, and the driver goes on with three bytes of address for a chip that may have been told to take
four, now (the result of the switch is dropped) or before a restart of the MCU.  `Agreed` is that both mean
the same length, `Reached` is what the chip can be made to act on (three bytes reach the `LowBlocks`),
`Named` the sectors the bytes of an address name.  The chip ends what it is doing at any time, before or
after the driver has stopped waiting for it.

**SdCard.**  The driver polls; the card takes a command only in its transfer state, sends or takes a block
at any time, or never.  A block may arrive or be refused with a bad CRC or be cut by an overrun or underrun
of the FIFO (`damaged`): those flags are for the interrupt handler, which is not enabled, and the driver
goes by the state of the card.  The response to a command may be lost after the card took it (`unanswered`).
`SPI_RUN_MODE` is the build: with "DMA", the default, `spi_driver_init` gives `DMA2_Stream3`, which
`sdcard_driver_init` has just configured for the card, to SPI5.  Both builds are initial states.

**MCDrivers, MCFatfsLog.**  The drivers share no state, and no call of one is made within a call of
another, so an instance that ran them side by side would only multiply the states: a behaviour chooses one
of them at the start (`part`), and the others rest.  `FatfsLog` sees the card as FatFs' errors
(`DiskFails`), which come at any call; what `SdCard` finds about them is below.

## Runs

| Run | Question | Properties | Bounds, and why they are enough |
|---|---|---|---|
| `logger_tx` | do lines reach the wire whole, in order, and at last? | `TypeOK`, `LineWhole`, `TransmitArmed`, `NoForeignGive`, `TransmitIsPipe` | 2 tasks, lines of 3 bytes, a ring of 4: a line and a `printf` byte fill it, a second line is refused, lines wrap |
| `logger_rx` | what does the race on `currentSize` cost? | `TypeOK`, `RxInOrder`, `RxCountBehind` | a ring of 2 bytes, commands of 1 or 2: full, wrapped, and cut by length or by newline |
| `flash_store` (`MCDrivers`) | does a power failure ever lose or revive a value? | `TypeOK`, `WrittenIsRead`, `OnePageValid`, `ReadIsRecent`, `ValueKept`, `WrittenUpwards` | 2 blocks a page: every third write changes page; 3 values tell the last, the cut and an older one apart |
| | does the serial flash do what it answers? | `OkIsDone`, `NothingElse` | 2 blocks of 2 sectors: a sector, its block and the chip are told apart; three bytes of address reach one of the blocks; time-outs of 2 and 3 polls |
| | does the bus carry each word once, and is it free afterwards? | `BusRules`, `Delivered`, `BusReleased` | words of 3 bits, so that both values are at every position; an address that answers and one that does not; one and two words each way |
| `i2c_monitor` | is every interrupt answered once, and enabled again? | `TypeOK`, `OneRead`, `OneTriggerPerEvent`, `WritePending`, `DelayKept`, `Rearmed` | queue of 2, so that it is full for each poster; 3 trigger slots, one more than used; a delay of 2 periods; transfers fail |
| `fatfs_log` (`MCFatfsLog`) | when are two in FatFs, and does the file else stay in order, and keep what was synchronised? | `TypeOK`, `OneInFatFs`, `FileInOrder`, `UnsyncedBounded`, `OpenKeepsReported`, `SyncedIsKept` | 5 records, a sync after every third, a buffer of 2 messages: a sync and records beyond it, a close and a re-open, a full buffer, a full volume and power failures fit, in any order of each |
| | is a transfer of the card what was reported, and does the card come back? | `SdTruthful`, `BufferOwned`, `CardComesBack` | 2 blocks with 2 contents, transfers of 1 and 2 blocks, a time-out of 2 ticks: it ends before, at and after the transfer |
| `monitor` | does one of two presses take effect, is every edge seen, does the alarm come and stay? | `TypeOK`, `ExclusivePress`, `EdgesReported`, `KeysDebounced`, `AlarmKept`, `AlarmOnTime` | the two buttons that exclude each other and the touch pad; limits of 2, 2 and 3 ticks, so that each state is left by its time-out and before it, and a second press in time ends before and after the short limit; a time that carries to the next week and one that does not |
| `logger_rx_stall` | violated: `RxEventuallyTaken` | | ring of 2 |
| `logger_unguarded` | violated: `LineWhole` without the multi-thread flag | | 2 tasks |
| `flash_torn_erase` | violated: `WrittenIsRead` with interrupted erases | | 2 blocks |
| `i2c_unmasked` | violated: `OneOutputStored` with the configured priorities | | both drivers |
| `i2c_lost_edge` | violated: `ReadCatchesUp` | | no failures, room in the queue |
| `fatfs_reopen` | violated: `ReportedIsKept` after `!save` | | 3 records |

`RecordMax` bounds the records of a behaviour of `FatfsLog`; `RxMod` bounds the sequence numbers of
`Logger` (two more than the ring, so neighbours are told apart); `age` of `I2cMonitor` stops at the
delay.  No other counter is bounded; the ticks of a button are kept while a state reads them.  `LoggerRxStall.cfg`
alone turns the deadlock check off: with no tasks and nothing received the logger may stop.

What the violated runs show:

1. *Receive stall.*  `CircularBufferGet` in the idle task and `CircularBufferPut` in the interrupt both
   change `currentSize` (`logger_process.c:87`, `circular_buffer.h:35,40`).  An increment that
   falls between the load and the store is lost.  The passing run and the theorems say what remains true:
   the count never wraps below zero, and until a byte is stored over an unread one order is kept, no byte is
   read twice and the count only lags; but a byte may wait for the next one.  After that the count may be ahead:
   in a full ring `CircularBufferGet` decrements it (`:40`) before it reads the byte (`:42`), and the interrupt
   may store over that byte in between.
2. *Unguarded lines.*  With `MONITOR_MODULE_STATE` off (`Core/Inc/product_config.h:81`) nothing calls
   `logger_set_multi_thread_run`, and two tasks mix their lines.
3. *Torn erase.*  An erase cut short after the header makes the page look erased
   (`drv_flash.c:108,243`), its old blocks come back, and a later completed write is not read back.
4. *Unmasked sections.*  `0x50 << 4` does not fit in BASEPRI (`FreeRTOSConfig.h:153,160`); critical
   sections mask nothing and one task's store of the shadow register undoes another's.
5. *Lost edge.*  The pending flag is cleared long after the inputs were read (`i2c_monitor.cpp:143,169`).
6. *Re-open.*  After `!save` every record discards the unsynchronised one before it (`fatfs_logs.c:211`).

What the properties of the drivers leave out, because the code does not give it:

* *Restart in a read.*  A restart while the device pulls SDA leaves it there; `i2c_soft_init` gives no clock
  pulses, and every later call fails in `i2c_idle_check`.  `BusReleased` says that this is the only way.
* *Erase after a time-out.*  The erases send WREN and only then wait (`drv_spi_w25q.c:110`), so after a call
  that timed out a busy chip ignores it, refuses the erase and the answer is `WQ_OP_OK`.  The page program
  waits first, and is done (`OkIsDone`).  The answer without a chip, `pdFAIL` (`:245`), is the value of `WQ_OP_OK`.
* *Lost bytes.*  Only the first byte of a command has its status looked at.  A page program that lost another
  one is executed with its bytes shifted, in the wrong sector perhaps, and answered with `WQ_OP_OK`; with driver
  and chip at odds over the length of an address (`:59`, `:69`) an erase is ignored and answered so, without a byte
  lost in that call.  `OkIsDone` names both; `NothingElse` says what is left of the damage: one
  sector for a page program, nothing but erased sectors for an erase.  A chip erase is one byte, and may be executed and
  reported as failed.
* *Shared stream.*  In the default build SPI5 has `DMA2_Stream3` once `wq25_driver_init` has run
  (`drv_spi.c:132`, `drv_sdio_dma.c:95`): no write to the card completes, and the card then waits for data
  and takes no other command.  `SdTruthful` and `CardComesBack` say that it is reported as a failure, and that
  with its own stream the card comes back from any time-out, but for transfers of several blocks, whose stop
  command would come from an interrupt that is not enabled, and for a write whose response was lost, whose
  stream is never started.
* *Errors of the data phase.*  A block the card refuses for its CRC is answered with `HAL_OK`, and so is one
  that arrives damaged (`drv_sdio_dma.c:129-141,158-167`): `SdTruthful` promises the data only where that phase
  did not fail.
* *Two in FatFs.*  A task that found `is_fatfs_os_on` at 0 may sleep in `f_write` when the log task starts, and
  without a log task the idle task executes `!save` beside it.  `OneInFatFs` says that these are the only two ways.
* *Full volume.*  "fatfs write success" is logged for a record that was not written or not whole
  (`fatfs_logs.c:222`); `OpenKeepsReported` says that it is the only such report while the file is open.
* `ap3216_reg_read` of the light sensor calls the multiple write (`drv_i2c_ap3216.c:152`); nothing uses it.

## Fairness

* `Logger`: the interrupt and the UART never stop; each thread that has begun a call proceeds, and
  so does the idle hook, because tasks block in `vTaskDelay` and the scheduler is preemptive.  Nobody is
  obliged to log, to print or to type.  `TransmitIsPipe` uses it for the fairness of `BytePipe`.
* `I2cMonitor`: weak fairness of the interrupt, the i2c task, the timer task, the tick and the end of a
  critical section; strong fairness of the i2c task's wait for the timers' mutex: it has the
  higher priority and gets the mutex when it is given.  No fairness of drivers or inputs.
* All others are checked for safety only: power may fail for ever, and a card or a chip may never answer.

## Proofs

All theorems hold for every value of the constants that the named assumptions of the modules allow.

* `Logger_proofs`: what Put, Get and the put of a block do to a well-formed ring and to its contents, and
  with it `TypeCorrect`, `ReceivesInOrder`, `CountStaysBehind` from one inductive invariant.
  The type of the ring is not inductive alone: that `currentSize` stays in its range needs that
  the idle task's register is never above the count, and that needs where the idle task is.
  Under `AlwaysLocked` (multi-thread mode from the start): `LinesAreWhole`, `MutexGivenByOwner`,
  `InterruptIsArmed`, from the invariant that a thread inside `print_log` holds the mutex and the buffer
  has as much of its line as its position says; and `ImplementsPipe`, the safety part of the refinement.
* `FlashStore_proofs`: `TypeCorrect` for any erase; under `AtomicErase` (an interrupted erase clears
  all or nothing) `WrittenIsReadBack`, `OnePageIsValid`, `OnlyRecentIsRead`, `ValueIsKept` and
  `BlocksFillUpwards`.  The invariant describes the pages at each position of `flash_write`: the blocks of a
  page are written, then erased (`BlockInv`), and the last flagged one is the last value or a cut one
  (`LastInv`, `TopInv`).
* `FatfsLog_proofs`: `TypeCorrect`, `SyncedStays`, `ReportedStaysOpen`, `FileIsInOrder` and `FewAreUnsynced`
  without assumption; under `OneWriter` (the logger's mutex lets one writer in at a time) `OneAtATime`.
  The order needs that, until `shared`, one actor at most is in FatFs (`AloneInv`), and that `disk`,
  `pending`, the record in hand and the messages together are increasing; `OneAtATime` needs who can still come
  to FatFs by itself once the log task has started (`StartInv`).
* `I2cMonitor_proofs`: `TypeCorrect`; `WritesPend`, inductive given the type of the queue;
  `TriggersUnique`, which needs that no slot holds the delay timer between its removal and its
  registration, two calls that each take the mutex of the timers; `OneReadAtATime`, which counts the
  answers in the queue, in the live triggers, in the callback and in the i2c task, and shows that each
  action moves one from one place to the next (`ChainStep`); it needs that the delay timer acts once,
  and that a refusal finds the interrupt off; `DelayIsKept`, which needs that count to know that no read
  is queued when a delay starts, the mutex of the timers (`MutexInv`) so that none starts within
  `processTrigger`, and that a trigger has counted no period that had not begun, one less while
  the timer task has not come to its slot (`CountInv`) - it counts begins of periods, so the delay it promises is
  up to one period short of the constant; and `StoresKeepOthers`: under
  `CriticalMasks`, the property that `i2c_unmasked` shows violated holds.
* `Monitor_proofs`: all six properties of the run.  The invariant ties the state of a button to its
  debounced level (in 1, 3 and 5 it is down, in 2 up), which `EdgesReported` and `ExclusivePress` rest
  on; the count of `anti_shake` to the equal reads of the other value, plus one while the key is off;
  and has that a flag that is set leaves no alarm due.  `TypeCorrect` is for every tick limit, those beyond the
  widths of `struct Button` included, where the counts wrap (`Wraps`).  `AlarmSum` is the arithmetic of
  `rtc_alarm_register` for every duration below a week.
* `SdCard_proofs`: `OkHasMoved`, `BuffersAreOwned` and `CardIsBack`, from one invariant: the stream runs
  only within a call; while a call waits, the card is at its command, and past the data phase only with the
  data moved or damaged (`WaitInv`); with the stream its own, the card waits for a block only before the first tick
  of a call or after a response that was lost (`ReceiveInv`).
* `SpiFlash_proofs`: `OkMeansDone` and `NothingElseChanges`, for any size of the chip and any time-out.  A call
  is the list of commands it has yet to send, always an end of its program (`ProgramInv`); the invariant says
  at each length of it what the wait, the WREN and the command have made of the chip (`ReadyInv`, `SentInv`)
  and of its memory (`MemoryInv`), with the exceptions of `OkIsDone` where they arise: a lost byte, addresses of
  another length than the chip takes, and a chip that was busy when an erase sent its WREN.
* `SoftI2c_proofs`: `RulesAreKept`, `WordsAreDelivered` and `BusIsReleased`, for any width of a word of two bits
  or more, any list of transfers and whatever the device answers.  The first rests on `BusInv`: the
  shape that `todo` has, that the clock is low at every position where the pin or its direction changes
  (`ClockLow`), and that an output pin at rest is at 1.  The other two need what the device has seen.
  `Legs` are the words of a call, each with what follows it and what was delivered before it; `XferInv` has one
  phase for each function (`Checking`, `Starting`, `Sending`, `Acking`, `Reading`, `Replying`, `Stopping`, and
  `Between` for no call), which says of a leg and a position in its word what the lines are and how much of the word
  the device has; a step moves a phase on or to the next leg (`NextLeg`).  Which list a call begins with and
  what remains of it after a word are facts about sequences for every number of words (`FirstLeg`,
  `SentAllStep`, `ReadStep`), proved from the elements of the lists and not by induction.

What is assumed of the constants is a named `ASSUME` of the module, which the runs evaluate for their values;
`AlwaysLocked`, `AtomicErase`, `OneWriter` and `CriticalMasks` are hypotheses of the theorems that name them,
each because a run shows, or this text says, what happens without it.

Only model-checked: liveness (`Rearmed`, the fairness part of `TransmitIsPipe`), which is beyond the
prover; and that `PutBlock` is the loop of puts, an induction over data, which `MCLogger` evaluates on all
rings of up to three bytes.  `OneAtATime` does not hold with two writers, which is why its assumption is named.

## Not modelled, and why

Wording and layout of log lines, register set-up, pixels, LwIP and the inside of the HAL: no property here
depends on them.  The kernel is modelled by what its calls promise.  Waiting times are nondeterministic, so
a timeout may come at any moment of a wait.

* *CAN*: nothing in the repository initialises or calls the driver, so the program has no behaviour to model;
  *HTTP*: its task is never created; *`usart_dma.c`, `usart_poll.c`, `drv_sdio.c`*: alternatives that the
  default build leaves out.
* *Serial flash*: the DMA reads and writes, `wq_write_disable` and the bit-banged SPI have no callers.
* *Sensors*: the meaning of the light sensor's registers; the gyroscope is never initialised.
* *Command table*: a search in a constant list.  What a command does to the log is in `Logger` (its output)
  and `FatfsLog` (`!save`).
* *`Logger` and `FatfsLog` composed*: the log task logs under the logger's mutex, and a writer may hold that
  mutex while it waits for the log task.  Both waits have a timeout, so this costs lines and records but
  stops nobody; the product of the two state spaces, with a full buffer and a full ring, is left out.
* *Exact ticks*: two waits that end in the same tick (the mutex of the log file, given whether it was taken)
  need clocks that the models do not have.
* *ADC, DAC, PWM, display, SDRAM, LEDs, watchdog*: register writes and single reads, with one user each.
