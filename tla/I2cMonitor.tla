------------------------------ MODULE I2cMonitor ------------------------------
(***************************************************************************)
(* The I2C monitor, Application/Src/i2c_monitor.cpp, with the software     *)
(* timers it registers (timer_manage.cpp) and the PCF8574 port expander it *)
(* serves (Drivers/Src/drv_i2c_pcf8574.c), built with their modules on.    *)
(*                                                                         *)
(* The expander pulls its INT line low when an input differs from what was *)
(* last transferred.  The interrupt disables itself and posts DELAY_READ;  *)
(* the i2c task arms a one-shot timer; the timer posts CHIP_READ; the i2c  *)
(* task reads the inputs and enables the interrupt again.  Outputs are     *)
(* bits of a shadow register that any task may set; it then posts          *)
(* CHIP_WRITE, and the i2c task transfers the register.                    *)
(*                                                                         *)
(* The actors are the tasks that drive outputs, the i2c task, the timer    *)
(* task, the interrupt and the expander.  A call of the kernel is atomic.  *)
(***************************************************************************)
EXTENDS TimeManage, Sequences

CONSTANTS
  Drivers,           \* the tasks that drive outputs, of "monitor" and "schedular"
  QueueMax,          \* i2c_monitor_MAX_QUEUE
  DelayPeriods,      \* TIME_MANAGE_CNT(I2C_IO_DELAY_READ_TIME_MS)
  UpdatePeriods,     \* TIME_MANAGE_CNT(I2C_DEVICE_UPDATE_TIME_MS)
  BusFails,          \* whether transfers to the expander may fail
  MaxSyscall,        \* configLIBRARY_MAX_SYSCALL_INTERRUPT_PRIORITY
  PrioBits           \* configPRIO_BITS

ASSUME DriversAssumption == Drivers \subseteq {"monitor", "schedular"}
ASSUME QueueAssumption == QueueMax \in Nat \ {0}
ASSUME PeriodsAssumption ==
  /\ DelayPeriods \in Nat \ {0}
  /\ UpdatePeriods \in Nat \ {0}
ASSUME BusAssumption == BusFails \in BOOLEAN
ASSUME KernelAssumption == MaxSyscall \in Nat /\ PrioBits \in 1 .. 8

(* configMAX_SYSCALL_INTERRUPT_PRIORITY as the 8 bit BASEPRI register gets *)
(* it.  BASEPRI = 0 masks nothing: portENTER_CRITICAL then stops no switch.*)
BASEPRI == (MaxSyscall * 2 ^ (8 - PrioBits)) % 256

CriticalMasks == BASEPRI # 0

I2c     == "i2c"
Tasks   == Drivers \cup {I2c}

Pins == {"beep", "eth_reset"}

(* The output each caller of pcf8574_write_io sets. *)
Drives(t) == IF t = "schedular" THEN "eth_reset" ELSE "beep"

IoDelay   == "EVENT_I2C_IO_DELAY_TIMER_TIGGER"
DevUpdate == "EVENT_I2C_DEV_UPDATE_TIMER_TIGGER"
NoEvent   == "none"

VARIABLES
  (* the expander and the interrupt line *)
  input,        \* the input pin of the expander
  latched,      \* its value at the last transfer; INT is low when they differ
  output,       \* the outputs of the expander
  exti,         \* the pending flag of EXTI line 12
  irqOn,        \* EXTI15_10_IRQn is enabled in the NVIC
  (* the monitor *)
  shadow,       \* pcf8574_write_data_
  readData,     \* pcf8574_read_data_
  queue,        \* queue_
  pc,           \* where each task is
  reg,          \* what a task is about to store to the shadow register
  (* the timers *)
  triggers,     \* triggerList_
  owner,        \* the holder of SysTimeSemaphore_
  slot,         \* the index of processTrigger, 0 outside it
  firing,       \* the event whose callback it runs
  (* history *)
  broken,       \* an event of the chain, or its timer, was refused
  stale,        \* a CHIP_WRITE was refused or failed, and none succeeded since
  age           \* periods begun since the delay timer was armed, up to DelayPeriods

chipVars  == <<input, latched, output>>
irqVars   == <<exti, irqOn>>
setVars   == <<shadow, reg>>
timerVars == <<triggers, owner, slot, firing, age>>
vars == <<chipVars, irqVars, setVars, readData, queue, pc, timerVars, broken, stale>>

Levels == {0, 1}

AllHigh == [p \in Pins |-> 1]

Init ==
  /\ input \in Levels /\ latched = input /\ readData = input
  /\ output = AllHigh /\ shadow = AllHigh
  /\ exti = FALSE /\ irqOn = TRUE
  /\ queue = << >>
  /\ pc = [t \in Tasks |-> "run"]
  /\ reg = [t \in Tasks |-> AllHigh]
  /\ triggers = RegisterTrigger(NoTriggers(NoEvent), DevUpdate, UpdatePeriods, Forever)
  /\ owner = NoEvent /\ slot = 0 /\ firing = NoEvent
  /\ broken = FALSE /\ stale = FALSE
  /\ age = 0

-------------------------------------------------------------------------------
(***************************************************************************)
(* The expander and its interrupt.                                         *)
(***************************************************************************)

IntLow == input # latched

(* An input changes; INT falling sets the pending flag. *)
InputChange ==
  /\ input' = 1 - input
  /\ exti' = (exti \/ (~IntLow /\ input' # latched))
  /\ UNCHANGED <<latched, output, irqOn, setVars, readData, queue, pc, timerVars, broken, stale>>

(* Mutant: the interrupt does not disable itself. *)
EXTI15_10_IRQHandler_StayOn ==
  /\ irqOn /\ exti
  /\ exti' = FALSE
  /\ irqOn' = irqOn
  /\ IF Len(queue) < QueueMax
       THEN queue' = Append(queue, "DELAY_READ") /\ UNCHANGED broken
       ELSE broken' = TRUE /\ UNCHANGED queue
  /\ UNCHANGED <<chipVars, setVars, readData, pc, timerVars, stale>>

(* i2c_io_isr_trigger ignores the result of xQueueSendFromISR.  A handler  *)
(* entered without the flag does nothing.                                  *)
EXTI15_10_IRQHandler ==
  /\ irqOn /\ exti
  /\ exti' = FALSE
  /\ irqOn' = FALSE
  /\ IF Len(queue) < QueueMax
       THEN queue' = Append(queue, "DELAY_READ") /\ UNCHANGED broken
       ELSE broken' = TRUE /\ UNCHANGED queue
  /\ UNCHANGED <<chipVars, setVars, readData, pc, timerVars, stale>>

-------------------------------------------------------------------------------
(***************************************************************************)
(* pcf8574_write_io: one bit of the shadow register, by load and store in  *)
(* a critical section, then the event.                                     *)
(***************************************************************************)

(* No task runs inside another's critical section, if it is one, and none  *)
(* but the interrupt runs beside the i2c task, which has the highest       *)
(* priority, unless that waits: for an event, for the mutex of the timers, *)
(* for room in the queue or, between its calls, for the logger.            *)
Runs(t) ==
  /\ CriticalMasks => \A u \in Tasks \ {t} : pc[u] # "store"
  /\ t # I2c => \/ pc[I2c] \in {"run", "beep", "clear"}
                \/ pc[I2c] = "post" /\ Len(queue) = QueueMax
                \/ pc[I2c] \in {"remove", "register"} /\ owner = "timer"

LoadShadow(t) ==
  /\ pc[t] = IF t = I2c THEN "beep" ELSE "run"
  /\ Runs(t)
  /\ \E level \in Levels : reg' = [reg EXCEPT ![t] = [shadow EXCEPT ![Drives(t)] = level]]
  /\ pc' = [pc EXCEPT ![t] = "store"]
  /\ UNCHANGED <<chipVars, irqVars, shadow, readData, queue, timerVars, broken, stale>>

StoreShadow(t) ==
  /\ pc[t] = "store"
  /\ Runs(t)
  /\ shadow' = reg[t]
  /\ reg' = [reg EXCEPT ![t] = AllHigh]
  /\ pc' = [pc EXCEPT ![t] = "post"]
  /\ UNCHANGED <<chipVars, irqVars, readData, queue, timerVars, broken, stale>>

(* Mutant: an event is posted only if no other is waiting. *)
PostWrite_IfEmpty(t) ==
  /\ pc[t] = "post"
  /\ Runs(t)
  /\ IF queue = << >> THEN queue' = Append(queue, "CHIP_WRITE") ELSE UNCHANGED queue
  /\ pc' = [pc EXCEPT ![t] = IF t = I2c THEN "clear" ELSE "run"]
  /\ UNCHANGED <<chipVars, irqVars, setVars, readData, timerVars, broken, stale>>

(* trigger gives up after a tick, and nobody looks at its result. *)
PostWrite(t) ==
  /\ pc[t] = "post"
  /\ Runs(t)
  /\ IF Len(queue) < QueueMax
       THEN queue' = Append(queue, "CHIP_WRITE") /\ UNCHANGED stale
       ELSE stale' = TRUE /\ UNCHANGED queue
  /\ pc' = [pc EXCEPT ![t] = IF t = I2c THEN "clear" ELSE "run"]
  /\ UNCHANGED <<chipVars, irqVars, setVars, readData, timerVars, broken>>

-------------------------------------------------------------------------------
(***************************************************************************)
(* i2c_monitor::run.  The i2c task outranks the tasks that drive outputs.  *)
(***************************************************************************)

Receive(event) ==
  /\ pc[I2c] = "run"
  /\ queue # << >> /\ Head(queue) = event
  /\ queue' = Tail(queue)

(* pcf8574_i2c_write of the shadow register; its result is ignored. *)
WriteChip ==
  /\ Receive("CHIP_WRITE")
  /\ Runs(I2c)
  /\ \/ /\ output' = shadow
        /\ latched' = input
        /\ stale' = FALSE
     \/ /\ BusFails
        /\ stale' = TRUE
        /\ UNCHANGED <<output, latched>>
  /\ UNCHANGED <<input, irqVars, setVars, readData, pc, timerVars, broken>>

(* ap3216c_i2c_run touches neither the expander nor the queue. *)
RefreshDevice ==
  /\ Receive("DEVICE_REFRESH")
  /\ UNCHANGED <<chipVars, irqVars, setVars, readData, pc, timerVars, broken, stale>>

(* registerIODelayTimeTrigger: remove, then register, each under the mutex *)
(* that it awaits for ever.                                                *)
DelayRead ==
  /\ Receive("DELAY_READ")
  /\ pc' = [pc EXCEPT ![I2c] = "remove"]
  /\ UNCHANGED <<chipVars, irqVars, setVars, readData, timerVars, broken, stale>>

TakeSysTime ==
  /\ pc[I2c] \in {"remove", "register"}
  /\ owner = NoEvent
  /\ owner' = I2c
  /\ pc' = [pc EXCEPT ![I2c] = IF pc[I2c] = "remove" THEN "removing" ELSE "registering"]
  /\ UNCHANGED <<chipVars, irqVars, setVars, readData, queue, triggers, slot, firing, age,
                 broken, stale>>

(* Mutant: the old delay timer is left in the list. *)
RemoveDelay_Keep ==
  /\ pc[I2c] = "removing"
  /\ owner' = NoEvent
  /\ pc' = [pc EXCEPT ![I2c] = "register"]
  /\ UNCHANGED <<chipVars, irqVars, setVars, readData, queue, triggers, slot, firing, age,
                 broken, stale>>

RemoveDelay ==
  /\ pc[I2c] = "removing"
  /\ triggers' = RemoveTrigger(triggers, IoDelay)
  /\ owner' = NoEvent
  /\ pc' = [pc EXCEPT ![I2c] = "register"]
  /\ UNCHANGED <<chipVars, irqVars, setVars, readData, queue, slot, firing, age, broken, stale>>

RegisterDelay ==
  /\ pc[I2c] = "registering"
  /\ triggers' = RegisterTrigger(triggers, IoDelay, DelayPeriods, 1)
  /\ broken' = (broken \/ FreeSlots(triggers) = {})
  /\ age' = 0
  /\ owner' = NoEvent
  /\ pc' = [pc EXCEPT ![I2c] = "run"]
  /\ UNCHANGED <<chipVars, irqVars, setVars, readData, queue, slot, firing, stale>>

(* Mutant: a failed read goes back to the queue. *)
ReadChip_ReturnOnError ==
  /\ Receive("CHIP_READ")
  /\ \/ /\ readData' = input
        /\ latched' = input
        /\ pc' = [pc EXCEPT ![I2c] = "beep"]
     \/ /\ BusFails
        /\ UNCHANGED <<readData, latched, pc>>
  /\ UNCHANGED <<input, output, irqVars, setVars, timerVars, broken, stale>>

(* pcf8574_i2c_read; after it the proximity sensor switches the beeper,    *)
(* with pcf8574_write_io.                                                  *)
ReadChip ==
  /\ Receive("CHIP_READ")
  /\ \/ /\ readData' = input
        /\ latched' = input
        /\ pc' = [pc EXCEPT ![I2c] = "beep"]
     \/ /\ BusFails
        /\ pc' = [pc EXCEPT ![I2c] = "clear"]
        /\ UNCHANGED <<readData, latched>>
  /\ UNCHANGED <<input, output, irqVars, setVars, timerVars, broken, stale>>

(* __HAL_GPIO_EXTI_CLEAR_IT and HAL_NVIC_EnableIRQ. *)
ClearPending ==
  /\ pc[I2c] = "clear"
  /\ exti' = FALSE
  /\ pc' = [pc EXCEPT ![I2c] = "enable"]
  /\ UNCHANGED <<chipVars, irqOn, setVars, readData, queue, timerVars, broken, stale>>

EnableIrq ==
  /\ pc[I2c] = "enable"
  /\ irqOn' = TRUE
  /\ pc' = [pc EXCEPT ![I2c] = "run"]
  /\ UNCHANGED <<chipVars, exti, setVars, readData, queue, timerVars, broken, stale>>

-------------------------------------------------------------------------------
(***************************************************************************)
(* The timer task, once a period: prvxSoftLoopTimerCallback.               *)
(***************************************************************************)

(* xSemaphoreTake does not wait, but it is never refused: the i2c task,    *)
(* the only other to take this mutex, does not block while it holds it and *)
(* has the higher priority.                                                *)
Period ==
  /\ slot = 0
  /\ Runs("timer")
  /\ age' = IF age < DelayPeriods THEN age + 1 ELSE age
  /\ owner' = "timer" /\ slot' = 1
  /\ UNCHANGED <<chipVars, irqVars, setVars, readData, queue, pc, triggers, firing, broken, stale>>

(* Mutant: the loop runs one slot too far. *)
NextTrigger_PastEnd ==
  IF slot > MaxTriggers THEN slot' = 0 /\ owner' = NoEvent
                        ELSE slot' = slot + 1 /\ UNCHANGED owner

(* The step to the next slot, or out of processTrigger. *)
NextTrigger ==
  IF slot = MaxTriggers THEN slot' = 0 /\ owner' = NoEvent
                        ELSE slot' = slot + 1 /\ UNCHANGED owner

(* One slot of processTrigger, up to the callback. *)
ProcessTrigger ==
  /\ slot # 0 /\ firing = NoEvent
  /\ Runs("timer")
  /\ LET trigger == triggers[slot]
         acts    == trigger.used /\ Matches(trigger)
     IN /\ triggers' = [triggers EXCEPT ![slot] = IF trigger.used THEN Counted(trigger) ELSE trigger]
        /\ IF acts THEN firing' = trigger.id /\ UNCHANGED <<slot, owner>>
                   ELSE NextTrigger /\ UNCHANGED firing
  /\ UNCHANGED <<chipVars, irqVars, setVars, readData, queue, pc, broken, stale, age>>

(* I2cTriggerFunc: trigger waits a tick for room, then drops the event. *)
RunCallback ==
  /\ firing # NoEvent
  /\ Runs("timer")
  /\ IF Len(queue) < QueueMax
       THEN /\ queue' = Append(queue, IF firing = IoDelay THEN "CHIP_READ" ELSE "DEVICE_REFRESH")
            /\ UNCHANGED broken
       ELSE broken' = (broken \/ firing = IoDelay) /\ UNCHANGED queue
  /\ firing' = NoEvent
  /\ NextTrigger
  /\ UNCHANGED <<chipVars, irqVars, setVars, readData, pc, triggers, stale, age>>

-------------------------------------------------------------------------------
I2cTask ==
  \/ WriteChip \/ ReadChip \/ DelayRead \/ RefreshDevice
  \/ RemoveDelay \/ RegisterDelay \/ ClearPending \/ EnableIrq

WriteIo(t) == LoadShadow(t) \/ StoreShadow(t) \/ PostWrite(t)

TimerTask == ProcessTrigger \/ RunCallback

Next ==
  \/ InputChange
  \/ EXTI15_10_IRQHandler
  \/ \E t \in Tasks : WriteIo(t)
  \/ I2cTask
  \/ TakeSysTime
  \/ Period
  \/ TimerTask

Spec == Init /\ [][Next]_vars

(***************************************************************************)
(* The scheduler runs the i2c task and the timer task and ends critical    *)
(* sections, the tick comes, and a mutex that is given goes to the i2c     *)
(* task that waits for it: it has the higher priority.  No task has to     *)
(* drive an output.                                                        *)
(***************************************************************************)
Fairness ==
  /\ WF_vars(EXTI15_10_IRQHandler)
  /\ WF_vars(I2cTask)
  /\ WF_vars(WriteIo(I2c))
  /\ \A t \in Drivers : WF_vars(StoreShadow(t))
  /\ SF_vars(TakeSysTime)
  /\ WF_vars(Period)
  /\ WF_vars(TimerTask)

FairSpec == Spec /\ Fairness

-------------------------------------------------------------------------------
(***************************************************************************)
(* Properties.                                                             *)
(***************************************************************************)

Events == {"CHIP_WRITE", "CHIP_READ", "DELAY_READ", "DEVICE_REFRESH"}

PcValues ==
  {"run", "beep", "store", "post", "remove", "removing", "register", "registering",
   "clear", "enable"}

Outputs == [Pins -> Levels]

Trigger ==
  [used : BOOLEAN, id : {IoDelay, DevUpdate, NoEvent},
   compare : {0, DelayPeriods, UpdatePeriods},
   count : 0 .. DelayPeriods + UpdatePeriods, left : {0, 1, Forever}]

(* The registers, the queue and the trigger list keep their declared shape;*)
(* the queue never holds more than its length and the drivers never leave  *)
(* pcf8574_write_io half done for another step of theirs.                  *)
TypeOK ==
  /\ {input, latched, readData} \subseteq Levels
  /\ {output, shadow} \subseteq Outputs
  /\ {exti, irqOn, broken, stale} \subseteq BOOLEAN
  /\ queue \in Seq(Events) /\ Len(queue) <= QueueMax
  /\ pc \in [Tasks -> PcValues]
  /\ reg \in [Tasks -> Outputs]
  /\ triggers \in [Slots -> Trigger]
  /\ owner \in {NoEvent, I2c, "timer"}
  /\ slot \in 0 .. MaxTriggers
  /\ firing \in {NoEvent, IoDelay, DevUpdate}
  /\ age \in 0 .. DelayPeriods

ReadEvents == {"DELAY_READ", "CHIP_READ"}

Live(trigger) == trigger.used /\ trigger.left # 0

(* Where the answer to an interrupt may be: queued, in the timer, or in    *)
(* the hands of the timer task or of the i2c task.                         *)
Outstanding ==
  Cardinality({i \in DOMAIN queue : queue[i] \in ReadEvents})
  + Cardinality({i \in Slots : Live(triggers[i]) /\ triggers[i].id = IoDelay})
  + (IF firing = IoDelay THEN 1 ELSE 0)
  + (IF pc[I2c] # "run" THEN 1 ELSE 0)

(* i2c_monitor.cpp: "when extend interrupt, close. until read i2c, can read*)
(* next".  While the interrupt is disabled exactly one answer to it is     *)
(* under way, unless an event of it was refused (then none ever comes);    *)
(* while it is enabled there is none.                                      *)
OneRead == Outstanding = IF irqOn \/ broken THEN 0 ELSE 1

(* registerIODelayTimeTrigger and registerDevUpdateTimeTrigger remove the  *)
(* old trigger of their event first, so no event has two and the list does *)
(* not fill with expired one-shots that nothing else deletes.              *)
OneTriggerPerEvent ==
  \A i, j \in Slots : triggers[i].used /\ triggers[j].used /\ i # j
                        => triggers[i].id # triggers[j].id

(* An output that is not what the program set is being written: the event  *)
(* is queued or about to be posted by the task that set the bit, unless it *)
(* was refused or the transfer failed, which pcf8574_write_io's callers    *)
(* are not told.                                                           *)
WritePending ==
  output # shadow => \/ stale
                     \/ \E i \in DOMAIN queue : queue[i] = "CHIP_WRITE"
                     \/ \E t \in Tasks : pc[t] = "post"

(* A CHIP_READ comes no sooner than at the begin of the N-th timer period  *)
(* after its trigger was registered, N being I2C_IO_DELAY_READ_TIME_MS in  *)
(* periods.  The trigger is registered at any point of a period: the delay *)
(* may be as much as one period short of I2C_IO_DELAY_READ_TIME_MS.        *)
DelayKept ==
  (firing = IoDelay \/ \E i \in DOMAIN queue : queue[i] = "CHIP_READ") => age = DelayPeriods

(* The interrupt that disables itself is enabled again, unless an event of *)
(* its answer was refused.                                                 *)
Rearmed == ~irqOn ~> (irqOn \/ broken)

(* pcf8574_write_io sets one bit between portENTER_CRITICAL and            *)
(* portEXIT_CRITICAL: the store of one output leaves the others as another *)
(* task set them.                                                          *)
OneOutputStored ==
  [][\A t \in Tasks : pc[t] = "store" /\ pc'[t] # "store"
       => \A p \in Pins \ {Drives(t)} : shadow'[p] = shadow[p]]_vars

(* i2c_monitor.cpp: "when extend interrupt, close. until read i2c, can read*)
(* next".  An input that differs from pcf8574_read_data_ is read in the    *)
(* end, or changes back.                                                   *)
ReadCatchesUp == input # readData ~> (input = readData \/ broken)
=============================================================================
