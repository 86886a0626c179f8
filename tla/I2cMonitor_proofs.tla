--------------------------- MODULE I2cMonitor_proofs ---------------------------
(***************************************************************************)
(* The I2C monitor for any length of the queue, any number of triggers and *)
(* any periods: its variables keep their type; an output that differs from *)
(* the shadow register is being written; no event has two triggers; an     *)
(* interrupt has one answer, and that waits for the delay.  Then           *)
(* what the critical section of pcf8574_write_io is worth where it masks   *)
(* the interrupts: with a kernel configuration that leaves a priority in   *)
(* BASEPRI (CriticalMasks) no store to the shadow register undoes another. *)
(* The run of I2cUnmasked shows that property violated with the value of   *)
(* FreeRTOSConfig.h.                                                       *)
(***************************************************************************)
EXTENDS I2cMonitor, FiniteSetTheorems, TLAPS

(***************************************************************************)
(* Type correctness.                                                       *)
(***************************************************************************)

(* The operations of the trigger list keep its entries in shape.           *)
LEMMA ResetType ==
  ASSUME NEW r \in Trigger, NEW c \in 0 .. DelayPeriods + UpdatePeriods,
         NEW l \in {0, 1, Forever}
  PROVE  [r EXCEPT !.count = c, !.left = l] \in Trigger
<1> DEFINE Ids == {IoDelay, DevUpdate, NoEvent}
           Cmps == {0, DelayPeriods, UpdatePeriods}
           Cnts == 0 .. DelayPeriods + UpdatePeriods
           Lefts == {0, 1, Forever}
<1>1. Trigger = [used : BOOLEAN, id : Ids, compare : Cmps, count : Cnts, left : Lefts]
  BY DEF Trigger
<1>2. c \in Cnts /\ l \in Lefts
  OBVIOUS
<1> HIDE DEF Ids, Cmps, Cnts, Lefts
<1> QED  BY <1>1, <1>2

(* So does the action of a trigger.                                        *)
LEMMA CountedType ==
  ASSUME NEW trigger \in Trigger
  PROVE  Counted(trigger) \in Trigger
<1> USE PeriodsAssumption DEF Trigger, Forever
<1>1. CASE trigger.left = 0
  BY <1>1 DEF Counted
<1>2. CASE trigger.left # 0 /\ ~Matches(trigger)
  <2>1. trigger.count + 1 \in 0 .. DelayPeriods + UpdatePeriods
    BY <1>2 DEF Matches
  <2> QED  BY <1>2, <2>1 DEF Counted
<1>3. CASE trigger.left # 0 /\ Matches(trigger)
  <2> DEFINE left == IF trigger.left = Forever THEN trigger.left ELSE trigger.left - 1
  <2>1. left \in {0, 1, Forever}
    BY <1>3
  <2>2. Counted(trigger) = [trigger EXCEPT !.count = 0, !.left = left]
    BY <1>3 DEF Counted
  <2>3. 0 \in 0 .. DelayPeriods + UpdatePeriods
    OBVIOUS
  <2> HIDE DEF left, Trigger, Forever
  <2>4. [trigger EXCEPT !.count = 0, !.left = left] \in Trigger
    BY <2>1, <2>3, ResetType
  <2> QED  BY <2>2, <2>4
<1> QED  BY <1>1, <1>2, <1>3

(* Removal and registration keep the list of triggers in shape.            *)
LEMMA ListTypes ==
  ASSUME NEW list \in [Slots -> Trigger]
  PROVE  /\ RemoveTrigger(list, IoDelay) \in [Slots -> Trigger]
         /\ RegisterTrigger(list, IoDelay, DelayPeriods, 1) \in [Slots -> Trigger]
         /\ RegisterTrigger(list, DevUpdate, UpdatePeriods, Forever) \in [Slots -> Trigger]
<1>1. RemoveTrigger(list, IoDelay) \in [Slots -> Trigger]
  BY DEF RemoveTrigger, Trigger
<1>2. /\ initalize(IoDelay, DelayPeriods, 1) \in Trigger
      /\ initalize(DevUpdate, UpdatePeriods, Forever) \in Trigger
  BY PeriodsAssumption DEF initalize, Trigger
<1> QED  BY <1>1, <1>2 DEF RegisterTrigger

(* The list starts in shape.                                               *)
LEMMA NoTriggersType == NoTriggers(NoEvent) \in [Slots -> Trigger]
<1>1. 0 \in 0 .. DelayPeriods + UpdatePeriods
  BY PeriodsAssumption
<1> QED  BY <1>1 DEF NoTriggers, Trigger

(* The parts of the type invariant, by what their proofs need.             *)
LevelsOK ==
  /\ {input, latched, readData} \subseteq Levels
  /\ {output, shadow} \subseteq Outputs
  /\ reg \in [Tasks -> Outputs]

BitsOK == {exti, irqOn, broken, stale} \subseteq BOOLEAN

QueueOK == queue \in Seq(Events) /\ Len(queue) <= QueueMax

TimerOK ==
  /\ triggers \in [Slots -> Trigger]
  /\ owner \in {NoEvent, I2c, "timer"}
  /\ slot \in 0 .. MaxTriggers
  /\ firing \in {NoEvent, IoDelay, DevUpdate}
  /\ age \in 0 .. DelayPeriods

PcOK == pc \in [Tasks -> PcValues]

(* The type invariant is its parts.                                        *)
LEMMA TypeParts == TypeOK <=> LevelsOK /\ BitsOK /\ QueueOK /\ TimerOK /\ PcOK
BY DEF TypeOK, LevelsOK, BitsOK, QueueOK, TimerOK, PcOK

(* The parts hold at the start.                                            *)
LEMMA TypeStarts == Init => TypeOK
<1> SUFFICES ASSUME Init PROVE LevelsOK /\ BitsOK /\ QueueOK /\ TimerOK /\ PcOK
  BY TypeParts
<1>1. LevelsOK
  BY DEF Init, LevelsOK, Levels, Outputs, AllHigh
<1>2. BitsOK
  BY DEF Init, BitsOK
<1>3. QueueOK
  BY QueueAssumption DEF Init, QueueOK
<1>4. TimerOK
  BY NoTriggersType, ListTypes, MaxTriggersAssumption, PeriodsAssumption DEF Init, TimerOK
<1>5. PcOK
  BY DEF Init, PcOK, PcValues
<1> QED  BY <1>1, <1>2, <1>3, <1>4, <1>5

(* No step puts anything but levels in the registers.                      *)
LEMMA LevelsStep == LevelsOK /\ Next => LevelsOK'
<1> SUFFICES ASSUME LevelsOK, Next PROVE LevelsOK'
  OBVIOUS
<1> USE DEF LevelsOK
<1>1. CASE InputChange
  BY <1>1 DEF InputChange, Levels, setVars
<1>2. ASSUME NEW t \in Tasks, WriteIo(t) PROVE LevelsOK'
  <2>1. CASE LoadShadow(t)
    <3>1. PICK level \in Levels : reg' = [reg EXCEPT ![t] = [shadow EXCEPT ![Drives(t)] = level]]
      BY <2>1 DEF LoadShadow
    <3>2. [shadow EXCEPT ![Drives(t)] = level] \in Outputs
      BY DEF Outputs
    <3> QED  BY <2>1, <3>1, <3>2 DEF LoadShadow, chipVars
  <2>2. CASE StoreShadow(t)
    <3>1. AllHigh \in Outputs
      BY DEF AllHigh, Outputs, Levels
    <3> QED  BY <2>2, <3>1 DEF StoreShadow, chipVars
  <2>3. CASE PostWrite(t)
    BY <2>3 DEF PostWrite, chipVars, setVars
  <2> QED  BY <1>2, <2>1, <2>2, <2>3 DEF WriteIo
<1>3. CASE WriteChip \/ ReadChip
  BY <1>3 DEF WriteChip, ReadChip, setVars
<1>4. CASE UNCHANGED <<chipVars, setVars, readData>>
  BY <1>4 DEF chipVars, setVars
<1> QED
  BY <1>1, <1>2, <1>3, <1>4 DEF Next, I2cTask, TimerTask, EXTI15_10_IRQHandler, DelayRead,
     RefreshDevice, RemoveDelay, RegisterDelay, ClearPending, EnableIrq, TakeSysTime, Period,
     ProcessTrigger, RunCallback

(* The flags stay Boolean.                                                 *)
LEMMA BitsStep == BitsOK /\ Next => BitsOK'
BY DEF BitsOK, Next, I2cTask, TimerTask, WriteIo, LoadShadow, StoreShadow, PostWrite, InputChange,
   EXTI15_10_IRQHandler, WriteChip, ReadChip, DelayRead, RefreshDevice, RemoveDelay, RegisterDelay,
   ClearPending, EnableIrq, TakeSysTime, Period, ProcessTrigger, RunCallback, irqVars

(* What a step makes of the queue.                                         *)
Posts(event) == Len(queue) < QueueMax /\ queue' = Append(queue, event)
Takes == queue # << >> /\ queue' = Tail(queue)

(* A step leaves the queue alone, takes its head or appends to one not full.*)
LEMMA QueueSteps ==
  ASSUME Next
  PROVE  UNCHANGED queue \/ Takes \/ \E event \in Events : Posts(event)
<1> USE DEF Events, Posts, Takes
<1>1. CASE InputChange \/ EXTI15_10_IRQHandler \/ TakeSysTime \/ Period \/ TimerTask
  BY <1>1 DEF InputChange, EXTI15_10_IRQHandler, TakeSysTime, Period, TimerTask, ProcessTrigger,
              RunCallback
<1>2. CASE I2cTask
  BY <1>2 DEF I2cTask, WriteChip, ReadChip, DelayRead, RefreshDevice, RemoveDelay, RegisterDelay,
              ClearPending, EnableIrq, Receive
<1>3. CASE \E t \in Tasks : WriteIo(t)
  BY <1>3 DEF WriteIo, LoadShadow, StoreShadow, PostWrite
<1> QED  BY <1>1, <1>2, <1>3 DEF Next

(* So the queue keeps to its events and its length.                        *)
LEMMA QueueStep == QueueOK /\ Next => QueueOK'
<1> SUFFICES ASSUME QueueOK, Next PROVE QueueOK'
  OBVIOUS
<1> USE QueueAssumption DEF QueueOK
<1>1. CASE UNCHANGED queue
  BY <1>1
<1>2. CASE Takes
  BY <1>2 DEF Takes
<1>3. ASSUME NEW event \in Events, Posts(event) PROVE QueueOK'
  BY <1>3 DEF Posts
<1> QED  BY <1>1, <1>2, <1>3, QueueSteps

(* Every step keeps the timers in shape.                                   *)
LEMMA TimerStep == TimerOK /\ Next => TimerOK'
<1> SUFFICES ASSUME TimerOK, Next PROVE TimerOK'
  OBVIOUS
<1> USE MaxTriggersAssumption, PeriodsAssumption DEF TimerOK
<1>1. CASE TakeSysTime \/ RemoveDelay
  BY <1>1, ListTypes DEF TakeSysTime, RemoveDelay
<1>2. CASE RegisterDelay
  BY <1>2, ListTypes DEF RegisterDelay
<1>3. CASE Period
  BY <1>3 DEF Period
<1>4. CASE ProcessTrigger
  <2>1. slot \in Slots
    BY <1>4 DEF ProcessTrigger, Slots
  <2>2. triggers[slot] \in Trigger /\ Counted(triggers[slot]) \in Trigger
    BY <2>1, CountedType
  <2>3. triggers' \in [Slots -> Trigger]
    BY <1>4, <2>1, <2>2 DEF ProcessTrigger
  <2>4. firing' \in {NoEvent, IoDelay, DevUpdate}
    BY <1>4, <2>2 DEF ProcessTrigger, Trigger
  <2>5. slot' \in 0 .. MaxTriggers /\ owner' \in {NoEvent, I2c, "timer"}
    BY <1>4 DEF ProcessTrigger, NextTrigger
  <2> QED  BY <1>4, <2>3, <2>4, <2>5 DEF ProcessTrigger
<1>5. CASE RunCallback
  BY <1>5 DEF RunCallback, NextTrigger
<1>6. CASE UNCHANGED timerVars
  BY <1>6 DEF timerVars
<1> QED
  BY <1>1, <1>2, <1>3, <1>4, <1>5, <1>6 DEF Next, I2cTask, TimerTask, WriteIo, LoadShadow,
     StoreShadow, PostWrite, InputChange, EXTI15_10_IRQHandler, WriteChip, ReadChip, DelayRead,
     RefreshDevice, ClearPending, EnableIrq

(* A step moves one task, to a place of its own.                           *)
LEMMA PcStep == PcOK /\ Next => PcOK'
<1> SUFFICES ASSUME PcOK, Next PROVE PcOK'
  OBVIOUS
<1>1. CASE UNCHANGED pc
  BY <1>1 DEF PcOK
<1>2. ASSUME NEW t \in Tasks, NEW v \in PcValues, pc' = [pc EXCEPT ![t] = v] PROVE PcOK'
  BY <1>2 DEF PcOK
<1>3. I2c \in Tasks
  BY DEF Tasks
<1>4. UNCHANGED pc \/ \E t \in Tasks, v \in PcValues : pc' = [pc EXCEPT ![t] = v]
  <2> USE <1>3 DEF PcValues
  <2>1. CASE InputChange \/ EXTI15_10_IRQHandler \/ Period \/ TimerTask
    BY <2>1 DEF InputChange, EXTI15_10_IRQHandler, Period, TimerTask, ProcessTrigger, RunCallback
  <2>2. CASE I2cTask
    BY <2>2 DEF I2cTask, WriteChip, ReadChip, DelayRead, RefreshDevice, RemoveDelay, RegisterDelay,
                ClearPending, EnableIrq
  <2>3. CASE TakeSysTime
    BY <2>3 DEF TakeSysTime
  <2>4. ASSUME NEW t \in Tasks, WriteIo(t) PROVE \E v \in PcValues : pc' = [pc EXCEPT ![t] = v]
    BY <2>4 DEF WriteIo, LoadShadow, StoreShadow, PostWrite
  <2> QED  BY <2>1, <2>2, <2>3, <2>4 DEF Next
<1> QED  BY <1>1, <1>2, <1>4

(* So every step preserves the type invariant.                             *)
LEMMA TypeStep == TypeOK /\ [Next]_vars => TypeOK'
<1> SUFFICES ASSUME TypeOK, [Next]_vars PROVE TypeOK'
  OBVIOUS
<1>1. CASE Next
  <2>1. TypeOK' <=> LevelsOK' /\ BitsOK' /\ QueueOK' /\ TimerOK' /\ PcOK'
    BY DEF TypeOK, LevelsOK, BitsOK, QueueOK, TimerOK, PcOK
  <2> QED  BY <1>1, <2>1, TypeParts, LevelsStep, BitsStep, QueueStep, TimerStep, PcStep
<1>2. CASE UNCHANGED vars
  BY <1>2 DEF vars, chipVars, irqVars, setVars, timerVars, TypeOK
<1> QED  BY <1>1, <1>2

(* The registers, the queue and the trigger list keep their shape, for any *)
(* length of the queue and of the list and any periods.                    *)
THEOREM TypeCorrect == Spec => []TypeOK
BY TypeStarts, TypeStep, PTL DEF Spec

-------------------------------------------------------------------------------
(***************************************************************************)
(* Outputs that differ from the shadow register.                           *)
(***************************************************************************)

WriteQueued == \E i \in DOMAIN queue : queue[i] = "CHIP_WRITE"

(* What the operations of the queue do to a CHIP_WRITE in it.              *)
LEMMA QueueKeepsWrite ==
  ASSUME queue \in Seq(Events)
  PROVE  /\ \A e \in Events : queue' = Append(queue, e) =>
              (WriteQueued \/ e = "CHIP_WRITE" => WriteQueued')
         /\ Takes /\ Head(queue) # "CHIP_WRITE" /\ WriteQueued => WriteQueued'
<1>1. ASSUME NEW e \in Events, queue' = Append(queue, e), WriteQueued PROVE WriteQueued'
  BY <1>1 DEF WriteQueued
<1>2. ASSUME queue' = Append(queue, "CHIP_WRITE") PROVE WriteQueued'
  <2>1. Len(queue) + 1 \in DOMAIN queue' /\ queue'[Len(queue) + 1] = "CHIP_WRITE"
    BY <1>2 DEF Events
  <2> QED  BY <2>1 DEF WriteQueued
<1>3. ASSUME Takes, Head(queue) # "CHIP_WRITE", WriteQueued PROVE WriteQueued'
  <2>1. PICK i \in DOMAIN queue : queue[i] = "CHIP_WRITE"
    BY <1>3 DEF WriteQueued
  <2>2. i - 1 \in DOMAIN queue' /\ queue'[i - 1] = queue[i]
    BY <1>3, <2>1 DEF Takes
  <2> QED  BY <2>1, <2>2 DEF WriteQueued
<1> QED  BY <1>1, <1>2, <1>3

(* An output that is not what the program set is being written, for any    *)
(* drivers and any length of the queue, or a refusal lost it.              *)
THEOREM WritesPend == Spec => []WritePending
<1>1. Init => WritePending
  BY DEF Init, WritePending
<1>2. TypeOK /\ WritePending /\ [Next]_vars => WritePending'
  <2> SUFFICES ASSUME TypeOK, WritePending, [Next]_vars PROVE WritePending'
    OBVIOUS
  <2>1. queue \in Seq(Events) /\ pc \in [Tasks -> PcValues] /\ I2c \in Tasks
    BY DEF TypeOK, Tasks
  <2>2. WritePending <=> (output # shadow => stale \/ WriteQueued \/ \E t \in Tasks : pc[t] = "post")
    BY DEF WritePending, WriteQueued
  <2>3. WritePending' <=> (output' # shadow' => stale' \/ WriteQueued' \/ \E t \in Tasks : pc'[t] = "post")
    BY DEF WritePending, WriteQueued
  <2>4. UNCHANGED queue => WriteQueued' = WriteQueued
    BY DEF WriteQueued
  <2> USE <2>1, <2>2, <2>3, <2>4
  <2>5. CASE InputChange \/ ClearPending \/ EnableIrq \/ TakeSysTime \/ RemoveDelay \/ RegisterDelay
             \/ Period \/ ProcessTrigger \/ UNCHANGED vars
    BY <2>5 DEF InputChange, ClearPending, EnableIrq, TakeSysTime, RemoveDelay, RegisterDelay, Period,
                ProcessTrigger, vars, chipVars, setVars
  <2>6. CASE EXTI15_10_IRQHandler
    BY <2>6, QueueKeepsWrite DEF EXTI15_10_IRQHandler, chipVars, setVars, Events
  <2>7. CASE RunCallback
    BY <2>7, QueueKeepsWrite DEF RunCallback, chipVars, setVars, Events
  <2>8. CASE DelayRead \/ ReadChip \/ RefreshDevice
    <3>1. Takes /\ Head(queue) # "CHIP_WRITE"
      BY <2>8 DEF DelayRead, ReadChip, RefreshDevice, Receive, Takes
    <3>2. UNCHANGED <<output, shadow, stale>>
      BY <2>8 DEF DelayRead, ReadChip, RefreshDevice, chipVars, setVars
    <3>3. \A t \in Tasks : pc[t] = "post" => pc'[t] = "post"
      BY <2>8 DEF DelayRead, ReadChip, RefreshDevice, Receive
    <3> QED  BY <3>1, <3>2, <3>3, QueueKeepsWrite
  <2>9. CASE WriteChip
    BY <2>9 DEF WriteChip, setVars
  <2>10. ASSUME NEW t \in Tasks, WriteIo(t) PROVE WritePending'
    <3>1. CASE LoadShadow(t)
      <4>1. UNCHANGED <<output, shadow, stale, queue>>
        BY <3>1 DEF LoadShadow, chipVars
      <4>2. \A u \in Tasks : pc[u] = "post" => pc'[u] = "post"
        BY <3>1 DEF LoadShadow
      <4> QED  BY <4>1, <4>2
    <3>2. CASE StoreShadow(t)
      BY <3>2 DEF StoreShadow
    <3>3. CASE PostWrite(t)
      BY <3>3, QueueKeepsWrite DEF PostWrite, Events
    <3> QED  BY <2>10, <3>1, <3>2, <3>3 DEF WriteIo
  <2> QED  BY <2>5, <2>6, <2>7, <2>8, <2>9, <2>10 DEF Next, I2cTask, TimerTask
<1> QED  BY <1>1, <1>2, TypeCorrect, PTL DEF Spec

-------------------------------------------------------------------------------
(***************************************************************************)
(* The list of triggers.                                                   *)
(***************************************************************************)

(* Between removal and registration no slot holds the delay timer.         *)
Removed ==
  pc[I2c] \in {"register", "registering"} =>
    \A i \in Slots : ~(triggers[i].used /\ triggers[i].id = IoDelay)

(* No event has two triggers, for any length of the list and any periods.  *)
THEOREM TriggersUnique == Spec => []OneTriggerPerEvent
<1> DEFINE Inv == OneTriggerPerEvent /\ Removed
<1>1. Init => Inv
  <2> SUFFICES ASSUME Init PROVE Inv
    OBVIOUS
  <2>1. \A i \in Slots : ~NoTriggers(NoEvent)[i].used
    BY DEF NoTriggers
  <2>2. PICK s : triggers = [NoTriggers(NoEvent) EXCEPT ![s] = initalize(DevUpdate, UpdatePeriods, Forever)]
                 \/ triggers = NoTriggers(NoEvent)
    BY DEF Init, RegisterTrigger
  <2>3. \A i \in Slots : triggers[i].used => i = s
    BY <2>1, <2>2 DEF NoTriggers
  <2>4. pc[I2c] = "run"
    BY DEF Init, Tasks
  <2> QED  BY <2>3, <2>4 DEF OneTriggerPerEvent, Removed
<1>2. TypeOK /\ Inv /\ [Next]_vars => Inv'
  <2> SUFFICES ASSUME TypeOK, OneTriggerPerEvent, Removed, [Next]_vars PROVE Inv'
    OBVIOUS
  <2>1. triggers \in [Slots -> Trigger] /\ pc \in [Tasks -> PcValues] /\ I2c \in Tasks
    BY DEF TypeOK, Tasks
  <2>2. ASSUME triggers' \in [Slots -> Trigger],
               \A i \in Slots : triggers'[i].used => triggers[i].used /\ triggers'[i].id = triggers[i].id,
               pc'[I2c] \in {"register", "registering"} => pc[I2c] \in {"register", "registering"}
        PROVE  Inv'
    BY <2>2 DEF OneTriggerPerEvent, Removed
  <2>3. CASE RemoveDelay
    <3>1. triggers' = RemoveTrigger(triggers, IoDelay)
      BY <2>3 DEF RemoveDelay
    <3>2. \A i \in Slots : /\ triggers'[i].used => triggers[i].used /\ triggers'[i].id = triggers[i].id
                           /\ ~(triggers'[i].used /\ triggers'[i].id = IoDelay)
      BY <2>1, <3>1 DEF RemoveTrigger, Trigger
    <3> QED  BY <3>2 DEF OneTriggerPerEvent, Removed
  <2>4. CASE RegisterDelay
    <3>1. PICK s : triggers' = [triggers EXCEPT ![s] = initalize(IoDelay, DelayPeriods, 1)]
                   \/ triggers' = triggers
      BY <2>4 DEF RegisterDelay, RegisterTrigger
    <3>2. \A i \in Slots : triggers[i].used => triggers[i].id # IoDelay
      BY <2>4 DEF RegisterDelay, Removed
    <3>3. \A i \in Slots : \/ triggers'[i] = triggers[i]
                           \/ i = s /\ triggers'[i].id = IoDelay
      BY <2>1, <3>1 DEF initalize
    <3>4. pc'[I2c] = "run"
      BY <2>1, <2>4 DEF RegisterDelay
    <3> QED  BY <3>2, <3>3, <3>4 DEF OneTriggerPerEvent, Removed
  <2>5. CASE ProcessTrigger
    <3>1. \A r \in Trigger : Counted(r).used = r.used /\ Counted(r).id = r.id
      BY DEF Counted, Trigger
    <3>2. slot \in Slots
      BY <2>5 DEF ProcessTrigger, TypeOK, Slots
    <3>3. /\ triggers' = [triggers EXCEPT ![slot] = IF triggers[slot].used THEN Counted(triggers[slot])
                                                    ELSE triggers[slot]]
          /\ UNCHANGED pc
      BY <2>5 DEF ProcessTrigger
    <3>4. triggers[slot] \in Trigger
      BY <2>1, <3>2
    <3>5. triggers' \in [Slots -> Trigger]
      BY <2>1, <3>3, <3>4, CountedType
    <3>6. \A i \in Slots : triggers'[i].used = triggers[i].used /\ triggers'[i].id = triggers[i].id
      BY <2>1, <3>1, <3>3, <3>4
    <3> QED  BY <2>2, <3>3, <3>5, <3>6
  <2>6. CASE UNCHANGED triggers /\ ~RemoveDelay
    <3>1. pc'[I2c] \in {"register", "registering"} => pc[I2c] \in {"register", "registering"}
      <4> USE <2>1
      <4>1. CASE InputChange \/ EXTI15_10_IRQHandler \/ Period \/ TimerTask \/ UNCHANGED vars
        BY <4>1 DEF InputChange, EXTI15_10_IRQHandler, Period, TimerTask, ProcessTrigger, RunCallback, vars
      <4>2. CASE I2cTask
        BY <2>6, <4>2 DEF I2cTask, WriteChip, ReadChip, DelayRead, RefreshDevice, RegisterDelay,
                          ClearPending, EnableIrq
      <4>3. CASE TakeSysTime
        BY <4>3 DEF TakeSysTime
      <4>4. ASSUME NEW t \in Tasks, WriteIo(t)
            PROVE  pc'[I2c] \in {"register", "registering"} => pc[I2c] \in {"register", "registering"}
        BY <4>4 DEF WriteIo, LoadShadow, StoreShadow, PostWrite
      <4> QED  BY <4>1, <4>2, <4>3, <4>4 DEF Next
    <3> QED  BY <2>1, <2>2, <2>6, <3>1
  <2> QED
    BY <2>3, <2>4, <2>5, <2>6 DEF Next, I2cTask, TimerTask, vars, timerVars, InputChange,
       EXTI15_10_IRQHandler, WriteIo, LoadShadow, StoreShadow, PostWrite, WriteChip, ReadChip, DelayRead,
       RefreshDevice, ClearPending, EnableIrq, TakeSysTime, Period, RunCallback
<1> QED  BY <1>1, <1>2, TypeCorrect, PTL DEF Spec

-------------------------------------------------------------------------------
(* The variables of pcf8574_write_io are functions on the tasks.           *)
WriteTypeInv ==
  /\ pc \in [Tasks -> PcValues]
  /\ shadow \in Outputs
  /\ reg \in [Tasks -> Outputs]

(* A task about to store is alone there, and what it holds differs from    *)
(* the register in its own output only.                                    *)
StoreInv ==
  \A t \in Tasks : pc[t] = "store" =>
    /\ \A u \in Tasks \ {t} : pc[u] # "store"
    /\ \A p \in Pins \ {Drives(t)} : reg[t][p] = shadow[p]

(* The steps outside pcf8574_write_io put no task in its critical section. *)
LEMMA OtherSteps ==
  ASSUME WriteTypeInv, [Next]_vars, ~ \E t \in Tasks : WriteIo(t)
  PROVE  /\ UNCHANGED <<shadow, reg>>
         /\ pc' \in [Tasks -> PcValues]
         /\ \A t \in Tasks : (pc'[t] = "store") <=> (pc[t] = "store")
<1> USE DEF WriteTypeInv, PcValues, Tasks
<1>1. CASE InputChange \/ EXTI15_10_IRQHandler \/ Period \/ TimerTask \/ UNCHANGED vars
  <2>1. UNCHANGED <<shadow, reg, pc>>
    BY <1>1 DEF InputChange, EXTI15_10_IRQHandler, Period, TimerTask, ProcessTrigger, RunCallback,
                vars, setVars
  <2> QED  BY <2>1
<1>2. CASE I2cTask \/ TakeSysTime
  <2>1. UNCHANGED <<shadow, reg>>
    BY <1>2 DEF I2cTask, WriteChip, ReadChip, DelayRead, RefreshDevice, RemoveDelay, RegisterDelay,
                ClearPending, EnableIrq, TakeSysTime, setVars
  <2>2. pc[I2c] # "store" /\ \E v \in PcValues \ {"store"} : pc' = pc \/ pc' = [pc EXCEPT ![I2c] = v]
    BY <1>2 DEF I2cTask, WriteChip, ReadChip, DelayRead, RefreshDevice, RemoveDelay, RegisterDelay,
                ClearPending, EnableIrq, TakeSysTime, Receive
  <2> QED  BY <2>1, <2>2
<1> QED  BY <1>1, <1>2 DEF Next

(* One call of pcf8574_write_io changes one output of the shadow register, *)
(* if the critical section around its load and store is one.               *)
THEOREM StoresKeepOthers == ASSUME CriticalMasks PROVE Spec => OneOutputStored
<1> DEFINE Inv == WriteTypeInv /\ StoreInv
<1>1. Init => Inv
  BY DEF Init, WriteTypeInv, StoreInv, PcValues, Outputs, AllHigh, Levels
<1>2. Inv /\ [Next]_vars => Inv'
  <2> SUFFICES ASSUME WriteTypeInv, StoreInv, [Next]_vars PROVE Inv'
    OBVIOUS
  <2>1. CASE ~ \E t \in Tasks : WriteIo(t)
    BY <2>1, OtherSteps DEF WriteTypeInv, StoreInv
  <2>2. ASSUME NEW t \in Tasks, WriteIo(t) PROVE Inv'
    <3>1. CASE LoadShadow(t)
      <4>1. /\ \A u \in Tasks \ {t} : pc[u] # "store"
            /\ shadow' = shadow /\ pc' = [pc EXCEPT ![t] = "store"]
        BY <3>1 DEF LoadShadow, Runs
      <4>2. PICK level \in Levels : reg' = [reg EXCEPT ![t] = [shadow EXCEPT ![Drives(t)] = level]]
        BY <3>1 DEF LoadShadow
      <4>3. [shadow EXCEPT ![Drives(t)] = level] \in Outputs
            /\ \A p \in Pins \ {Drives(t)} : [shadow EXCEPT ![Drives(t)] = level][p] = shadow[p]
        BY DEF WriteTypeInv, Outputs, Pins, Drives
      <4> QED  BY <4>1, <4>2, <4>3 DEF WriteTypeInv, StoreInv, PcValues
    <3>2. CASE StoreShadow(t)
      <4>1. shadow' = reg[t] /\ reg' = [reg EXCEPT ![t] = AllHigh] /\ pc' = [pc EXCEPT ![t] = "post"]
        BY <3>2 DEF StoreShadow
      <4>2. \A u \in Tasks \ {t} : pc[u] # "store"
        BY <3>2 DEF StoreShadow, Runs
      <4>3. AllHigh \in Outputs
        BY DEF AllHigh, Outputs, Levels
      <4> QED  BY <4>1, <4>2, <4>3 DEF WriteTypeInv, StoreInv, PcValues
    <3>3. CASE PostWrite(t)
      <4>1. UNCHANGED <<shadow, reg>>
        BY <3>3 DEF PostWrite, setVars
      <4>2. \E v \in {"clear", "run"} : pc' = [pc EXCEPT ![t] = v]
        BY <3>3 DEF PostWrite
      <4> QED  BY <4>1, <4>2 DEF WriteTypeInv, StoreInv, PcValues
    <3> QED  BY <2>2, <3>1, <3>2, <3>3 DEF WriteIo
  <2> QED  BY <2>1, <2>2
<1>3. Inv /\ [Next]_vars =>
        [\A t \in Tasks : pc[t] = "store" /\ pc'[t] # "store"
           => \A p \in Pins \ {Drives(t)} : shadow'[p] = shadow[p]]_vars
  <2> SUFFICES ASSUME WriteTypeInv, StoreInv, [Next]_vars,
                      NEW t \in Tasks, pc[t] = "store", pc'[t] # "store",
                      NEW p \in Pins \ {Drives(t)}
               PROVE  shadow'[p] = shadow[p]
    OBVIOUS
  <2>1. CASE ~ \E u \in Tasks : WriteIo(u)
    BY <2>1, OtherSteps
  <2>2. ASSUME NEW u \in Tasks, WriteIo(u) PROVE shadow'[p] = shadow[p]
    <3>1. CASE LoadShadow(u) \/ PostWrite(u)
      BY <3>1 DEF LoadShadow, PostWrite, setVars
    <3>2. CASE StoreShadow(u)
      <4>1. u = t /\ shadow' = reg[u]
        BY <3>2 DEF StoreShadow, StoreInv
      <4> QED  BY <4>1 DEF StoreInv
    <3> QED  BY <2>2, <3>1, <3>2 DEF WriteIo
  <2> QED  BY <2>1, <2>2
<1> QED  BY <1>1, <1>2, <1>3, PTL DEF Spec, OneOutputStored
-------------------------------------------------------------------------------
(***************************************************************************)
(* The answer to an interrupt.                                             *)
(***************************************************************************)

(* Outstanding by where the answers are.                                   *)
ReadsIn(q) == {i \in DOMAIN q : q[i] \in ReadEvents}
DelaysIn(list) == {i \in Slots : Live(list[i]) /\ list[i].id = IoDelay}
Fired == IF firing = IoDelay THEN 1 ELSE 0
Busy == IF pc[I2c] # "run" THEN 1 ELSE 0

(* Counting them in the queue gives a number; it is zero if there is none. *)
LEMMA ReadsCounted ==
  ASSUME NEW q \in Seq(Events)
  PROVE  /\ IsFiniteSet(ReadsIn(q))
         /\ Cardinality(ReadsIn(q)) \in Nat
         /\ Cardinality(ReadsIn(q)) = 0 => \A i \in DOMAIN q : q[i] \notin ReadEvents
<1>1. IsFiniteSet(1 .. Len(q))
  BY FS_Interval
<1>2. ReadsIn(q) \in SUBSET (1 .. Len(q))
  BY DEF ReadsIn
<1>3. IsFiniteSet(ReadsIn(q))
  BY <1>1, <1>2, FS_Subset
<1> QED  BY <1>3, FS_CardinalityType, FS_EmptySet DEF ReadsIn

(* An event that is posted is one more, if it is of the chain.             *)
LEMMA PostCounts ==
  ASSUME queue \in Seq(Events), NEW event \in Events, queue' = Append(queue, event)
  PROVE  Cardinality(ReadsIn(queue')) = Cardinality(ReadsIn(queue)) + (IF event \in ReadEvents THEN 1 ELSE 0)
<1> DEFINE last == Len(queue) + 1
<1>1. /\ DOMAIN queue = 1 .. Len(queue) /\ DOMAIN queue' = (1 .. Len(queue)) \cup {last}
      /\ queue'[last] = event /\ \A i \in 1 .. Len(queue) : queue'[i] = queue[i]
      /\ last \notin 1 .. Len(queue)
  OBVIOUS
<1>2. last \notin ReadsIn(queue)
  BY <1>1 DEF ReadsIn
<1>3. IsFiniteSet(ReadsIn(queue)) /\ Cardinality(ReadsIn(queue)) \in Nat
  BY ReadsCounted
<1> HIDE DEF last
<1>4. CASE event \in ReadEvents
  <2>1. ReadsIn(queue') = ReadsIn(queue) \cup {last}
    BY <1>1, <1>4 DEF ReadsIn
  <2> QED  BY <1>2, <1>3, <1>4, <2>1, FS_AddElement
<1>5. CASE event \notin ReadEvents
  <2>1. ReadsIn(queue') = ReadsIn(queue)
    BY <1>1, <1>5 DEF ReadsIn
  <2> QED  BY <1>3, <1>5, <2>1
<1> QED  BY <1>4, <1>5

(* An event that is taken is one less, of a chain that has no other.       *)
LEMMA TakeCounts ==
  ASSUME queue \in Seq(Events), Takes, Cardinality(ReadsIn(queue)) \in {0, 1}
  PROVE  /\ Head(queue) \in ReadEvents => Cardinality(ReadsIn(queue)) = 1 /\ Cardinality(ReadsIn(queue')) = 0
         /\ Head(queue) \notin ReadEvents => Cardinality(ReadsIn(queue')) = Cardinality(ReadsIn(queue))
<1>1. /\ DOMAIN queue = 1 .. Len(queue) /\ DOMAIN queue' = 1 .. Len(queue) - 1
      /\ 1 \in DOMAIN queue /\ Head(queue) = queue[1]
      /\ \A i \in 1 .. Len(queue) - 1 : i + 1 \in DOMAIN queue /\ queue'[i] = queue[i + 1]
  BY DEF Takes
<1>2. IsFiniteSet(ReadsIn(queue))
  BY ReadsCounted
<1>3. CASE Cardinality(ReadsIn(queue)) = 0
  <2>1. \A i \in DOMAIN queue : queue[i] \notin ReadEvents
    BY <1>3, ReadsCounted
  <2>2. ReadsIn(queue') = {}
    BY <1>1, <2>1 DEF ReadsIn
  <2> QED  BY <1>1, <1>3, <2>1, <2>2, FS_EmptySet
<1>4. CASE Cardinality(ReadsIn(queue)) = 1
  <2>1. PICK j : ReadsIn(queue) = {j}
    BY <1>2, <1>4, FS_Singleton
  <2>2. j \in DOMAIN queue /\ \A i \in DOMAIN queue : queue[i] \in ReadEvents <=> i = j
    BY <2>1 DEF ReadsIn
  <2>3. CASE j = 1
    <3>1. ReadsIn(queue') = {}
      BY <1>1, <2>2, <2>3 DEF ReadsIn
    <3> QED  BY <1>1, <1>4, <2>2, <2>3, <3>1, FS_EmptySet
  <2>4. CASE j # 1
    <3>1. j - 1 \in 1 .. Len(queue) - 1
      BY <1>1, <2>2, <2>4
    <3>2. \A i \in 1 .. Len(queue) - 1 : queue'[i] \in ReadEvents <=> i = j - 1
      BY <1>1, <2>2
    <3>3. ReadsIn(queue') = {j - 1}
      BY <1>1, <3>1, <3>2 DEF ReadsIn
    <3>4. Head(queue) \notin ReadEvents
      BY <1>1, <2>2, <2>4
    <3> QED  BY <1>4, <3>3, <3>4, FS_Singleton
  <2> QED  BY <2>3, <2>4
<1> QED  BY <1>3, <1>4

(* The live delay timers of a list are a number too.                       *)
LEMMA DelaysCounted ==
  ASSUME NEW list
  PROVE  /\ IsFiniteSet(DelaysIn(list))
         /\ Cardinality(DelaysIn(list)) \in Nat
         /\ Cardinality(DelaysIn(list)) = 0 <=> DelaysIn(list) = {}
<1>1. IsFiniteSet(Slots)
  BY FS_Interval, MaxTriggersAssumption DEF Slots
<1>2. DelaysIn(list) \in SUBSET Slots
  BY DEF DelaysIn
<1>3. IsFiniteSet(DelaysIn(list))
  BY <1>1, <1>2, FS_Subset
<1> QED  BY <1>3, FS_CardinalityType, FS_EmptySet
(* A search upwards finds a free slot, if there is one.                    *)
LEMMA FirstFree ==
  ASSUME NEW S \in SUBSET Slots, S # {}
  PROVE  \E i \in S : \A j \in S : i <= j
<1> DEFINE Below == {1 .. i : i \in S}
<1>1. Below \subseteq FiniteSubsetsOf(Nat) /\ Below # {}
  <2>1. \A i \in S : 1 .. i \in FiniteSubsetsOf(Nat)
    BY FS_Interval, MaxTriggersAssumption DEF FiniteSubsetsOf, Slots
  <2> QED  BY <2>1
<1> HIDE DEF Below
<1>2. PICK x \in Below : \A y \in Below : <<y, x>> \notin StrictSubsetOrdering(Nat)
  BY <1>1, FS_StrictSubsetOrderingWellFounded, WFMin
<1>3. PICK i \in S : x = 1 .. i
  BY DEF Below
<1>4. ASSUME NEW j \in S, j < i PROVE FALSE
  <2>1. i \in Nat \ {0} /\ j \in Nat \ {0}
    BY MaxTriggersAssumption DEF Slots
  <2>2. 1 .. j \in SUBSET Nat /\ 1 .. i \in SUBSET Nat
    BY <2>1
  <2>3. 1 .. j \subseteq 1 .. i /\ 1 .. j # 1 .. i
    <3>1. i \in 1 .. i /\ i \notin 1 .. j
      BY <1>4, <2>1
    <3>2. \A k \in 1 .. j : k \in 1 .. i
      BY <1>4, <2>1
    <3> QED  BY <3>1, <3>2
  <2>4. 1 .. j \in Below
    BY DEF Below
  <2> QED  BY <1>2, <1>3, <2>2, <2>3, <2>4 DEF StrictSubsetOrdering
<1>5. \A j \in S : i \in Int /\ j \in Int
  BY MaxTriggersAssumption DEF Slots
<1> QED  BY <1>4, <1>5

(* Registration adds a delay timer to a list without one that has room.    *)
LEMMA RegisterCounts ==
  ASSUME NEW list \in [Slots -> Trigger], Cardinality(DelaysIn(list)) = 0, FreeSlots(list) # {}
  PROVE  Cardinality(DelaysIn(RegisterTrigger(list, IoDelay, DelayPeriods, 1))) = 1
<1> DEFINE new == initalize(IoDelay, DelayPeriods, 1)
           after == RegisterTrigger(list, IoDelay, DelayPeriods, 1)
<1>1. PICK s : after = [list EXCEPT ![s] = new] /\ s \in Slots
  <2>1. \E i \in FreeSlots(list) : \A j \in FreeSlots(list) : i <= j
    <3>1. FreeSlots(list) \in SUBSET Slots
      BY DEF FreeSlots
    <3> QED  BY <3>1, FirstFree
  <2>2. (CHOOSE i \in FreeSlots(list) : \A j \in FreeSlots(list) : i <= j) \in FreeSlots(list)
    BY <2>1
  <2> QED  BY <2>2 DEF RegisterTrigger, FreeSlots
<1>2. Live(new) /\ new.id = IoDelay
  BY DEF Live, initalize
<1>3. DelaysIn(list) = {}
  BY DelaysCounted
<1>4. DelaysIn(after) = {s}
  BY <1>1, <1>2, <1>3 DEF DelaysIn
<1> QED  BY <1>4, FS_Singleton

(* The delay timer that acts is spent; the others stay.                    *)
LEMMA ProcessCounts ==
  ASSUME triggers \in [Slots -> Trigger], ProcessTrigger, slot \in Slots,
         triggers[slot].used /\ triggers[slot].id = IoDelay => triggers[slot].left \in {0, 1}
  PROVE  Cardinality(DelaysIn(triggers')) + Fired' = Cardinality(DelaysIn(triggers)) + Fired
<1> DEFINE old == triggers[slot]
           new == IF old.used THEN Counted(old) ELSE old
<1>1. /\ triggers' = [triggers EXCEPT ![slot] = new] /\ firing = NoEvent
      /\ firing' = IF old.used /\ Matches(old) THEN old.id ELSE NoEvent
  BY DEF ProcessTrigger
<1>2. old \in Trigger
  OBVIOUS
<1>3. IsFiniteSet(DelaysIn(triggers)) /\ Cardinality(DelaysIn(triggers)) \in Nat
  BY DelaysCounted
<1>4. /\ triggers'[slot] = new
      /\ \A i \in Slots \ {slot} : triggers'[i] = triggers[i]
  BY <1>1
<1> DEFINE Counts(r) == Live(r) /\ r.id = IoDelay
<1>5. CASE old.used /\ old.id = IoDelay /\ Matches(old)
  <2>1. Counts(old) /\ ~Counts(new)
    BY <1>2, <1>5 DEF Live, Matches, Counted, Trigger, Forever
  <2>2. DelaysIn(triggers') = DelaysIn(triggers) \ {slot} /\ slot \in DelaysIn(triggers)
    BY <1>4, <2>1 DEF DelaysIn
  <2>3. Fired = 0 /\ Fired' = 1
    BY <1>1, <1>5 DEF Fired, NoEvent, IoDelay
  <2>4. Cardinality(DelaysIn(triggers')) = Cardinality(DelaysIn(triggers)) - 1
    BY <1>3, <2>2, FS_RemoveElement
  <2> QED  BY <1>3, <2>3, <2>4
<1>6. CASE ~(old.used /\ old.id = IoDelay /\ Matches(old))
  <2>1. Counts(new) <=> Counts(old)
    BY <1>2, <1>6 DEF Live, Matches, Counted, Trigger, Forever
  <2>2. DelaysIn(triggers') = DelaysIn(triggers)
    BY <1>4, <2>1 DEF DelaysIn
  <2>3. Fired = 0 /\ Fired' = 0
    BY <1>1, <1>6 DEF Fired, NoEvent, IoDelay
  <2> QED  BY <1>3, <2>2, <2>3
<1> QED  BY <1>5, <1>6
(* The delay timer acts once; a refusal comes with the interrupt off.      *)
OnceInv ==
  \A i \in Slots : triggers[i].used /\ triggers[i].id = IoDelay => triggers[i].left \in {0, 1}

ChainInv == OneRead /\ OnceInv /\ (broken => ~irqOn)

Queued == Cardinality(ReadsIn(queue))
Timed  == Cardinality(DelaysIn(triggers))

(* The sum that OneRead speaks of, by where the answers are ...            *)
LEMMA OutstandingParts ==
  ASSUME TypeOK
  PROVE  /\ Outstanding = Queued + Timed + Fired + Busy
         /\ Queued \in Nat /\ Timed \in Nat
         /\ Fired \in {0, 1} /\ Busy \in {0, 1}
<1>1. queue \in Seq(Events)
  BY DEF TypeOK
<1>2. Queued \in Nat /\ Timed \in Nat
  BY <1>1, ReadsCounted, DelaysCounted DEF Queued, Timed
<1>3. Outstanding = Queued + Timed + Fired + Busy
  BY DEF Outstanding, Queued, Timed, ReadsIn, DelaysIn, Fired, Busy
<1> QED  BY <1>2, <1>3 DEF Fired, Busy

(* ... before a step and after it.                                         *)
LEMMA OutstandingSum ==
  ASSUME TypeOK, TypeOK'
  PROVE  /\ Outstanding = Queued + Timed + Fired + Busy
         /\ Outstanding' = Queued' + Timed' + Fired' + Busy'
         /\ {Queued, Timed, Queued', Timed'} \subseteq Nat
         /\ Fired \in {0, 1} /\ Busy \in {0, 1}
<1>1. queue' \in Seq(Events)
  BY DEF TypeOK
<1>2. Queued' \in Nat /\ Timed' \in Nat
  BY <1>1, ReadsCounted, DelaysCounted DEF Queued, Timed
<1>3. Outstanding' = Queued' + Timed' + Fired' + Busy'
  BY DEF Outstanding, Queued, Timed, ReadsIn, DelaysIn, Fired, Busy
<1> QED  BY <1>2, <1>3, OutstandingParts

(* What a step leaves alone counts as before.                              *)
LEMMA SameCounts ==
  /\ UNCHANGED queue => Queued' = Queued
  /\ UNCHANGED triggers => Timed' = Timed /\ (OnceInv => OnceInv')
  /\ UNCHANGED firing => Fired' = Fired
  /\ UNCHANGED pc => Busy' = Busy
BY DEF Queued, Timed, ReadsIn, DelaysIn, Fired, Busy, OnceInv

(* A write of the outputs is no answer to the interrupt.                   *)
LEMMA WriteIoCounts ==
  ASSUME TypeOK, NEW t \in Tasks, WriteIo(t)
  PROVE  Queued' = Queued /\ Busy' = Busy /\ UNCHANGED <<triggers, firing, irqOn, broken>>
<1>1. Queued' = Queued
  <2>1. UNCHANGED queue \/ queue' = Append(queue, "CHIP_WRITE")
    BY DEF WriteIo, LoadShadow, StoreShadow, PostWrite
  <2>2. queue \in Seq(Events) /\ "CHIP_WRITE" \in Events \ ReadEvents
    BY DEF TypeOK, Events, ReadEvents
  <2>4. CASE queue' = Append(queue, "CHIP_WRITE")
    <3>1. Queued' = Queued + 0
      BY <2>2, <2>4, PostCounts DEF Queued
    <3> QED  BY <2>2, <3>1, ReadsCounted DEF Queued
  <2> QED  BY <2>1, <2>4, SameCounts
<1>2. Busy' = Busy
  <2>1. pc \in [Tasks -> PcValues] /\ I2c \in Tasks
    BY DEF TypeOK, Tasks
  <2> QED  BY <2>1 DEF Busy, WriteIo, LoadShadow, StoreShadow, PostWrite
<1>3. UNCHANGED <<triggers, firing, irqOn, broken>>
  BY DEF WriteIo, LoadShadow, StoreShadow, PostWrite, timerVars, irqVars
<1> QED  BY <1>1, <1>2, <1>3
(* An event of the chain goes through the queue one at a time.             *)
LEMMA QueueCounts ==
  ASSUME queue \in Seq(Events)
  PROVE  /\ \A event \in Events :
              queue' = Append(queue, event) =>
                Queued' = Queued + (IF event \in ReadEvents THEN 1 ELSE 0)
         /\ \A event : Receive(event) /\ Queued \in {0, 1} =>
              /\ event \in ReadEvents => Queued = 1 /\ Queued' = 0
              /\ event \notin ReadEvents => Queued' = Queued
<1>1. \A event : Receive(event) => Takes /\ Head(queue) = event
  BY DEF Receive, Takes
<1> QED  BY <1>1, PostCounts, TakeCounts DEF Queued

(* While the interrupt is off one answer moves on; when it is switched on  *)
(* there is none.                                                          *)
LEMMA ChainStep == TypeOK /\ TypeOK' /\ ChainInv /\ Next => ChainInv'
<1> SUFFICES ASSUME TypeOK, TypeOK', ChainInv, Next PROVE ChainInv'
  OBVIOUS
<1>1. /\ queue \in Seq(Events) /\ pc \in [Tasks -> PcValues] /\ triggers \in [Slots -> Trigger]
      /\ I2c \in Tasks /\ slot \in 0 .. MaxTriggers /\ {irqOn, broken} \subseteq BOOLEAN
  BY DEF TypeOK, Tasks
<1>2. Queued + Timed + Fired + Busy = IF irqOn \/ broken THEN 0 ELSE 1
  BY OutstandingSum DEF ChainInv, OneRead
<1>3. ASSUME Queued' + Timed' + Fired' + Busy' = IF irqOn' \/ broken' THEN 0 ELSE 1,
             OnceInv', broken' => ~irqOn'
      PROVE  ChainInv'
  BY <1>3, OutstandingSum DEF ChainInv, OneRead
<1>4. /\ {Queued, Timed, Queued', Timed'} \subseteq Nat
      /\ Fired \in {0, 1} /\ Busy \in {0, 1} /\ OnceInv /\ (broken => ~irqOn)
  BY OutstandingSum DEF ChainInv
<1>5. Queued \in {0, 1} /\ Timed \in {0, 1}
  BY <1>2, <1>4
<1>6. /\ {"CHIP_WRITE", "CHIP_READ", "DELAY_READ", "DEVICE_REFRESH"} \subseteq Events
      /\ "CHIP_READ" \in ReadEvents /\ "DELAY_READ" \in ReadEvents
      /\ "CHIP_WRITE" \notin ReadEvents /\ "DEVICE_REFRESH" \notin ReadEvents
  BY DEF Events, ReadEvents
<1>7. CASE InputChange \/ Period
  BY <1>2, <1>3, <1>4, <1>7, SameCounts DEF InputChange, Period, timerVars, irqVars
<1>8. CASE EXTI15_10_IRQHandler
  <2>1. Timed' = Timed /\ Fired' = Fired /\ Busy' = Busy /\ OnceInv'
    BY <1>4, <1>8, SameCounts DEF EXTI15_10_IRQHandler, timerVars
  <2>2. irqOn /\ ~broken /\ irqOn' = FALSE
    BY <1>4, <1>8 DEF EXTI15_10_IRQHandler
  <2>3. CASE queue' = Append(queue, "DELAY_READ") /\ UNCHANGED broken
    <3>1. Queued' = Queued + (IF "DELAY_READ" \in ReadEvents THEN 1 ELSE 0)
      BY <1>1, <1>6, <2>3, PostCounts DEF Queued
    <3>2. Queued + Timed + Fired + Busy = 0
      BY <1>2, <2>2
    <3>3. Queued' + Timed' + Fired' + Busy' = 1
      BY <1>4, <1>6, <2>1, <3>1, <3>2
    <3>4. ~irqOn' /\ ~broken'
      BY <2>2, <2>3
    <3> QED  BY <1>3, <2>1, <3>3, <3>4
  <2>4. CASE broken' = TRUE /\ UNCHANGED queue
    BY <1>2, <1>3, <1>4, <2>1, <2>2, <2>4, SameCounts
  <2> QED  BY <1>8, <2>3, <2>4 DEF EXTI15_10_IRQHandler
<1>9. ASSUME NEW t \in Tasks, WriteIo(t) PROVE ChainInv'
  BY <1>2, <1>3, <1>4, <1>9, WriteIoCounts, SameCounts
<1>10. CASE WriteChip \/ RefreshDevice
  <2>1. Queued' = Queued
    BY <1>1, <1>5, <1>6, <1>10, QueueCounts DEF WriteChip, RefreshDevice
  <2> QED  BY <1>2, <1>3, <1>4, <1>10, <2>1, SameCounts DEF WriteChip, RefreshDevice, timerVars, irqVars
<1>11. CASE DelayRead \/ ReadChip
  <2>1. Queued = 1 /\ Queued' = 0
    BY <1>1, <1>5, <1>6, <1>11, QueueCounts DEF DelayRead, ReadChip
  <2>2. Busy = 0 /\ Busy' = 1
    BY <1>1, <1>11 DEF DelayRead, ReadChip, Receive, Busy
  <2> QED  BY <1>2, <1>3, <1>4, <1>11, <2>1, <2>2, SameCounts DEF DelayRead, ReadChip, timerVars, irqVars
<1>12. CASE TakeSysTime \/ ClearPending
  <2>1. Busy' = Busy
    BY <1>1, <1>12 DEF TakeSysTime, ClearPending, Busy
  <2>2. UNCHANGED <<queue, triggers, firing, irqOn, broken>>
    BY <1>12 DEF TakeSysTime, ClearPending, timerVars, irqVars
  <2> QED  BY <1>2, <1>3, <1>4, <2>1, <2>2, SameCounts
<1>13. CASE RemoveDelay
  <2>1. Busy = 1 /\ Busy' = 1
    BY <1>1, <1>13 DEF RemoveDelay, Busy
  <2>2. Timed' = 0
    <3>1. DelaysIn(RemoveTrigger(triggers, IoDelay)) = {}
      BY DEF DelaysIn, RemoveTrigger, Live, Trigger
    <3> QED  BY <1>13, <3>1, FS_EmptySet DEF RemoveDelay, Timed
  <2>3. OnceInv'
    BY <1>1, <1>13 DEF RemoveDelay, RemoveTrigger, OnceInv, Trigger
  <2>4. UNCHANGED <<queue, firing, irqOn, broken>>
    BY <1>13 DEF RemoveDelay, irqVars
  <2> QED  BY <1>2, <1>3, <1>4, <2>1, <2>2, <2>3, <2>4, SameCounts
<1>14. CASE RegisterDelay
  <2>1. Busy = 1 /\ Busy' = 0
    BY <1>1, <1>14 DEF RegisterDelay, Busy
  <2>2. Timed = 0 /\ ~irqOn /\ ~broken
    BY <1>2, <1>4, <2>1
  <2>3. UNCHANGED <<queue, firing, irqOn>>
    BY <1>14 DEF RegisterDelay, irqVars
  <2>4. OnceInv'
    <3>1. PICK s : triggers' = [triggers EXCEPT ![s] = initalize(IoDelay, DelayPeriods, 1)]
                   \/ triggers' = triggers
      BY <1>14 DEF RegisterDelay, RegisterTrigger
    <3>2. initalize(IoDelay, DelayPeriods, 1).left = 1
      BY DEF initalize
    <3> QED  BY <1>1, <1>4, <3>1, <3>2 DEF OnceInv
  <2>5. CASE FreeSlots(triggers) = {}
    <3>1. triggers' = triggers /\ broken' = TRUE
      BY <1>14, <2>5 DEF RegisterDelay, RegisterTrigger
    <3> QED  BY <1>2, <1>3, <1>4, <2>1, <2>2, <2>3, <2>4, <3>1, SameCounts
  <2>6. CASE FreeSlots(triggers) # {}
    <3>1. Timed' = 1 /\ broken' = broken
      BY <1>1, <1>14, <2>2, <2>6, RegisterCounts DEF RegisterDelay, Timed
    <3> QED  BY <1>2, <1>3, <1>4, <2>1, <2>2, <2>3, <2>4, <3>1, SameCounts
  <2> QED  BY <2>5, <2>6
<1>15. CASE EnableIrq
  <2>1. Busy = 1 /\ Busy' = 0
    BY <1>1, <1>15 DEF EnableIrq, Busy
  <2>2. UNCHANGED <<queue, triggers, firing, broken>> /\ irqOn' = TRUE
    BY <1>15 DEF EnableIrq, timerVars
  <2> QED  BY <1>2, <1>3, <1>4, <2>1, <2>2, SameCounts
<1>16. CASE ProcessTrigger
  <2>1. slot \in Slots
    BY <1>1, <1>16 DEF ProcessTrigger, Slots
  <2>2. Timed' + Fired' = Timed + Fired
    BY <1>1, <1>4, <1>16, <2>1, ProcessCounts DEF Timed, OnceInv
  <2>3. OnceInv'
    <3>1. triggers' = [triggers EXCEPT ![slot] = IF triggers[slot].used THEN Counted(triggers[slot])
                                                 ELSE triggers[slot]]
      BY <1>16 DEF ProcessTrigger
    <3>2. \A r \in Trigger : /\ Counted(r).used = r.used /\ Counted(r).id = r.id
                             /\ r.left \in {0, 1} => Counted(r).left \in {0, 1}
      BY DEF Counted, Trigger, Forever, Matches
    <3> QED  BY <1>1, <1>4, <2>1, <3>1, <3>2 DEF OnceInv
  <2>4. UNCHANGED <<queue, pc, irqOn, broken>>
    BY <1>16 DEF ProcessTrigger, irqVars
  <2>5. Fired' \in {0, 1}
    BY DEF Fired
  <2> QED  BY <1>2, <1>3, <1>4, <2>2, <2>3, <2>4, <2>5, SameCounts
<1>17. CASE RunCallback
  <2>1. Fired' = 0 /\ UNCHANGED <<triggers, pc, irqOn>>
    BY <1>17 DEF RunCallback, Fired, IoDelay, NoEvent, irqVars
  <2>2. CASE Len(queue) < QueueMax
    <3>1. queue' = Append(queue, IF firing = IoDelay THEN "CHIP_READ" ELSE "DEVICE_REFRESH")
          /\ UNCHANGED broken
      BY <1>17, <2>2 DEF RunCallback
    <3>2. Queued' = Queued + Fired
      BY <1>1, <1>6, <3>1, QueueCounts DEF Fired
    <3> QED  BY <1>2, <1>3, <1>4, <2>1, <3>1, <3>2, SameCounts
  <2>3. CASE ~(Len(queue) < QueueMax)
    <3>1. UNCHANGED queue /\ broken' = (broken \/ firing = IoDelay)
      BY <1>17, <2>3 DEF RunCallback
    <3>2. CASE firing = IoDelay
      <4>1. Fired = 1 /\ broken' = TRUE
        BY <3>1, <3>2 DEF Fired
      <4>2. ~irqOn /\ Queued = 0 /\ Timed = 0 /\ Busy = 0
        BY <1>2, <1>4, <4>1
      <4> QED  BY <1>3, <1>4, <2>1, <3>1, <4>1, <4>2, SameCounts
    <3>3. CASE firing # IoDelay
      <4>1. Fired = 0 /\ broken' = broken
        BY <1>1, <3>1, <3>3 DEF Fired
      <4> QED  BY <1>2, <1>3, <1>4, <2>1, <3>1, <4>1, SameCounts
    <3> QED  BY <3>2, <3>3
  <2> QED  BY <2>2, <2>3
<1> QED  BY <1>7, <1>8, <1>9, <1>10, <1>11, <1>12, <1>13, <1>14, <1>15, <1>16, <1>17
         DEF Next, I2cTask, TimerTask
(* At the start there is no answer, and no delay timer.                    *)
LEMMA ChainStarts == Init => ChainInv /\ DelaysIn(triggers) = {}
<1> SUFFICES ASSUME Init PROVE ChainInv /\ DelaysIn(triggers) = {}
  OBVIOUS
<1>1. PICK s : triggers = [NoTriggers(NoEvent) EXCEPT ![s] = initalize(DevUpdate, UpdatePeriods, Forever)]
               \/ triggers = NoTriggers(NoEvent)
  BY DEF Init, RegisterTrigger
<1>2. \A i \in Slots : triggers[i].used => triggers[i].id # IoDelay
  BY <1>1 DEF NoTriggers, initalize, IoDelay, DevUpdate
<1>3. DelaysIn(triggers) = {}
  BY <1>2 DEF DelaysIn, Live
<1>4. ReadsIn(queue) = {}
  BY DEF Init, ReadsIn
<1>5. Outstanding = Cardinality(ReadsIn(queue)) + Cardinality(DelaysIn(triggers)) + Fired + Busy
  BY DEF Outstanding, ReadsIn, DelaysIn, Fired, Busy
<1>6. Fired = 0 /\ Busy = 0
  BY DEF Init, Fired, Busy, NoEvent, IoDelay, Tasks
<1>7. Outstanding = 0
  BY <1>3, <1>4, <1>5, <1>6, FS_EmptySet
<1> QED  BY <1>2, <1>3, <1>7 DEF Init, ChainInv, OneRead, OnceInv

(* Every step keeps to one.                                                *)
LEMMA ChainHolds == Spec => []ChainInv
<1>1. TypeOK /\ TypeOK' /\ ChainInv /\ [Next]_vars => ChainInv'
  <2>1. UNCHANGED vars /\ ChainInv => ChainInv'
    BY DEF vars, irqVars, timerVars, ChainInv, OneRead, OnceInv, Outstanding
  <2> QED  BY <2>1, ChainStep
<1> QED  BY <1>1, ChainStarts, TypeCorrect, PTL DEF Spec

(* The answer to an interrupt is one, from the interrupt that switches     *)
(* itself off to the read that switches it on, for any length of the queue *)
(* and of the list, any periods and whatever fails.                        *)
THEOREM OneReadAtATime == Spec => []OneRead
<1>1. ChainInv => OneRead
  BY DEF ChainInv
<1> QED  BY <1>1, ChainHolds, PTL

-------------------------------------------------------------------------------
(***************************************************************************)
(* The delay before the answer.                                            *)
(***************************************************************************)

(* The mutex of the timers is held by whom the positions say.              *)
MutexInv ==
  /\ slot # 0 => owner = "timer"
  /\ firing # NoEvent => slot # 0
  /\ pc[I2c] \in {"removing", "registering"} => owner = I2c

(* A slot that this period of the timer task has not come to yet.          *)
Ahead(i) == slot # 0 /\ slot <= i

(* A delay timer has counted no period that had not begun.                 *)
CountInv ==
  \A i \in DelaysIn(triggers) :
    /\ triggers[i].compare = DelayPeriods
    /\ age = DelayPeriods \/ age >= triggers[i].count + (IF Ahead(i) THEN 1 ELSE 0)

(* No step breaks the mutual exclusion around the list.                    *)
LEMMA MutexStep == TypeOK /\ MutexInv /\ Next => MutexInv'
<1> SUFFICES ASSUME TypeOK, MutexInv, Next PROVE MutexInv'
  OBVIOUS
<1>1. /\ pc \in [Tasks -> PcValues] /\ I2c \in Tasks /\ slot \in 0 .. MaxTriggers
      /\ I2c # "timer" /\ I2c # NoEvent /\ NoEvent # "timer"
  BY DEF TypeOK, Tasks, I2c, NoEvent
<1> USE <1>1 DEF MutexInv
<1>2. ASSUME UNCHANGED <<owner, slot, firing>>,
             pc'[I2c] \in {"removing", "registering"} => pc[I2c] \in {"removing", "registering"}
      PROVE  MutexInv'
  BY <1>2
<1>3. CASE InputChange \/ EXTI15_10_IRQHandler
  BY <1>2, <1>3 DEF InputChange, EXTI15_10_IRQHandler, timerVars
<1>4. ASSUME NEW t \in Tasks, WriteIo(t) PROVE MutexInv'
  BY <1>2, <1>4 DEF WriteIo, LoadShadow, StoreShadow, PostWrite, timerVars
<1>5. CASE WriteChip \/ ReadChip \/ DelayRead \/ RefreshDevice \/ ClearPending \/ EnableIrq
  BY <1>2, <1>5 DEF WriteChip, ReadChip, DelayRead, RefreshDevice, ClearPending, EnableIrq, timerVars
<1>6. CASE TakeSysTime
  BY <1>6 DEF TakeSysTime
<1>7. CASE RemoveDelay \/ RegisterDelay
  BY <1>7 DEF RemoveDelay, RegisterDelay
<1>8. CASE Period
  BY <1>8 DEF Period, Runs
<1>9. CASE ProcessTrigger
  BY <1>9, MaxTriggersAssumption DEF ProcessTrigger, NextTrigger
<1>10. CASE RunCallback
  BY <1>10, MaxTriggersAssumption DEF RunCallback, NextTrigger
<1> QED  BY <1>3, <1>4, <1>5, <1>6, <1>7, <1>8, <1>9, <1>10 DEF Next, I2cTask, TimerTask
(* The slots ahead of the timer task are fewer after its step.             *)
LEMMA NextSlot ==
  ASSUME slot \in 1 .. MaxTriggers, NextTrigger
  PROVE  \A i \in Slots : Ahead(i)' => Ahead(i) /\ i # slot
BY MaxTriggersAssumption DEF NextTrigger, Ahead, Slots

(* The counts of the delay timers stay behind the periods.                 *)
LEMMA CountStep == TypeOK /\ MutexInv /\ ChainInv /\ CountInv /\ Next => CountInv'
<1> SUFFICES ASSUME TypeOK, MutexInv, ChainInv, CountInv, Next PROVE CountInv'
  OBVIOUS
<1>1. /\ pc \in [Tasks -> PcValues] /\ triggers \in [Slots -> Trigger] /\ I2c \in Tasks
      /\ slot \in 0 .. MaxTriggers /\ age \in 0 .. DelayPeriods
  BY DEF TypeOK, Tasks
<1>2. \A i \in Slots : triggers[i] \in Trigger /\ triggers[i].count \in Nat
  BY <1>1, PeriodsAssumption DEF Trigger
<1>3. ASSUME UNCHANGED <<triggers, slot, age>> PROVE CountInv'
  BY <1>3 DEF CountInv, DelaysIn, Ahead
<1>4. CASE RemoveDelay
  <2>1. DelaysIn(RemoveTrigger(triggers, IoDelay)) = {}
    BY DEF DelaysIn, RemoveTrigger, Live, Trigger
  <2> QED  BY <1>4, <2>1 DEF RemoveDelay, CountInv
<1>5. CASE RegisterDelay
  <2>1. PICK s : triggers' = [triggers EXCEPT ![s] = initalize(IoDelay, DelayPeriods, 1)]
                 \/ triggers' = triggers
    BY <1>5 DEF RegisterDelay, RegisterTrigger
  <2>2. DelaysIn(triggers) = {}
    <3>1. Timed = 0
      <4>1. Busy = 1
        BY <1>5 DEF RegisterDelay, Busy
      <4> QED  BY <4>1, OutstandingParts DEF ChainInv, OneRead
    <3> QED  BY <3>1, DelaysCounted DEF Timed
  <2>3. DelaysIn(triggers') \subseteq {s}
    BY <1>1, <2>1, <2>2 DEF DelaysIn
  <2>4. slot' = 0 /\ age' = 0
    BY <1>5 DEF RegisterDelay, MutexInv, I2c
  <2>5. \A i \in DelaysIn(triggers') : triggers'[i].compare = DelayPeriods /\ triggers'[i].count = 0
    BY <1>1, <2>1, <2>2, <2>3 DEF DelaysIn, initalize
  <2> QED  BY <2>4, <2>5 DEF CountInv, Ahead
<1>6. CASE Period
  <2>1. UNCHANGED triggers /\ slot = 0 /\ age' = (IF age < DelayPeriods THEN age + 1 ELSE age)
    BY <1>6 DEF Period
  <2>2. \A i \in Slots : ~Ahead(i)
    BY <2>1 DEF Ahead
  <2>3. DelaysIn(triggers') = DelaysIn(triggers) /\ DelaysIn(triggers) \subseteq Slots
    BY <2>1 DEF DelaysIn
  <2>4. \A i \in DelaysIn(triggers) : age' = DelayPeriods \/ age' >= triggers[i].count + 1
    BY <1>1, <1>2, <2>1, <2>2, <2>3, PeriodsAssumption DEF CountInv
  <2>5. age' \in Nat
    BY <1>1, <2>1
  <2>6. \A i \in DelaysIn(triggers) :
          age' = DelayPeriods \/ age' >= triggers[i].count + (IF Ahead(i)' THEN 1 ELSE 0)
    BY <1>2, <2>3, <2>4, <2>5
  <2> QED  BY <2>1, <2>3, <2>6 DEF CountInv
<1>7. CASE ProcessTrigger
  <2>1. slot \in Slots /\ slot \in 1 .. MaxTriggers /\ UNCHANGED age
    BY <1>1, <1>7 DEF ProcessTrigger, Slots
  <2> DEFINE old == triggers[slot]
             new == IF old.used THEN Counted(old) ELSE old
  <2>2. triggers' = [triggers EXCEPT ![slot] = new]
    BY <1>7 DEF ProcessTrigger
  <2>3. CASE old.used /\ Matches(old)
    <3>1. slot \notin DelaysIn(triggers')
      <4>1. old.id = IoDelay => new.left = 0
        BY <1>2, <2>1, <2>3 DEF Counted, Matches, ChainInv, OnceInv, Forever, Trigger
      <4>2. new.id = old.id
        BY <1>2, <2>1, <2>3 DEF Counted, Trigger
      <4> QED  BY <1>1, <2>1, <2>2, <4>1, <4>2 DEF DelaysIn, Live
    <3>2. \A i \in DelaysIn(triggers') : i \in DelaysIn(triggers) /\ triggers'[i] = triggers[i]
      BY <1>1, <2>2, <3>1 DEF DelaysIn
    <3>3. UNCHANGED slot
      BY <1>7, <2>3 DEF ProcessTrigger
    <3> QED  BY <2>1, <3>2, <3>3 DEF CountInv, Ahead
  <2>4. CASE ~(old.used /\ Matches(old))
    <3>1. NextTrigger
      BY <1>7, <2>4 DEF ProcessTrigger
    <3>2. \A i \in Slots : Ahead(i)' => Ahead(i) /\ i # slot
      BY <2>1, <3>1, NextSlot
    <3>3. PICK k \in Slots : k = slot
      BY <2>1
    <3>4. /\ new.used = old.used /\ new.id = old.id /\ new.left = old.left
          /\ new.compare = old.compare /\ new.count \in {old.count, old.count + 1}
      BY <1>2, <2>1, <2>4 DEF Counted, Trigger
    <3>5. DelaysIn(triggers') = DelaysIn(triggers)
      BY <1>1, <2>1, <2>2, <3>4 DEF DelaysIn, Live
    <3> SUFFICES ASSUME NEW i \in DelaysIn(triggers)
                 PROVE  /\ triggers'[i].compare = DelayPeriods
                        /\ age' = DelayPeriods \/ age' >= triggers'[i].count + (IF Ahead(i)' THEN 1 ELSE 0)
      BY <3>5 DEF CountInv
    <3>6. i \in Slots /\ triggers[i].compare = DelayPeriods
          /\ (age = DelayPeriods \/ age >= triggers[i].count + (IF Ahead(i) THEN 1 ELSE 0))
      BY DEF CountInv, DelaysIn
    <3>7. CASE i # k
      <4>1. triggers'[i] = triggers[i]
        BY <1>1, <2>2, <3>3, <3>6, <3>7
      <4>2. Ahead(i)' => Ahead(i)
        BY <3>2, <3>6
      <4>3. (IF Ahead(i)' THEN 1 ELSE 0) <= (IF Ahead(i) THEN 1 ELSE 0)
        BY <4>2
      <4>4. triggers[i].count \in Nat /\ age \in Nat /\ age' = age
        BY <1>1, <1>2, <2>1, <3>6
      <4> QED  BY <3>6, <4>1, <4>3, <4>4
    <3>8. CASE i = k
      <4>1. triggers'[i] = new /\ old = triggers[i]
        BY <1>1, <2>1, <2>2, <3>3, <3>8
      <4>2. Ahead(i) /\ ~Ahead(i)'
        BY <2>1, <3>2, <3>3, <3>6, <3>8 DEF Ahead
      <4> QED  BY <1>1, <1>2, <2>1, <3>4, <3>6, <4>1, <4>2
    <3> QED  BY <3>7, <3>8
  <2> QED  BY <2>3, <2>4
<1>8. CASE RunCallback
  <2>1. slot \in 1 .. MaxTriggers /\ NextTrigger /\ UNCHANGED <<triggers, age>>
    BY <1>1, <1>8 DEF RunCallback, MutexInv
  <2>2. \A i \in Slots : Ahead(i)' => Ahead(i)
    BY <2>1, NextSlot
  <2>3. DelaysIn(triggers') = DelaysIn(triggers) /\ DelaysIn(triggers) \subseteq Slots
    BY <2>1 DEF DelaysIn
  <2> QED  BY <1>1, <1>2, <2>1, <2>2, <2>3 DEF CountInv
<1> QED
  BY <1>3, <1>4, <1>5, <1>6, <1>7, <1>8 DEF Next, I2cTask, TimerTask, WriteIo, LoadShadow, StoreShadow,
     PostWrite, InputChange, EXTI15_10_IRQHandler, WriteChip, ReadChip, DelayRead, RefreshDevice,
     ClearPending, EnableIrq, TakeSysTime, timerVars
(* What a posted or fired read owes: all periods of the delay.             *)
DelayInv == DelayKept /\ CountInv

(* An event reaches the queue whole, and no other changes its kind.        *)
LEMMA ReadPosted ==
  ASSUME queue \in Seq(Events), NEW event \in Events
  PROVE  /\ queue' = Append(queue, event) /\ (\E i \in DOMAIN queue' : queue'[i] = "CHIP_READ")
              => event = "CHIP_READ" \/ \E i \in DOMAIN queue : queue[i] = "CHIP_READ"
         /\ Takes /\ (\E i \in DOMAIN queue' : queue'[i] = "CHIP_READ")
              => \E i \in DOMAIN queue : queue[i] = "CHIP_READ"
<1>1. ASSUME queue' = Append(queue, event), NEW i \in DOMAIN queue', queue'[i] = "CHIP_READ"
      PROVE  event = "CHIP_READ" \/ \E j \in DOMAIN queue : queue[j] = "CHIP_READ"
  <2>1. (i \in DOMAIN queue /\ queue'[i] = queue[i]) \/ queue'[i] = event
    BY <1>1
  <2> QED  BY <1>1, <2>1
<1>2. ASSUME Takes, NEW i \in DOMAIN queue', queue'[i] = "CHIP_READ"
      PROVE  \E j \in DOMAIN queue : queue[j] = "CHIP_READ"
  <2>1. i + 1 \in DOMAIN queue /\ queue'[i] = queue[i + 1]
    BY <1>2 DEF Takes
  <2> QED  BY <1>2, <2>1
<1> QED  BY <1>1, <1>2

(* A delay timer that acts has counted all its periods.                    *)
LEMMA DelayStep == TypeOK /\ MutexInv /\ ChainInv /\ DelayInv /\ Next => DelayKept'
<1> DEFINE ReadWaits == \E i \in DOMAIN queue : queue[i] = "CHIP_READ"
           Due == firing = IoDelay \/ ReadWaits
<1> SUFFICES ASSUME TypeOK, MutexInv, ChainInv, DelayInv, Next, Due' PROVE age' = DelayPeriods
  BY DEF DelayKept
<1>1. /\ queue \in Seq(Events) /\ pc \in [Tasks -> PcValues] /\ triggers \in [Slots -> Trigger]
      /\ I2c \in Tasks /\ slot \in 0 .. MaxTriggers /\ age \in 0 .. DelayPeriods
  BY DEF TypeOK, Tasks
<1>2. Due => age = DelayPeriods
  BY DEF DelayInv, DelayKept
<1> HIDE DEF Due
<1>3. CASE UNCHANGED <<firing, age>> /\ (ReadWaits' => ReadWaits)
  BY <1>2, <1>3 DEF Due
<1>4. CASE UNCHANGED <<firing, age>> /\ Takes
  BY <1>1, <1>3, <1>4, ReadPosted DEF Events
<1>5. CASE UNCHANGED <<firing, age>> /\ \E event \in Events \ {"CHIP_READ"} : queue' = Append(queue, event)
  BY <1>1, <1>3, <1>5, ReadPosted
<1>6. CASE RegisterDelay
  <2>1. Busy = 1
    BY <1>6 DEF RegisterDelay, Busy
  <2>2. Queued = 0 /\ Fired = 0
    BY <2>1, OutstandingParts DEF ChainInv, OneRead
  <2>3. \A i \in DOMAIN queue : queue[i] # "CHIP_READ"
    BY <1>1, <2>2, ReadsCounted DEF Queued, ReadEvents
  <2>4. firing # IoDelay
    BY <2>2 DEF Fired
  <2> QED  BY <1>6, <2>3, <2>4 DEF RegisterDelay, Due
<1>7. CASE Period
  <2>1. UNCHANGED <<firing, queue>> /\ age' = (IF age < DelayPeriods THEN age + 1 ELSE age)
    BY <1>7 DEF Period
  <2>2. Due
    BY <2>1 DEF Due
  <2> QED  BY <1>2, <2>1, <2>2, PeriodsAssumption
<1>8. CASE ProcessTrigger
  <2>1. UNCHANGED <<queue, age>> /\ firing = NoEvent
    BY <1>8 DEF ProcessTrigger
  <2>2. CASE Due
    BY <1>2, <2>1, <2>2
  <2>3. CASE ~Due
    <3>1. firing' = IoDelay
      BY <2>1, <2>3 DEF Due
    <3>2. slot \in Slots /\ Ahead(slot)
      BY <1>1, <1>8 DEF ProcessTrigger, Slots, Ahead
    <3>3. triggers[slot].used /\ Matches(triggers[slot]) /\ triggers[slot].id = IoDelay
      BY <1>8, <2>1, <3>1 DEF ProcessTrigger, IoDelay, NoEvent
    <3>4. triggers[slot] \in Trigger
      BY <1>1, <3>2
    <3>5. slot \in DelaysIn(triggers)
      BY <3>2, <3>3, <3>4 DEF DelaysIn, Live, Matches
    <3>6. triggers[slot].compare = DelayPeriods
          /\ (age = DelayPeriods \/ age >= triggers[slot].count + 1)
      BY <3>2, <3>5 DEF DelayInv, CountInv
    <3>7. triggers[slot].count + 1 >= DelayPeriods /\ triggers[slot].count \in Nat
      BY <3>3, <3>4, <3>6, PeriodsAssumption DEF Matches, Trigger
    <3> QED  BY <1>1, <2>1, <3>6, <3>7, PeriodsAssumption
  <2> QED  BY <2>2, <2>3
<1>9. CASE RunCallback
  <2>1. firing' # IoDelay /\ UNCHANGED age
    BY <1>9 DEF RunCallback, IoDelay, NoEvent
  <2>2. ReadWaits' => Due
    <3>1. CASE UNCHANGED queue
      BY <3>1 DEF Due
    <3>2. CASE queue' = Append(queue, IF firing = IoDelay THEN "CHIP_READ" ELSE "DEVICE_REFRESH")
      BY <1>1, <3>2, ReadPosted DEF Due, Events
    <3> QED  BY <1>9, <3>1, <3>2 DEF RunCallback
  <2> QED  BY <1>2, <2>1, <2>2 DEF Due
<1>10. CASE InputChange \/ EXTI15_10_IRQHandler
  BY <1>3, <1>5, <1>10 DEF InputChange, EXTI15_10_IRQHandler, timerVars, Events
<1>11. ASSUME NEW t \in Tasks, WriteIo(t) PROVE age' = DelayPeriods
  <2>1. UNCHANGED queue \/ queue' = Append(queue, "CHIP_WRITE")
    BY <1>11 DEF WriteIo, LoadShadow, StoreShadow, PostWrite
  <2>2. UNCHANGED <<firing, age>>
    BY <1>11 DEF WriteIo, LoadShadow, StoreShadow, PostWrite, timerVars
  <2> QED  BY <1>3, <1>5, <2>1, <2>2 DEF Events
<1>12. CASE WriteChip \/ ReadChip \/ DelayRead \/ RefreshDevice
  <2>1. Takes
    BY <1>12 DEF WriteChip, ReadChip, DelayRead, RefreshDevice, Receive, Takes
  <2> QED  BY <1>4, <1>12, <2>1 DEF WriteChip, ReadChip, DelayRead, RefreshDevice, timerVars
<1>13. CASE RemoveDelay \/ ClearPending \/ EnableIrq \/ TakeSysTime
  BY <1>3, <1>13 DEF RemoveDelay, ClearPending, EnableIrq, TakeSysTime, timerVars
<1> QED  BY <1>6, <1>7, <1>8, <1>9, <1>10, <1>11, <1>12, <1>13 DEF Next, I2cTask, TimerTask

(* A CHIP_READ comes no sooner than at the begin of the N-th period after  *)
(* its trigger was registered, whatever the other triggers do meanwhile:   *)
(* N - 1 whole periods and what was left of the one it was registered in.  *)
THEOREM DelayIsKept == Spec => []DelayKept
<1>1. Init => MutexInv /\ DelayInv
  <2> SUFFICES ASSUME Init PROVE MutexInv /\ DelayInv
    OBVIOUS
  <2>1. DelaysIn(triggers) = {}
    BY ChainStarts
  <2>2. pc[I2c] = "run"
    BY DEF Init, Tasks
  <2> QED  BY <2>1, <2>2 DEF Init, MutexInv, DelayInv, DelayKept, CountInv, NoEvent, IoDelay
<1>2. TypeOK /\ ChainInv /\ MutexInv /\ DelayInv /\ [Next]_vars => MutexInv' /\ DelayInv'
  <2>1. UNCHANGED vars /\ MutexInv => MutexInv'
    BY DEF vars, timerVars, MutexInv
  <2>2. UNCHANGED vars /\ DelayInv => DelayInv'
    BY DEF vars, timerVars, DelayInv, DelayKept, CountInv, DelaysIn, Ahead
  <2> QED  BY <2>1, <2>2, MutexStep, CountStep, DelayStep DEF DelayInv
<1>3. DelayInv => DelayKept
  BY DEF DelayInv
<1> QED  BY <1>1, <1>2, <1>3, TypeCorrect, ChainHolds, PTL DEF Spec
=============================================================================
