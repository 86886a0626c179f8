-------------------------------- MODULE Logger --------------------------------
(***************************************************************************)
(* The serial logger: UsrParts/logger/logger_process.c over the interrupt  *)
(* driven UART of Drivers/Src/usart_interrupt.c, with the command reader   *)
(* of UsrParts/logger/cmd_process.c that the idle hook runs.               *)
(*                                                                         *)
(* The actors are the tasks that call print_log or printf, the FreeRTOS    *)
(* idle task (which reads commands, and logs while it executes them), the  *)
(* USART1 interrupt and the UART itself.  One processor runs them all: the *)
(* interrupt is atomic for the threads, and the threads interleave between *)
(* any two of their accesses to shared state.                              *)
(*                                                                         *)
(* A byte of a log line is <<t, n, i>>, byte i of a line of n bytes that   *)
(* thread t formatted; printf's characters are lines of one byte.  A       *)
(* received byte is <<s, kind>> with s a sequence number modulo RxMod.     *)
(***************************************************************************)
EXTENDS CircularBuffer

CONSTANTS
  Tasks,            \* the tasks that call print_log and printf
  Idle,             \* the idle task
  NoThread,         \* not a thread: owner of a free mutex
  LineMax,          \* LOGGER_MAX_BUFFER_SIZE
  LineLens,         \* lengths of formatted lines; a line has a header and CR LF
  TxSize, RxSize,   \* LOGGER_BUFFER_SIZE of the two rings
  RxKinds,          \* kinds of byte that arrive: "char", "return", "newline"
  CommandMax,       \* COMMAND_MAX_SIZE
  InitMultiThread,  \* values of is_multi_thread_run the model starts from
  MonitorOn         \* MONITOR_MODULE_STATE == MODULE_ON

Threads == Tasks \cup {Idle}

ASSUME ThreadsAssumption == NoThread \notin Threads /\ Idle \notin Tasks
ASSUME SizesAssumption   == TxSize \in Nat \ {0} /\ RxSize \in Nat \ {0}
(* `if(size == 1)' of logger_put_tx_buffer is the printf path: a line of   *)
(* print_log always holds its header and "\r\n".                           *)
ASSUME LinesAssumption   == LineMax \in Nat \ {0} /\ LineLens \subseteq 2 .. LineMax
ASSUME CommandAssumption == CommandMax \in Nat \ {0}
ASSUME FlagsAssumption   == InitMultiThread \subseteq BOOLEAN /\ MonitorOn \in BOOLEAN

VARIABLES
  multiThread,   \* g_logger_info.is_multi_thread_run
  mutex,         \* owner of g_logger_info.protect
  pc,            \* where each thread is in print_log, fputc or the idle hook
  len,           \* outlen of the line each thread is logging, 0 if none
  lineBuf,       \* LoggerMaxBuffer: the one static buffer of all print_log calls
  tx,            \* LoggerTxBufferInfo
  txie,          \* TXEIE: the transmit interrupt is enabled
  dr,            \* transmit data register; TXE is set when it is Blank
  rx,            \* LoggerRxBufferInfo
  rxdr,          \* receive data register; RXNE is set when it is not Blank
  rxReg,         \* the idle task's register in `--currentSize'
  cmdIndex,      \* LoggerBuffer.index
  rxSeq,         \* number of the next byte on the line, modulo RxMod
  unread,        \* history: stored bytes the idle task has not taken
  lapped         \* history: a byte was stored over one that was not taken

mtxVars == <<multiThread, mutex>>
txVars  == <<tx, txie, dr>>
rxVars  == <<rx, rxdr, rxReg, cmdIndex, rxSeq, unread, lapped>>
vars    == <<mtxVars, pc, len, lineBuf, txVars, rxVars>>

Blank == << >>                     \* no byte

RxMod == RxSize + 2

TxByte == Threads \X (LineLens \cup {1}) \X (1 .. LineMax)
RxByte == (0 .. RxMod - 1) \X RxKinds

Line(t, n) == [i \in 1 .. n |-> <<t, n, i>>]

Init ==
  /\ multiThread \in InitMultiThread
  /\ mutex = NoThread
  /\ pc = [t \in Threads |-> "run"]
  /\ len = [t \in Threads |-> 0]
  /\ lineBuf = [i \in 1 .. LineMax |-> Blank]
  /\ tx = CircularBufferInit(TxSize, [s \in 0 .. TxSize - 1 |-> Blank])
  /\ rx = CircularBufferInit(RxSize, [s \in 0 .. RxSize - 1 |-> Blank])
  /\ txie = FALSE
  /\ dr = Blank
  /\ rxdr = Blank
  /\ rxReg = 0
  /\ cmdIndex = 0
  /\ rxSeq = 0
  /\ unread = << >>
  /\ lapped = FALSE

-------------------------------------------------------------------------------
(***************************************************************************)
(* print_log, called by the tasks and by the idle task's commands.  A line *)
(* below the log level returns at once and is no step.                     *)
(***************************************************************************)

(* Mutant: the result of xSemaphoreTake is ignored. *)
logger_protect_IgnoreTimeout(t, n) ==
  /\ len' = [len EXCEPT ![t] = n]
  /\ mutex' = IF multiThread /\ mutex = NoThread THEN t ELSE mutex
  /\ pc' = [pc EXCEPT ![t] = "header"]
  /\ UNCHANGED multiThread

(* logger_protect: no lock before multi-thread mode, else the mutex, which *)
(* a caller awaits for 10 ticks.                                           *)
logger_protect(t, n) ==
  /\ len' = [len EXCEPT ![t] = n]
  /\ \/ /\ ~multiThread \/ mutex = NoThread
        /\ mutex' = IF multiThread THEN t ELSE mutex
        /\ pc' = [pc EXCEPT ![t] = "header"]
     \/ /\ multiThread /\ mutex # NoThread
        /\ pc' = [pc EXCEPT ![t] = "wait"]
        /\ UNCHANGED mutex
  /\ UNCHANGED multiThread

PrintLog(t) ==
  /\ t \in Tasks /\ pc[t] = "run"
  /\ \E n \in LineLens : logger_protect(t, n)
  /\ UNCHANGED <<lineBuf, txVars, rxVars>>

ProtectGranted(t) ==
  /\ pc[t] = "wait" /\ mutex = NoThread
  /\ mutex' = t
  /\ pc' = [pc EXCEPT ![t] = "header"]
  /\ UNCHANGED <<multiThread, len, lineBuf, txVars, rxVars>>

(* Mutant: the error path gives the mutex it did not get. *)
ProtectTimeout_GiveAnyway(t) ==
  /\ pc[t] = "wait" /\ mutex # NoThread
  /\ pc' = [pc EXCEPT ![t] = "unlock"]
  /\ UNCHANGED <<mtxVars, len, lineBuf, txVars, rxVars>>

(* xSemaphoreTake gave up after 10 ticks: the line is dropped. *)
ProtectTimeout(t) ==
  /\ pc[t] = "wait" /\ mutex # NoThread
  /\ pc' = [pc EXCEPT ![t] = "run"]
  /\ len' = [len EXCEPT ![t] = 0]
  /\ UNCHANGED <<mtxVars, lineBuf, txVars, rxVars>>

(* snprintf of "level:%d info:" to the start of the shared buffer. *)
FormatHeader(t) ==
  /\ pc[t] = "header"
  /\ lineBuf' = [lineBuf EXCEPT ![1] = <<t, len[t], 1>>]
  /\ pc' = [pc EXCEPT ![t] = "body"]
  /\ UNCHANGED <<mtxVars, len, txVars, rxVars>>

(* vsnprintf and "\r\n" after it; a body that is empty or too long is not  *)
(* sent (return -4), though the buffer has been written.                   *)
FormatBody(t) ==
  /\ pc[t] = "body"
  /\ lineBuf' = [i \in 1 .. LineMax |->
                   IF i \in 2 .. len[t] THEN <<t, len[t], i>> ELSE lineBuf[i]]
  /\ \E next \in {"put", "unlock"} : pc' = [pc EXCEPT ![t] = next]
  /\ UNCHANGED <<mtxVars, len, txVars, rxVars>>

BufferedLine(t) == [i \in 1 .. len[t] |-> lineBuf[i]]

(* Mutant: the transmit interrupt is not enabled after the put. *)
PutLine_NoEnable(t) ==
  /\ pc[t] = "put"
  /\ tx' = IF len[t] <= tx.size - tx.currentSize THEN PutBlock(tx, BufferedLine(t)) ELSE tx
  /\ pc' = [pc EXCEPT ![t] = "unlock"]
  /\ UNCHANGED <<mtxVars, len, lineBuf, txie, dr, rxVars>>

(* Mutant: the free space is not compared with the size of the line. *)
PutLine_NoSpaceTest(t) ==
  /\ pc[t] = "put"
  /\ tx' = PutBlock(tx, BufferedLine(t))
  /\ pc' = [pc EXCEPT ![t] = "arm"]
  /\ UNCHANGED <<mtxVars, len, lineBuf, txie, dr, rxVars>>

(* Mutant: of a line that does not fit, as much as fits is put. *)
PutLine_Truncate(t) ==
  /\ pc[t] = "put"
  /\ LET room == tx.size - tx.currentSize
     IN tx' = PutBlock(tx, SubSeq(BufferedLine(t), 1, IF len[t] <= room THEN len[t] ELSE room))
  /\ pc' = [pc EXCEPT ![t] = "arm"]
  /\ UNCHANGED <<mtxVars, len, lineBuf, txie, dr, rxVars>>

(* uart_logger_write up to __enable_irq: logger_put_tx_buffer takes all of *)
(* the line or none of it.                                                 *)
PutLine(t) ==
  /\ pc[t] = "put"
  /\ IF len[t] <= tx.size - tx.currentSize
       THEN tx' = PutBlock(tx, BufferedLine(t)) /\ pc' = [pc EXCEPT ![t] = "arm"]
       ELSE tx' = tx                            /\ pc' = [pc EXCEPT ![t] = "unlock"]
  /\ UNCHANGED <<mtxVars, len, lineBuf, txie, dr, rxVars>>

(* fputc, behind printf: one byte, no mutex.  A full ring drops the byte   *)
(* and still answers GLOBAL_OK.                                            *)
PutChar(t) ==
  /\ t \in Tasks /\ pc[t] = "run"
  /\ tx' = CircularBufferPut(tx, <<t, 1, 1>>)
  /\ pc' = [pc EXCEPT ![t] = "armchar"]
  /\ UNCHANGED <<mtxVars, len, lineBuf, txie, dr, rxVars>>

(* uart_logger_write after __enable_irq: __HAL_UART_ENABLE_IT(TXE). *)
EnableTransmit(t) ==
  /\ pc[t] \in {"arm", "armchar"}
  /\ txie' = TRUE
  /\ pc' = [pc EXCEPT ![t] = IF pc[t] = "arm" THEN "unlock" ELSE "run"]
  /\ UNCHANGED <<mtxVars, len, lineBuf, tx, dr, rxVars>>

(* logger_unprotect looks at the flag again.  Giving a free mutex fails;   *)
(* giving another thread's mutex trips configASSERT(pxTCB == pxCurrentTCB) *)
(* in xTaskPriorityDisinherit, where the thread loops for ever.            *)
logger_unprotect(t) ==
  /\ pc[t] = "unlock"
  /\ IF multiThread /\ mutex \notin {t, NoThread}
       THEN pc' = [pc EXCEPT ![t] = "halted"] /\ UNCHANGED <<mutex, len>>
       ELSE /\ mutex' = IF multiThread THEN NoThread ELSE mutex
            /\ pc' = [pc EXCEPT ![t] = "run"]
            /\ len' = [len EXCEPT ![t] = 0]
  /\ UNCHANGED <<multiThread, lineBuf, txVars, rxVars>>

(* The first statement of monitor_manage::run. *)
logger_set_multi_thread_run ==
  /\ MonitorOn /\ ~multiThread
  /\ multiThread' = TRUE
  /\ UNCHANGED <<mutex, pc, len, lineBuf, txVars, rxVars>>

-------------------------------------------------------------------------------
(***************************************************************************)
(* The interrupt and the UART.                                             *)
(***************************************************************************)

(* Mutant: a full ring is flushed to make room. *)
ReceiveByte_FlushWhenFull ==
  LET room   == IF rx.currentSize < rx.size THEN rx
                ELSE CircularBufferInit(rx.size, rx.data)
      stored == rxdr # Blank
      over   == stored /\ Len(unread) >= rx.size /\ rx.currentSize < rx.size
  IN /\ rx' = IF stored THEN CircularBufferPut(room, rxdr) ELSE rx
     /\ rxdr' = Blank
     /\ lapped' = (lapped \/ over)
     /\ unread' = IF lapped' THEN << >>
                  ELSE IF stored THEN Append(unread, rxdr) ELSE unread
     /\ UNCHANGED <<rxReg, cmdIndex, rxSeq>>

(* RXNE half of the handler: logger_put_rx_buffer of one byte, dropped     *)
(* when the count says the ring is full.                                   *)
ReceiveByte ==
  LET stored == rxdr # Blank /\ rx.currentSize < rx.size
      over   == stored /\ Len(unread) >= rx.size
  IN /\ rx' = IF stored THEN CircularBufferPut(rx, rxdr) ELSE rx
     /\ rxdr' = Blank
     /\ lapped' = (lapped \/ over)
     /\ unread' = IF lapped' THEN << >>
                  ELSE IF stored THEN Append(unread, rxdr) ELSE unread
     /\ UNCHANGED <<rxReg, cmdIndex, rxSeq>>

(* TXE half: send the oldest byte, or disable the interrupt when there is  *)
(* none.                                                                   *)
TransmitByte ==
  IF dr = Blank /\ txie
    THEN IF CircularBufferIsEmpty(tx)
           THEN txie' = FALSE /\ UNCHANGED <<tx, dr>>
           ELSE /\ dr' = CircularBufferPeek(tx)
                /\ tx' = CircularBufferGet(tx)
                /\ UNCHANGED txie
    ELSE UNCHANGED txVars

USART1_IRQHandler ==
  /\ rxdr # Blank \/ (dr = Blank /\ txie)
  /\ ReceiveByte
  /\ TransmitByte
  /\ UNCHANGED <<mtxVars, pc, len, lineBuf>>

(* The UART moves the data register to the line and sets TXE. *)
UartShiftOut ==
  /\ dr # Blank
  /\ dr' = Blank
  /\ UNCHANGED <<mtxVars, pc, len, lineBuf, tx, txie, rxVars>>

(* A byte arrives.  One that meets a full data register is lost in the     *)
(* UART and changes nothing here.                                          *)
UartReceive ==
  /\ rxdr = Blank
  /\ \E kind \in RxKinds : rxdr' = <<rxSeq, kind>>
  /\ rxSeq' = (rxSeq + 1) % RxMod
  /\ UNCHANGED <<mtxVars, pc, len, lineBuf, txVars, rx, rxReg, cmdIndex, unread, lapped>>

-------------------------------------------------------------------------------
(***************************************************************************)
(* logger_process_run, in the idle hook: CircularBufferGet taken apart,    *)
(* because the interrupt may come between its accesses.                    *)
(***************************************************************************)

(* Mutant: the tests are dropped. *)
IdleTest_Untested ==
  /\ pc[Idle] = "run"
  /\ pc' = [pc EXCEPT ![Idle] = "rxload"]
  /\ UNCHANGED <<mtxVars, len, lineBuf, txVars, rxVars>>

(* Both tests that the ring is not empty; only this thread decrements.     *)
IdleTest ==
  /\ pc[Idle] = "run" /\ ~CircularBufferIsEmpty(rx)
  /\ pc' = [pc EXCEPT ![Idle] = "rxload"]
  /\ UNCHANGED <<mtxVars, len, lineBuf, txVars, rxVars>>

(* `--currentSize' reads the count ... *)
IdleLoad ==
  /\ pc[Idle] = "rxload"
  /\ rxReg' = rx.currentSize
  /\ pc' = [pc EXCEPT ![Idle] = "rxstore"]
  /\ UNCHANGED <<mtxVars, len, lineBuf, txVars, rx, rxdr, cmdIndex, rxSeq, unread, lapped>>

(* ... and writes it back, whatever the interrupt made of it meanwhile.    *)
IdleStore ==
  /\ pc[Idle] = "rxstore"
  /\ rx' = [rx EXCEPT !.currentSize = rxReg - 1]
  /\ rxReg' = 0
  /\ pc' = [pc EXCEPT ![Idle] = "rxtake"]
  /\ UNCHANGED <<mtxVars, len, lineBuf, txVars, rxdr, cmdIndex, rxSeq, unread, lapped>>

(* Mutant: a command ends at its newline only. *)
cmd_process_NoLengthLimit(c) ==
  LET index == IF c[2] = "char" THEN cmdIndex + 1 ELSE cmdIndex
      done  == c[2] = "newline"
  IN /\ cmdIndex' = IF done THEN 0 ELSE index
     /\ \/ pc' = [pc EXCEPT ![Idle] = "run"] /\ UNCHANGED <<mtxVars, len>>
        \/ done /\ \E n \in LineLens : logger_protect(Idle, n)

(* cmd_process counts the byte and executes a finished command: "!help",   *)
(* "!?" (and "!save", but for its file close) are silent or log, the       *)
(* others and an unknown command log.                                      *)
cmd_process(c) ==
  LET index == IF c[2] = "char" THEN cmdIndex + 1 ELSE cmdIndex
      done  == c[2] = "newline" \/ index >= CommandMax
  IN /\ cmdIndex' = IF done THEN 0 ELSE index
     /\ \/ pc' = [pc EXCEPT ![Idle] = "run"] /\ UNCHANGED <<mtxVars, len>>
        \/ done /\ \E n \in LineLens : logger_protect(Idle, n)

(* Read data[tail], advance the tail, process the byte. *)
IdleTake ==
  /\ pc[Idle] = "rxtake"
  /\ rx' = [rx EXCEPT !.tail = NextSlot(rx, rx.tail)]
  /\ unread' = IF unread = << >> THEN << >> ELSE Tail(unread)
  /\ cmd_process(CircularBufferPeek(rx))
  /\ UNCHANGED <<lineBuf, txVars, rxdr, rxReg, rxSeq, lapped>>

-------------------------------------------------------------------------------
(* What a thread does once it has begun, as opposed to the calls it makes. *)
Proceed(t) ==
  \/ ProtectGranted(t)
  \/ ProtectTimeout(t)
  \/ FormatHeader(t)
  \/ FormatBody(t)
  \/ PutLine(t)
  \/ EnableTransmit(t)
  \/ logger_unprotect(t)

IdleHook == IdleTest \/ IdleLoad \/ IdleStore \/ IdleTake

Next ==
  \/ \E t \in Threads : PrintLog(t) \/ PutChar(t) \/ Proceed(t)
  \/ IdleHook
  \/ logger_set_multi_thread_run
  \/ USART1_IRQHandler
  \/ UartShiftOut
  \/ UartReceive

Spec == Init /\ [][Next]_vars

(***************************************************************************)
(* The interrupt and the UART never stop, and the preemptive scheduler     *)
(* gives every thread the processor in the end (tasks block in vTaskDelay, *)
(* so the idle task runs).  Nobody is obliged to call print_log, printf or *)
(* to type.                                                                *)
(***************************************************************************)
Fairness ==
  /\ WF_vars(USART1_IRQHandler)
  /\ WF_vars(UartShiftOut)
  /\ WF_vars(IdleHook)
  /\ \A t \in Threads : WF_vars(Proceed(t))

FairSpec == Spec /\ Fairness

-------------------------------------------------------------------------------
(***************************************************************************)
(* Properties.                                                             *)
(***************************************************************************)

PcValues ==
  {"run", "wait", "header", "body", "put", "arm", "armchar", "unlock",
   "rxload", "rxstore", "rxtake", "halted"}

ThreadsTypeOK ==
  /\ multiThread \in BOOLEAN
  /\ mutex \in Threads \cup {NoThread}
  /\ pc \in [Threads -> PcValues]
  /\ len \in [Threads -> LineLens \cup {0}]
  /\ lineBuf \in [1 .. LineMax -> TxByte \cup {Blank}]

TxTypeOK ==
  /\ WellFormed(tx, TxByte \cup {Blank})
  /\ txie \in BOOLEAN
  /\ dr \in TxByte \cup {Blank}

RxTypeOK ==
  /\ rx \in [size : {RxSize}, currentSize : 0 .. RxSize, head : 0 .. RxSize - 1,
             tail : 0 .. RxSize - 1, data : [0 .. RxSize - 1 -> RxByte \cup {Blank}]]
  /\ rxdr \in RxByte \cup {Blank}
  /\ rxReg \in 0 .. RxSize
  /\ cmdIndex \in 0 .. CommandMax - 1
  /\ rxSeq \in 0 .. RxMod - 1
  /\ unread \in Seq(RxByte)
  /\ lapped \in BOOLEAN

(* Every variable of the logger keeps the shape the C declarations give it,*)
(* and both rings stay inside their storage (`head', `tail', `currentSize' *)
(* of circular_buffer.h).                                                  *)
TypeOK == ThreadsTypeOK /\ TxTypeOK /\ RxTypeOK

(* A thread about to hand the shared LoggerMaxBuffer to the UART finds in  *)
(* it the line it formatted, whatever the other print_log calls did        *)
(* between its snprintf, its vsnprintf and its logger_dev_tx_buffer.       *)
LineWhole ==
  \A t \in Threads : pc[t] = "put" => BufferedLine(t) = Line(t, len[t])

(* uart_logger_write enables the interrupt after it unmasked interrupts,   *)
(* and the handler disables it when it finds the ring empty: bytes may sit *)
(* in the ring with the interrupt off only while some thread is between    *)
(* its put and its enable.                                                 *)
TransmitArmed ==
  tx.currentSize # 0 /\ ~txie => \E t \in Threads : pc[t] \in {"arm", "armchar"}

(* No print_log gives the logger mutex while another thread holds it: the  *)
(* configASSERT of the kernel is not reached.                              *)
NoForeignGive == \A t \in Threads : pc[t] # "halted"

(* The bytes that were accepted and have not left the UART. *)
TxPipe == (IF dr = Blank THEN << >> ELSE <<dr>>) \o Contents(tx)

Pipe == INSTANCE BytePipe WITH
          Blocks <- {Line(t, n) : t \in Threads, n \in LineLens \cup {1}},
          pipe   <- TxPipe

(* The transmit path, from print_log to the line, is a pipe of whole lines *)
(* in which every accepted byte is sent, once and in order.                *)
TransmitIsPipe == Pipe!FairSpec

(* Until a byte has been stored over an unread one, the idle task takes    *)
(* exactly the bytes the interrupt stored, in order, though the two race   *)
(* on currentSize: the unread bytes lie in the ring behind the tail.       *)
RxInOrder ==
  ~lapped => \A i \in 1 .. Len(unread) :
               rx.data[SlotAfter(rx, rx.tail, i - 1)] = unread[i]

(* The idle task and the interrupt race on the count.  It is decremented   *)
(* only when it is not zero and by the task that tested it, so it never    *)
(* wraps below zero; and until a byte has been stored over an unread one,  *)
(* it is never ahead of the bytes that are there, less the one the idle    *)
(* task has claimed, so that no byte is taken twice.  Once that has        *)
(* happened it may be ahead: in a full ring CircularBufferGet decrements   *)
(* before it reads, and a byte that the interrupt stores in between lies   *)
(* over the one that is claimed and is counted all the same.               *)
RxCountBehind ==
  /\ ~lapped => rx.currentSize <= Len(unread) - (IF pc[Idle] = "rxtake" THEN 1 ELSE 0)
  /\ pc[Idle] = "rxstore" => rxReg \in 1 .. rx.currentSize
  /\ pc[Idle] = "rxload" => rx.currentSize # 0

(* main.c: "task idle run, can process rx command".  A stored byte is      *)
(* taken by the idle task in the end.                                      *)
RxEventuallyTaken ==
  \A s \in 0 .. RxMod - 1 :
    (\E i \in 1 .. Len(unread) : unread[i][1] = s)
      ~> (lapped \/ ~ \E i \in 1 .. Len(unread) : unread[i][1] = s)
=============================================================================
