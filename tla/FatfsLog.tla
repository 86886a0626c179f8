------------------------------- MODULE FatfsLog -------------------------------
(***************************************************************************)
(* The log file of UsrParts/fatfs_log/fatfs_logs.c.  print_log hands a     *)
(* record to fatfs_write and "!save" calls fatfs_close; both send a        *)
(* message, and the log task serves the messages with FatFs (vendored,     *)
(* ThirdParts/ff15; here: what f_write, f_sync, f_open and f_close do to   *)
(* the file and to its directory entry).                                   *)
(*                                                                         *)
(* The actors are the tasks that log records (the logger's mutex lets one  *)
(* at a time into fatfs_write, so they are one actor when it is on), the   *)
(* idle task, whose hook executes "!save", the log task, and the power     *)
(* supply.  A record is its number in the order fatfs_write accepted them. *)
(*                                                                         *)
(* A call of FatFs is a step.  FatFs is built without re-entrancy, and the *)
(* SD driver below it sleeps (drv_sdio_dma.c, delay_ms): what calls of two *)
(* actors that overlap make of the volume is not modelled, "shared" says   *)
(* that they may have done so.                                             *)
(***************************************************************************)
EXTENDS Integers, Sequences, SequencesExt

CONSTANTS
  Writers,       \* the tasks that log records
  MsgMax,        \* messages that fit in the message buffer
  SyncMax,       \* FATFS_SYNC_MAX_TIMES
  RecordMax,     \* bound: records accepted in a behaviour
  DiskFails      \* whether FatFs and the initialisation may fail, and the volume fill up

ASSUME WritersAssumption == Writers \cap {"idle", "log", "none"} = {}
ASSUME CapacityAssumption == MsgMax \in Nat \ {0} /\ SyncMax \in Nat /\ RecordMax \in Nat
ASSUME DiskAssumption == DiskFails \in BOOLEAN

Idle    == "idle"
Log     == "log"
NoTask  == "none"
Callers == Writers \cup {Idle}
Actors  == Callers \cup {Log}

VARIABLES
  result,      \* what fatfs_logs_init returned; for FATFS_LOG_OS_ERROR, why
  state,       \* gLoggerInfo.state: "OPEN" or "CLOSE"
  wTimes,      \* gLoggerInfo.w_times
  osOn,        \* is_fatfs_os_on
  mutex,       \* the holder of gLoggerInfo.xMutexM
  messages,    \* gLoggerInfo.xEventMsgBuffer: record numbers, 0 for a close
  pc,          \* where each actor is
  cur,         \* the record each actor is writing, 0 if none
  disk,        \* the records the directory entry counts: they survive
  pending,     \* records f_write put in the open file since
  f_file,      \* gLoggerInfo.f_file: "open", "error" (its flag) or "closed" (invalid)
  next,        \* the number of the next record
  reported,    \* history: records reported written since power-up
  cut,         \* history: those of them for which the volume had no room
  failed,      \* history: FatFs returned an error of the disk since power-up
  shared       \* history: FatFs was entered while another actor was in it

fileVars == <<disk, pending, f_file>>
logVars  == <<result, state, wTimes>>
msgVars  == <<osOn, mutex, messages, next>>
doneVars == <<reported, cut, failed>>
histVars == <<doneVars, shared>>
vars == <<logVars, msgVars, pc, cur, fileVars, histVars>>

Close == 0

FileErrors == {"FATFS_LOG_MOUNT_ERROR", "FATFS_LOG_FILE_ERROR"}
OsErrors   == {"no task", "no buffer", "no mutex"}
Results    == {"FATFS_LOG_OK"} \cup (IF DiskFails THEN FileErrors \cup OsErrors ELSE {})

(* fatfs_logs_init mounts the volume, opens or creates the file and seeks  *)
(* to its end (FATFS_LOG_SEEK_ERROR is as good as FATFS_LOG_FILE_ERROR),   *)
(* creates the log task, the buffer and the mutex, and only then leaves    *)
(* CLOSE.  Whatever it returns the scheduler is started.                   *)
StateOf(r) == IF r = "FATFS_LOG_OK" THEN "OPEN" ELSE "CLOSE"
FileOf(r)  == IF r \in FileErrors THEN "closed" ELSE "open"
LogOf(r)   == IF r \in FileErrors \cup {"no task"} THEN "absent" ELSE "created"
AtRest(r)  == [a \in Actors |-> IF a = Log THEN LogOf(r) ELSE "run"]
NoRecord   == [a \in Actors |-> 0]

Init ==
  /\ result \in Results /\ state = StateOf(result) /\ wTimes = 0
  /\ osOn = FALSE /\ mutex = NoTask /\ messages = << >>
  /\ pc = AtRest(result) /\ cur = NoRecord
  /\ disk = << >> /\ pending = << >> /\ f_file = FileOf(result)
  /\ next = 1
  /\ reported = {} /\ cut = {} /\ failed = FALSE /\ shared = FALSE

-------------------------------------------------------------------------------
(***************************************************************************)
(* Scheduling.                                                             *)
(***************************************************************************)

InFatFs(a) == pc[a] \in {"open", "write", "sync", "close", "closing"}

(* Who has work to do and neither waits nor sleeps in the SD driver.       *)
Ready(a) ==
  \/ pc[a] \in {"created", "give"}
  \/ pc[a] = "take" /\ mutex = NoTask
  \/ pc[a] = "send" /\ Len(messages) < MsgMax
  \/ pc[a] = "run" /\ a = Log /\ messages # << >>

(* The idle task has the lowest priority, except while it inherits that of *)
(* a task that waits for its mutex; it runs while others sleep in FatFs.   *)
MayRun(a) ==
  a = Idle => \/ mutex = Idle /\ \E w \in Writers : pc[w] = "take"
              \/ \A b \in Actors \ {Idle} : ~Ready(b)

(* An assertion of the kernel that fails stops the MCU (configASSERT). *)
Running == \A a \in Actors : pc[a] # "halted"

Enters(a) == shared' = (shared \/ \E b \in Actors \ {a} : InFatFs(b))

-------------------------------------------------------------------------------
(***************************************************************************)
(* fatfs_write, fatfs_close and fatfs_send_message.  The uninitialised     *)
(* status that they return is looked at by nobody.                         *)
(***************************************************************************)

(* Before the log task runs, the caller writes the file itself. *)
fatfs_write(w) ==
  /\ w \in Writers /\ pc[w] = "run"
  /\ next <= RecordMax
  /\ IF osOn
       THEN pc' = [pc EXCEPT ![w] = "take"] /\ UNCHANGED <<cur, next, shared>>
       ELSE /\ pc' = [pc EXCEPT ![w] = "open"]
            /\ cur' = [cur EXCEPT ![w] = next]
            /\ next' = next + 1
            /\ Enters(w)
  /\ UNCHANGED <<logVars, osOn, mutex, messages, fileVars, doneVars>>

(* Mutant: the idle task closes the file itself. *)
fatfs_close_Direct ==
  /\ pc[Idle] = "run" /\ MayRun(Idle)
  /\ pc' = [pc EXCEPT ![Idle] = "close"] /\ Enters(Idle)
  /\ UNCHANGED <<logVars, msgVars, cur, fileVars, doneVars>>

(* Without a log task "!save" is executed by the idle task. *)
fatfs_close ==
  /\ pc[Idle] = "run" /\ MayRun(Idle)
  /\ IF osOn THEN pc' = [pc EXCEPT ![Idle] = "take"] /\ UNCHANGED shared
             ELSE pc' = [pc EXCEPT ![Idle] = "close"] /\ Enters(Idle)
  /\ UNCHANGED <<logVars, msgVars, cur, fileVars, doneVars>>

(* Taking a mutex that was not created is a failed assertion. *)
TakeMutex(a) ==
  /\ pc[a] = "take" /\ MayRun(a)
  /\ mutex = NoTask
  /\ IF result = "no mutex"
       THEN pc' = [pc EXCEPT ![a] = "halted"] /\ UNCHANGED mutex
       ELSE pc' = [pc EXCEPT ![a] = "send"] /\ mutex' = a
  /\ UNCHANGED <<logVars, osOn, messages, next, cur, fileVars, histVars>>

(* xSemaphoreTake gave up after FATFS_WAIT_MAX_TIME: straight to the give. *)
TakeTimeout(a) ==
  /\ pc[a] = "take" /\ mutex # NoTask
  /\ pc' = [pc EXCEPT ![a] = "give"]
  /\ UNCHANGED <<logVars, msgVars, cur, fileVars, histVars>>

(* Mutant: the test for room is off by one. *)
Send_OffByOne(a) ==
  /\ pc[a] = "send" /\ MayRun(a)
  /\ Len(messages) <= MsgMax
  /\ IF a = Idle THEN messages' = Append(messages, Close) /\ UNCHANGED next
                 ELSE messages' = Append(messages, next) /\ next' = next + 1
  /\ pc' = [pc EXCEPT ![a] = "give"]
  /\ UNCHANGED <<logVars, osOn, mutex, cur, fileVars, histVars>>

Send(a) ==
  /\ pc[a] = "send" /\ MayRun(a)
  /\ Len(messages) < MsgMax
  /\ IF a = Idle THEN messages' = Append(messages, Close) /\ UNCHANGED next
                 ELSE messages' = Append(messages, next) /\ next' = next + 1
  /\ pc' = [pc EXCEPT ![a] = "give"]
  /\ UNCHANGED <<logVars, osOn, mutex, cur, fileVars, histVars>>

(* The buffer stayed full for FATFS_WAIT_MAX_TIME: the message is dropped. *)
SendTimeout(a) ==
  /\ pc[a] = "send"
  /\ Len(messages) >= MsgMax
  /\ pc' = [pc EXCEPT ![a] = "give"]
  /\ UNCHANGED <<logVars, msgVars, cur, fileVars, histVars>>

(* xSemaphoreGive follows whether the mutex was taken or not.  The kernel  *)
(* refuses to give a free mutex and asserts that the giver holds a taken   *)
(* one.                                                                    *)
GiveMutex(a) ==
  /\ pc[a] = "give" /\ MayRun(a)
  /\ mutex' = IF mutex = a THEN NoTask ELSE mutex
  /\ pc' = [pc EXCEPT ![a] = IF mutex \in {a, NoTask} THEN "run" ELSE "halted"]
  /\ UNCHANGED <<logVars, osOn, messages, next, cur, fileVars, histVars>>

-------------------------------------------------------------------------------
(***************************************************************************)
(* fatfs_log_task.                                                         *)
(***************************************************************************)

StartTask ==
  /\ pc[Log] = "created"
  /\ osOn' = TRUE
  /\ pc' = [pc EXCEPT ![Log] = IF result = "no buffer" THEN "halted" ELSE "run"]
  /\ UNCHANGED <<logVars, mutex, messages, next, cur, fileVars, histVars>>

Receive ==
  /\ pc[Log] = "run" /\ messages # << >>
  /\ messages' = Tail(messages)
  /\ IF Head(messages) = Close
       THEN pc' = [pc EXCEPT ![Log] = "close"] /\ UNCHANGED cur
       ELSE /\ pc' = [pc EXCEPT ![Log] = "open"]
            /\ cur' = [cur EXCEPT ![Log] = Head(messages)]
  /\ Enters(Log)
  /\ UNCHANGED <<logVars, osOn, mutex, next, fileVars, doneVars>>

-------------------------------------------------------------------------------
(***************************************************************************)
(* fatfs_device_write and fatfs_device_close.  The test for FATFS_LOG_IDLE *)
(* never succeeds: nothing sets that state after initialisation.           *)
(***************************************************************************)

Done(a) == pc' = [pc EXCEPT ![a] = "run"] /\ cur' = [cur EXCEPT ![a] = 0]

(* Mutant: the file is opened with FA_CREATE_ALWAYS. *)
OpenFile_CreateAlways(a) ==
  /\ pc[a] = "open" /\ MayRun(a)
  /\ IF state = "CLOSE" THEN disk' = << >> /\ pending' = << >> /\ f_file' = "open"
                        ELSE UNCHANGED fileVars
  /\ pc' = [pc EXCEPT ![a] = "write"]
  /\ UNCHANGED <<logVars, msgVars, cur, histVars>>

(* Mutant: the file is opened for every record. *)
OpenFile_Always(a) ==
  /\ pc[a] = "open" /\ MayRun(a)
  /\ pending' = << >> /\ f_file' = "open"
  /\ pc' = [pc EXCEPT ![a] = "write"]
  /\ UNCHANGED <<logVars, msgVars, cur, disk, histVars>>

(* A closed file is opened, at the end its directory entry names: what the *)
(* same FIL held unsynchronised is gone, whether f_open succeeds or fails, *)
(* which makes the FIL invalid.  f_lseek may fail after it, and sets the   *)
(* error flag.  The state stays CLOSE.  After a failed mount the file has  *)
(* no name.                                                                *)
OpenFile(a) ==
  /\ pc[a] = "open" /\ MayRun(a)
  /\ \/ /\ state = "OPEN"
        /\ pc' = [pc EXCEPT ![a] = "write"]
        /\ UNCHANGED <<fileVars, cur, failed>>
     \/ /\ state = "CLOSE" /\ result # "FATFS_LOG_MOUNT_ERROR"
        /\ pending' = << >> /\ f_file' = "open"
        /\ pc' = [pc EXCEPT ![a] = "write"]
        /\ UNCHANGED <<disk, cur, failed>>
     \/ /\ state = "CLOSE" /\ DiskFails
        /\ pending' = << >> /\ f_file' \in {"closed", "error"}
        /\ failed' = TRUE
        /\ Done(a)
        /\ UNCHANGED disk
  /\ UNCHANGED <<logVars, msgVars, reported, cut, shared>>

(* Mutant: the comparison is off by one. *)
NeedsSync_Late(times) == times > SyncMax + 1

NeedsSync(times) == times > SyncMax

(* f_write; an error stays with the open file and fails what follows.  On  *)
(* a volume that is full it writes less and returns FR_OK: the count it    *)
(* gives is not looked at.                                                 *)
WriteRecord(a) ==
  /\ pc[a] = "write" /\ MayRun(a)
  /\ \/ /\ f_file = "open"
        /\ \/ pending' = Append(pending, cur[a]) /\ UNCHANGED cut
           \/ DiskFails /\ cut' = cut \cup {cur[a]} /\ UNCHANGED pending
        /\ reported' = reported \cup {cur[a]}
        /\ wTimes' = wTimes + 1
        /\ IF NeedsSync(wTimes + 1)
             THEN pc' = [pc EXCEPT ![a] = "sync"] /\ UNCHANGED cur
             ELSE Done(a)
        /\ UNCHANGED <<f_file, failed>>
     \/ /\ f_file # "open" \/ DiskFails
        /\ f_file' = IF f_file = "closed" THEN "closed" ELSE "error"
        /\ failed' = TRUE
        /\ Done(a)
        /\ UNCHANGED <<pending, reported, cut, wTimes>>
  /\ UNCHANGED <<result, state, msgVars, disk, shared>>

(* Mutant: the records stay in the file's buffer when they are written. *)
Synced_KeepPending(ok) ==
  IF ok THEN f_file # "closed" /\ disk' = disk \o pending /\ UNCHANGED <<pending, failed>>
  ELSE DiskFails /\ failed' = TRUE /\ UNCHANGED <<disk, pending>>

(* What f_sync does: it counts the records in, or fails and leaves them;   *)
(* a FIL that is not valid it refuses.                                     *)
Synced(ok) ==
  IF ok THEN /\ f_file # "closed"
             /\ disk' = disk \o pending /\ pending' = << >>
             /\ UNCHANGED failed
        ELSE /\ DiskFails \/ f_file = "closed"
             /\ failed' = (failed \/ f_file # "closed")
             /\ UNCHANGED <<disk, pending>>

(* The result of f_sync is ignored. *)
SyncFile(a) ==
  /\ pc[a] = "sync" /\ MayRun(a)
  /\ \E ok \in BOOLEAN : Synced(ok)
  /\ wTimes' = 0
  /\ Done(a)
  /\ UNCHANGED <<result, state, msgVars, f_file, reported, cut, shared>>

(* fatfs_device_close, up to f_close. *)
SetClosed(a) ==
  /\ pc[a] = "close" /\ MayRun(a)
  /\ state' = "CLOSE"
  /\ pc' = [pc EXCEPT ![a] = "closing"]
  /\ UNCHANGED <<result, wTimes, msgVars, cur, fileVars, histVars>>

(* f_close leaves the FIL valid when its f_sync fails. *)
CloseFile(a) ==
  /\ pc[a] = "closing" /\ MayRun(a)
  /\ \E ok \in BOOLEAN : Synced(ok) /\ f_file' = IF ok THEN "closed" ELSE f_file
  /\ Done(a)
  /\ UNCHANGED <<logVars, msgVars, reported, cut, shared>>

-------------------------------------------------------------------------------
(* Power is lost and comes back: fatfs_logs_init finds what was on disk. *)
PowerCycle ==
  /\ result' \in Results /\ state' = StateOf(result') /\ wTimes' = 0
  /\ osOn' = FALSE /\ mutex' = NoTask /\ messages' = << >>
  /\ pc' = AtRest(result') /\ cur' = NoRecord
  /\ pending' = << >> /\ f_file' = FileOf(result')
  /\ reported' = {} /\ cut' = {} /\ failed' = FALSE
  /\ UNCHANGED <<disk, next, shared>>

SendMessage(a) ==
  TakeMutex(a) \/ TakeTimeout(a) \/ Send(a) \/ SendTimeout(a) \/ GiveMutex(a)

Device(a) ==
  OpenFile(a) \/ WriteRecord(a) \/ SyncFile(a) \/ SetClosed(a) \/ CloseFile(a)

Next ==
  \/ /\ Running
     /\ \/ \E w \in Writers : fatfs_write(w)
        \/ fatfs_close
        \/ \E a \in Callers : SendMessage(a)
        \/ StartTask
        \/ Receive
        \/ \E a \in Actors : Device(a)
  \/ PowerCycle

Spec == Init /\ [][Next]_vars

-------------------------------------------------------------------------------
(***************************************************************************)
(* Properties.                                                             *)
(***************************************************************************)

Records == Nat \ {Close}

PcValues ==
  {"absent", "created", "run", "take", "send", "give", "halted", "open", "write", "sync",
   "close", "closing"}

FlagsOK == osOn \in BOOLEAN /\ failed \in BOOLEAN /\ shared \in BOOLEAN

DataOK ==
  /\ result \in Results /\ state \in {"OPEN", "CLOSE"} /\ f_file \in {"open", "error", "closed"}
  /\ wTimes \in Nat
  /\ mutex \in Callers \cup {NoTask}
  /\ messages \in Seq(Nat) /\ Len(messages) <= MsgMax
  /\ pc \in [Actors -> PcValues]
  /\ cur \in [Actors -> Nat]
  /\ disk \in Seq(Nat) /\ pending \in Seq(Nat)
  /\ next \in Records
  /\ reported \subseteq Nat /\ cut \subseteq Nat

(* The log keeps its shape, the message buffer within its capacity.        *)
TypeOK == FlagsOK /\ DataOK

(* FatFs is built without re-entrancy (FF_FS_REENTRANT 0) and no lock of   *)
(* fatfs_logs.c guards the file, while the SD driver sleeps in the middle  *)
(* of a call: that one actor at a time is in FatFs rests on the log task   *)
(* alone.  Two are in it only where that task does not exist because the   *)
(* initialisation failed, or when it started while a task that logs was in *)
(* FatFs: a caller of fatfs_write that saw is_fatfs_os_on at 0 and sleeps. *)
OneInFatFs ==
  \A a, b \in Actors :
    a # b /\ InFatFs(a) /\ InFatFs(b) =>
      pc[Log] = "absent" \/ (osOn /\ {a, b} \cap Writers # {})

(* The file is a subsequence of what fatfs_write accepted, in that order   *)
(* and without repetition, across closes, re-opens and power failures, as  *)
(* long as no two actors have been in FatFs at once.                       *)
FileInOrder ==
  LET file == disk \o pending
  IN shared \/ \A i, j \in DOMAIN file : i < j => file[i] < file[j]

(* Records that f_sync or f_close completed stay in the file. *)
SyncedIsKept == [][shared \/ IsPrefix(disk, disk')]_disk

(* A power failure costs no more than FATFS_SYNC_MAX_TIMES records beyond  *)
(* the one in hand, unless FatFs failed or two actors were in it.          *)
UnsyncedBounded == shared \/ failed \/ Len(pending) <= SyncMax + 1

Written == {(disk \o pending)[i] : i \in DOMAIN (disk \o pending)}

(* As long as the file was never closed, a record reported as written is   *)
(* in it, unless the volume had no room for all of it: the one way in      *)
(* which a write is reported that was not made.                            *)
OpenKeepsReported == state = "OPEN" => shared \/ reported \ cut \subseteq Written

(* "fatfs write success" (fatfs_logs.c:254): a record reported as written  *)
(* is in the file, while the power is on and FatFs returns no error.       *)
ReportedIsKept == failed \/ shared \/ reported \subseteq Written
=============================================================================
