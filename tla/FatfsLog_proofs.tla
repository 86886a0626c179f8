---------------------------- MODULE FatfsLog_proofs ----------------------------
(***************************************************************************)
(* The properties of FatfsLog, proved for every capacity, sync count and   *)
(* number of records, and for any set of writers.  Only the exclusion from *)
(* FatFs holds of one writer at a time, as the logger's mutex has it.      *)
(***************************************************************************)
EXTENDS FatfsLog, TLAPS

(***************************************************************************)
(* Types.                                                                  *)
(***************************************************************************)

LEMMA FlagsStay == FlagsOK /\ [Next]_vars => FlagsOK'
<1> SUFFICES ASSUME FlagsOK, [Next]_vars PROVE FlagsOK'
  OBVIOUS
<1> USE DEF FlagsOK
<1>1. ASSUME NEW w \in Writers, fatfs_write(w) PROVE FlagsOK'
  BY <1>1 DEF fatfs_write, Enters, fileVars, doneVars
<1>2. CASE fatfs_close
  BY <1>2 DEF fatfs_close, Enters, msgVars, fileVars, doneVars
<1>3. ASSUME NEW a \in Callers, SendMessage(a) PROVE FlagsOK'
  BY <1>3 DEF SendMessage, TakeMutex, TakeTimeout, Send, SendTimeout, GiveMutex,
              msgVars, fileVars, histVars, doneVars
<1>4. CASE StartTask \/ Receive
  BY <1>4 DEF StartTask, Receive, Enters, fileVars, histVars, doneVars
<1>5. ASSUME NEW a \in Actors, Device(a) PROVE FlagsOK'
  BY <1>5 DEF Device, OpenFile, WriteRecord, SyncFile, SetClosed, CloseFile, Synced,
              msgVars, fileVars, histVars, doneVars
<1>6. CASE PowerCycle
  BY <1>6 DEF PowerCycle
<1>7. CASE UNCHANGED vars
  BY <1>7 DEF vars, msgVars, fileVars, histVars, doneVars
<1> QED  BY <1>1, <1>2, <1>3, <1>4, <1>5, <1>6, <1>7 DEF Next

(* What the operators of Sequences do to sequences of numbers. *)
LEMMA SeqTypes ==
  ASSUME NEW s \in Seq(Nat), NEW t \in Seq(Nat), NEW x \in Nat
  PROVE  /\ Append(s, x) \in Seq(Nat) /\ Len(Append(s, x)) = Len(s) + 1
         /\ s \o t \in Seq(Nat) /\ << >> \in Seq(Nat)
         /\ s # << >> => Tail(s) \in Seq(Nat) /\ Len(Tail(s)) = Len(s) - 1 /\ Head(s) \in Nat
OBVIOUS

(* The parts of DataOK, apart from each other. *)
ControlOK ==
  /\ result \in Results /\ state \in {"OPEN", "CLOSE"} /\ f_file \in {"open", "error", "closed"}
  /\ mutex \in Callers \cup {NoTask}
  /\ pc \in [Actors -> PcValues]

CountsOK ==
  /\ wTimes \in Nat
  /\ cur \in [Actors -> Nat]
  /\ next \in Records
  /\ reported \subseteq Nat /\ cut \subseteq Nat

MessagesOK == messages \in Seq(Nat) /\ Len(messages) <= MsgMax

FileOK == disk \in Seq(Nat) /\ pending \in Seq(Nat)

LEMMA DataParts == DataOK <=> ControlOK /\ CountsOK /\ MessagesOK /\ FileOK
BY DEF DataOK, ControlOK, CountsOK, MessagesOK, FileOK

(* What fatfs_logs_init leaves. *)
LEMMA AtRestTypes ==
  ASSUME NEW r \in Results
  PROVE  /\ StateOf(r) \in {"OPEN", "CLOSE"} /\ FileOf(r) \in {"open", "error", "closed"}
         /\ AtRest(r) \in [Actors -> PcValues]
         /\ \A a \in Actors : AtRest(r)[a] \in {"run", "absent", "created"}
         /\ \A a \in Callers \ {Log} : AtRest(r)[a] = "run"
         /\ AtRest(r)[Log] \in {"absent", "created"}
BY DEF StateOf, FileOf, LogOf, AtRest, PcValues, Actors, Callers

LEMMA ControlStays == ControlOK /\ [Next]_vars => ControlOK'
<1> SUFFICES ASSUME ControlOK, [Next]_vars PROVE ControlOK'
  OBVIOUS
<1> USE DEF ControlOK, PcValues
<1>1. ASSUME NEW w \in Writers, fatfs_write(w) PROVE ControlOK'
  BY <1>1 DEF fatfs_write, logVars, fileVars, Actors, Callers
<1>2. CASE fatfs_close
  BY <1>2 DEF fatfs_close, logVars, msgVars, fileVars, Actors, Callers
<1>3. ASSUME NEW a \in Callers, SendMessage(a) PROVE ControlOK'
  BY <1>3 DEF SendMessage, TakeMutex, TakeTimeout, Send, SendTimeout, GiveMutex,
              logVars, msgVars, fileVars, Actors
<1>4. CASE StartTask \/ Receive
  BY <1>4 DEF StartTask, Receive, logVars, fileVars, Actors
<1>5. ASSUME NEW a \in Actors, Device(a) PROVE ControlOK'
  BY <1>5 DEF Device, OpenFile, WriteRecord, SyncFile, SetClosed, CloseFile, Done,
              logVars, msgVars, fileVars
<1>6. CASE PowerCycle
  BY <1>6, AtRestTypes DEF PowerCycle
<1>7. CASE UNCHANGED vars
  BY <1>7 DEF vars, logVars, msgVars, fileVars
<1> QED  BY <1>1, <1>2, <1>3, <1>4, <1>5, <1>6, <1>7 DEF Next

LEMMA CountsStay == CountsOK /\ MessagesOK /\ [Next]_vars => CountsOK'
<1> SUFFICES ASSUME CountsOK, MessagesOK, [Next]_vars PROVE CountsOK'
  OBVIOUS
<1> USE DEF CountsOK, Records, Close
<1>1. ASSUME NEW w \in Writers, fatfs_write(w) PROVE CountsOK'
  <2>1. \/ cur' = cur /\ next' = next
        \/ cur' = [cur EXCEPT ![w] = next] /\ next' = next + 1
    BY <1>1 DEF fatfs_write
  <2>2. UNCHANGED <<wTimes, reported, cut>>
    BY <1>1 DEF fatfs_write, logVars, doneVars
  <2> QED  BY <2>1, <2>2
<1>2. CASE fatfs_close
  BY <1>2 DEF fatfs_close, logVars, msgVars, doneVars
<1>3. ASSUME NEW a \in Callers, SendMessage(a) PROVE CountsOK'
  <2>1. next' = next \/ next' = next + 1
    BY <1>3 DEF SendMessage, TakeMutex, TakeTimeout, Send, SendTimeout, GiveMutex, msgVars
  <2>2. UNCHANGED <<wTimes, cur, reported, cut>>
    BY <1>3 DEF SendMessage, TakeMutex, TakeTimeout, Send, SendTimeout, GiveMutex,
                logVars, histVars, doneVars
  <2> QED  BY <2>1, <2>2
<1>4. CASE StartTask
  BY <1>4 DEF StartTask, logVars, histVars, doneVars
<1>5. CASE Receive
  <2>1. Head(messages) \in Nat
    BY <1>5, SeqTypes DEF Receive, MessagesOK
  <2>2. cur' = cur \/ cur' = [cur EXCEPT ![Log] = Head(messages)]
    BY <1>5 DEF Receive
  <2>3. UNCHANGED <<wTimes, next, reported, cut>>
    BY <1>5 DEF Receive, logVars, doneVars
  <2> QED  BY <2>1, <2>2, <2>3
<1>6. ASSUME NEW a \in Actors, Device(a) PROVE CountsOK'
  <2>1. cur' = cur \/ cur' = [cur EXCEPT ![a] = 0]
    BY <1>6 DEF Device, OpenFile, WriteRecord, SyncFile, SetClosed, CloseFile, Done
  <2>2. /\ next' = next
        /\ reported' = reported \/ reported' = reported \cup {cur[a]}
        /\ cut' = cut \/ cut' = cut \cup {cur[a]}
    BY <1>6 DEF Device, OpenFile, WriteRecord, SyncFile, SetClosed, CloseFile, msgVars, histVars, doneVars
  <2>3. wTimes' \in {wTimes, wTimes + 1, 0}
    BY <1>6 DEF Device, OpenFile, WriteRecord, SyncFile, SetClosed, CloseFile, logVars
  <2>4. reported' \subseteq Nat /\ cut' \subseteq Nat
    <3>1. cur[a] \in Nat /\ reported \subseteq Nat /\ cut \subseteq Nat
      OBVIOUS
    <3> QED  BY <2>2, <3>1, Zenon
  <2>5. cur' \in [Actors -> Nat]
    BY <2>1
  <2>6. wTimes' \in Nat
    BY <2>3
  <2> QED  BY <2>2, <2>4, <2>5, <2>6
<1>7. CASE PowerCycle
  <2>1. cur' = NoRecord /\ next' = next /\ wTimes' = 0 /\ reported' = {} /\ cut' = {}
    BY <1>7 DEF PowerCycle
  <2> QED  BY <2>1 DEF NoRecord
<1>8. CASE UNCHANGED vars
  BY <1>8 DEF vars, logVars, msgVars, histVars, doneVars
<1> QED  BY <1>1, <1>2, <1>3, <1>4, <1>5, <1>6, <1>7, <1>8 DEF Next

LEMMA MessagesStay == MessagesOK /\ CountsOK /\ [Next]_vars => MessagesOK'
<1> SUFFICES ASSUME MessagesOK, CountsOK, [Next]_vars PROVE MessagesOK'
  OBVIOUS
<1> USE DEF MessagesOK
<1>1. ASSUME NEW w \in Writers, fatfs_write(w) PROVE MessagesOK'
  BY <1>1 DEF fatfs_write
<1>2. CASE fatfs_close
  BY <1>2 DEF fatfs_close, msgVars
<1>3. ASSUME NEW a \in Callers, SendMessage(a) PROVE MessagesOK'
  <2>1. CASE Send(a)
    <3>1. next \in Nat
      BY DEF CountsOK, Records
    <3>2. Len(messages) < MsgMax
          /\ (messages' = Append(messages, 0) \/ messages' = Append(messages, next))
      BY <2>1 DEF Send, Close
    <3> QED  BY <3>1, <3>2, SeqTypes, CapacityAssumption
  <2>2. CASE UNCHANGED messages
    BY <2>2
  <2> QED  BY <1>3, <2>1, <2>2 DEF SendMessage, TakeMutex, TakeTimeout, SendTimeout, GiveMutex, msgVars
<1>4. CASE StartTask
  BY <1>4 DEF StartTask
<1>5. CASE Receive
  <2>1. messages # << >> /\ messages' = Tail(messages)
    BY <1>5 DEF Receive
  <2> QED  BY <2>1, SeqTypes, CapacityAssumption
<1>6. ASSUME NEW a \in Actors, Device(a) PROVE MessagesOK'
  BY <1>6 DEF Device, OpenFile, WriteRecord, SyncFile, SetClosed, CloseFile, msgVars
<1>7. CASE PowerCycle
  <2>1. messages' = << >>
    BY <1>7 DEF PowerCycle
  <2> QED  BY <2>1, CapacityAssumption
<1>8. CASE UNCHANGED vars
  BY <1>8 DEF vars, msgVars
<1> QED  BY <1>1, <1>2, <1>3, <1>4, <1>5, <1>6, <1>7, <1>8 DEF Next

(***************************************************************************)
(* What a step does to the file.                                           *)
(***************************************************************************)

File == disk \o pending

(* The four things that happen to the file: nothing, a record goes to its  *)
(* end, what was not synchronised is gone, or it is synchronised.          *)
Kept     == UNCHANGED <<disk, pending>>
Appended == UNCHANGED disk /\ \E a \in Actors : pc[a] = "write" /\ pending' = Append(pending, cur[a])
Dropped  == UNCHANGED disk /\ pending' = << >>
Counted  == disk' = disk \o pending /\ pending' = << >>

LEMMA FileSteps == ASSUME [Next]_vars PROVE Kept \/ Appended \/ Dropped \/ Counted
<1> USE DEF Kept, Appended, Dropped, Counted
<1>1. ASSUME NEW w \in Writers, fatfs_write(w) PROVE Kept
  BY <1>1 DEF fatfs_write, fileVars
<1>2. CASE fatfs_close
  BY <1>2 DEF fatfs_close, fileVars
<1>3. ASSUME NEW a \in Callers, SendMessage(a) PROVE Kept
  BY <1>3 DEF SendMessage, TakeMutex, TakeTimeout, Send, SendTimeout, GiveMutex, fileVars
<1>4. CASE StartTask \/ Receive
  BY <1>4 DEF StartTask, Receive, fileVars
<1>5. ASSUME NEW a \in Actors, Device(a) PROVE Kept \/ Appended \/ Dropped \/ Counted
  BY <1>5 DEF Device, OpenFile, WriteRecord, SyncFile, SetClosed, CloseFile, Synced, fileVars
<1>6. CASE PowerCycle
  BY <1>6 DEF PowerCycle
<1>7. CASE UNCHANGED vars
  BY <1>7 DEF vars, fileVars
<1> QED  BY <1>1, <1>2, <1>3, <1>4, <1>5, <1>6, <1>7 DEF Next

LEMMA FileStays == FileOK /\ CountsOK /\ [Next]_vars => FileOK'
<1> SUFFICES ASSUME FileOK, CountsOK, [Next]_vars PROVE FileOK'
  OBVIOUS
<1>1. \A a \in Actors : cur[a] \in Nat
  BY DEF CountsOK
<1> QED  BY <1>1, FileSteps, SeqTypes DEF FileOK, Kept, Appended, Dropped, Counted

(* Every behaviour of the log is of the declared types and the message     *)
(* buffer stays within its capacity.                                       *)
THEOREM TypeCorrect == Spec => []TypeOK
<1>1. Init => FlagsOK
  BY DEF Init, FlagsOK
<1>2. Init => DataOK
  BY AtRestTypes, CapacityAssumption
     DEF Init, DataOK, NoRecord, Records, Close
<1>3. DataOK /\ [Next]_vars => DataOK'
  <2>1. DataOK' <=> (ControlOK /\ CountsOK /\ MessagesOK /\ FileOK)'
    BY DataParts, PTL
  <2> QED  BY <2>1, DataParts, ControlStays, CountsStay, MessagesStay, FileStays
<1> QED  BY <1>1, <1>2, <1>3, FlagsStay, PTL DEF Spec, TypeOK

(* f_sync adds to the directory entry and nothing takes from it: what it   *)
(* counted once is in the file for ever, power failures included, as long  *)
(* as no two actors have been in FatFs at once.                            *)
THEOREM SyncedStays == Spec => SyncedIsKept
<1>1. TypeOK /\ [Next]_vars => [shared \/ IsPrefix(disk, disk')]_disk
  <2> SUFFICES ASSUME TypeOK, [Next]_vars, disk' # disk PROVE IsPrefix(disk, disk')
    OBVIOUS
  <2>1. disk' = disk \o pending
    BY FileSteps DEF Kept, Appended, Dropped, Counted
  <2>2. disk \in Seq(Nat) /\ pending \in Seq(Nat)
    BY DEF TypeOK, DataOK
  <2> QED  BY <2>1, <2>2 DEF IsPrefix
<1> QED  BY <1>1, TypeCorrect, PTL DEF Spec, SyncedIsKept

(* A record that goes to the end of the file is in it, with the others. *)
LEMMA AppendedIsIn ==
  ASSUME NEW s \in Seq(Nat), NEW t \in Seq(Nat), NEW x \in Nat
  PROVE  LET old == s \o t
             new == s \o Append(t, x)
         IN  /\ new = Append(old, x)
             /\ \A i \in DOMAIN old : i \in DOMAIN new /\ new[i] = old[i]
             /\ Len(old) + 1 \in DOMAIN new /\ new[Len(old) + 1] = x
OBVIOUS

(* A record reported as written for which the volume had room stays in the *)
(* file until it is closed, as long as no two actors have been in FatFs at *)
(* once.                                                                   *)
THEOREM ReportedStaysOpen == Spec => []OpenKeepsReported
<1> USE DEF OpenKeepsReported, Written
<1>1. Init => OpenKeepsReported
  BY DEF Init
<1>2. TypeOK /\ OpenKeepsReported /\ [Next]_vars => OpenKeepsReported'
  <2> SUFFICES ASSUME FileOK, CountsOK, OpenKeepsReported, [Next]_vars PROVE OpenKeepsReported'
    BY DataParts DEF TypeOK
(* Steps that leave the file and what is reported alone. *)
  <2>s. ASSUME UNCHANGED <<state, disk, pending, reported, cut>>, shared => shared'
        PROVE  OpenKeepsReported'
    BY <2>s
  <2> HIDE DEF OpenKeepsReported
  <2>1. ASSUME NEW w \in Writers, fatfs_write(w) PROVE OpenKeepsReported'
    <3>1. UNCHANGED <<state, disk, pending, reported, cut>>
      BY <2>1 DEF fatfs_write, logVars, fileVars, doneVars
    <3>2. shared => shared'
      BY <2>1 DEF fatfs_write, Enters
    <3> QED  BY <3>1, <3>2, <2>s
  <2>2. CASE fatfs_close
    <3>1. UNCHANGED <<state, disk, pending, reported, cut>>
      BY <2>2 DEF fatfs_close, logVars, fileVars, doneVars
    <3>2. shared => shared'
      BY <2>2 DEF fatfs_close, Enters
    <3> QED  BY <3>1, <3>2, <2>s
  <2>3. ASSUME NEW a \in Callers, SendMessage(a) PROVE OpenKeepsReported'
    <3>1. UNCHANGED <<state, disk, pending, reported, cut>> /\ shared' = shared
      BY <2>3 DEF SendMessage, TakeMutex, TakeTimeout, Send, SendTimeout, GiveMutex,
                  logVars, fileVars, histVars, doneVars
    <3> QED  BY <3>1, <2>s
  <2>4. CASE StartTask \/ Receive
    <3>1. UNCHANGED <<state, disk, pending, reported, cut>>
      BY <2>4 DEF StartTask, Receive, logVars, fileVars, histVars, doneVars
    <3>2. shared => shared'
      BY <2>4 DEF StartTask, Receive, Enters, histVars
    <3> QED  BY <3>1, <3>2, <2>s
  <2>5. ASSUME NEW a \in Actors, Device(a) PROVE OpenKeepsReported'
    <3>1. CASE OpenFile(a)
      BY <3>1, <2>s DEF OpenFile, OpenKeepsReported, logVars, fileVars
    <3> USE DEF OpenKeepsReported
    <3>2. CASE WriteRecord(a)
      <4>1. disk \in Seq(Nat) /\ pending \in Seq(Nat) /\ cur[a] \in Nat
        BY DEF FileOK, CountsOK
      <4>2. CASE UNCHANGED <<state, disk, pending, reported, cut, shared>>
        BY <4>2
      <4>3. CASE /\ UNCHANGED <<state, disk, cut, shared>>
                 /\ pending' = Append(pending, cur[a]) /\ reported' = reported \cup {cur[a]}
        <5>1. \A i \in DOMAIN (disk \o pending) :
                i \in DOMAIN (disk \o pending)' /\ (disk \o pending)'[i] = (disk \o pending)[i]
          BY <4>1, <4>3, AppendedIsIn
        <5>2. \E i \in DOMAIN (disk \o pending)' : (disk \o pending)'[i] = cur[a]
          BY <4>1, <4>3, AppendedIsIn
        <5>3. Written \subseteq Written' /\ cur[a] \in Written'
          BY <5>1, <5>2
        <5> HIDE DEF Written
        <5> QED  BY <4>3, <5>3
      <4>4. CASE /\ UNCHANGED <<state, disk, pending, shared>>
                 /\ cut' = cut \cup {cur[a]} /\ reported' = reported \cup {cur[a]}
        <5>1. Written' = Written
          BY <4>4
        <5> HIDE DEF Written
        <5> QED  BY <4>4, <5>1
      <4> QED  BY <3>2, <4>2, <4>3, <4>4 DEF WriteRecord
    <3>3. CASE SyncFile(a) \/ CloseFile(a)
      <4>1. disk \in Seq(Nat) /\ pending \in Seq(Nat)
        BY DEF FileOK
      <4>2. UNCHANGED <<state, reported, cut, shared>>
        BY <3>3 DEF SyncFile, CloseFile, logVars
      <4>3. \/ disk' = disk \o pending /\ pending' = << >>
            \/ disk' = disk /\ pending' = pending
        BY <3>3 DEF SyncFile, CloseFile, Synced
      <4>4. (disk \o pending) \o << >> = disk \o pending
        BY <4>1
      <4>5. (disk \o pending)' = disk \o pending
        BY <4>3, <4>4
      <4> QED  BY <4>2, <4>5
    <3>4. CASE SetClosed(a)
      BY <3>4 DEF SetClosed
    <3> QED  BY <2>5, <3>1, <3>2, <3>3, <3>4 DEF Device
  <2>6. CASE PowerCycle
    BY <2>6 DEF PowerCycle, OpenKeepsReported
  <2>7. CASE UNCHANGED vars
    BY <2>7, <2>s DEF vars, logVars, fileVars, histVars, doneVars
  <2> QED  BY <2>1, <2>2, <2>3, <2>4, <2>5, <2>6, <2>7 DEF Next
<1> QED  BY <1>1, <1>2, TypeCorrect, PTL DEF Spec

(***************************************************************************)
(* Who is in FatFs.                                                        *)
(***************************************************************************)

(* Until FatFs has been shared, who is in it is alone. *)
AloneInv == shared \/ \A a, b \in Actors : InFatFs(a) /\ InFatFs(b) => a = b

(* Before the log task runs nobody sends, and the idle task closes the     *)
(* file itself only where there is no log task.                            *)
StartInv ==
  /\ ~osOn => /\ pc[Log] \in {"absent", "created"}
              /\ messages = << >> /\ mutex = NoTask
              /\ \A a \in Callers : pc[a] \notin {"take", "send"}
  /\ InFatFs(Idle) => pc[Log] = "absent"

Distinct == Idle # Log /\ Idle \in Callers /\ Log \notin Callers /\ Log \in Actors

LEMMA AreDistinct == Distinct
BY WritersAssumption DEF Distinct, Actors, Callers, Idle, Log

(* A step takes one actor into FatFs at most, and notes who is there. *)
LEMMA Entering ==
  ASSUME ControlOK, [Next]_vars
  PROVE  \/ \E a \in Actors :
               /\ \A b \in Actors \ {a} : pc'[b] = pc[b]
               /\ \/ Enters(a)
                  \/ (InFatFs(a)' => InFatFs(a)) /\ shared' = shared
         \/ (\A a \in Actors : ~InFatFs(a)') /\ shared' = shared
<1> USE DEF ControlOK
<1>1. ASSUME NEW w \in Writers, fatfs_write(w)
      PROVE  /\ \A b \in Actors \ {w} : pc'[b] = pc[b]
             /\ w \in Actors
             /\ \/ Enters(w)
                \/ (InFatFs(w)' => InFatFs(w)) /\ shared' = shared
  BY <1>1 DEF fatfs_write, InFatFs, Actors, Callers
<1>2. ASSUME fatfs_close
      PROVE  /\ \A b \in Actors \ {Idle} : pc'[b] = pc[b]
             /\ Idle \in Actors
             /\ \/ Enters(Idle)
                \/ (InFatFs(Idle)' => InFatFs(Idle)) /\ shared' = shared
  BY <1>2 DEF fatfs_close, InFatFs, Actors, Callers
<1>3. ASSUME NEW a \in Callers, SendMessage(a)
      PROVE  /\ \A b \in Actors \ {a} : pc'[b] = pc[b]
             /\ a \in Actors /\ (InFatFs(a)' => InFatFs(a)) /\ shared' = shared
  BY <1>3 DEF SendMessage, TakeMutex, TakeTimeout, Send, SendTimeout, GiveMutex, InFatFs,
              histVars, Actors
<1>4. ASSUME StartTask
      PROVE  /\ \A b \in Actors \ {Log} : pc'[b] = pc[b]
             /\ (InFatFs(Log)' => InFatFs(Log)) /\ shared' = shared
  BY <1>4 DEF StartTask, InFatFs, histVars, Actors
<1>5. ASSUME Receive PROVE (\A b \in Actors \ {Log} : pc'[b] = pc[b]) /\ Enters(Log)
  BY <1>5 DEF Receive
<1>6. ASSUME NEW a \in Actors, Device(a)
      PROVE  /\ \A b \in Actors \ {a} : pc'[b] = pc[b]
             /\ InFatFs(a) /\ shared' = shared
  BY <1>6 DEF Device, OpenFile, WriteRecord, SyncFile, SetClosed, CloseFile, Done, InFatFs, histVars
<1>7. ASSUME PowerCycle PROVE (\A a \in Actors : ~InFatFs(a)') /\ shared' = shared
  BY <1>7, AtRestTypes DEF PowerCycle, InFatFs
<1>8. ASSUME UNCHANGED vars PROVE shared' = shared /\ pc' = pc
  BY <1>8 DEF vars, histVars
<1>9. Log \in Actors
  BY DEF Actors
<1> QED  BY <1>1, <1>2, <1>3, <1>4, <1>5, <1>6, <1>7, <1>8, <1>9 DEF Next, InFatFs

LEMMA SharedStays == ControlOK /\ [Next]_vars /\ shared => shared'
BY Entering DEF Enters

LEMMA AloneStays == ControlOK /\ AloneInv /\ [Next]_vars => AloneInv'
<1> SUFFICES ASSUME ControlOK, AloneInv, [Next]_vars PROVE AloneInv'
  OBVIOUS
<1>1. CASE \A a \in Actors : ~InFatFs(a)'
  BY <1>1 DEF AloneInv
<1>2. ASSUME NEW a \in Actors, \A b \in Actors \ {a} : pc'[b] = pc[b],
             Enters(a) \/ ((InFatFs(a)' => InFatFs(a)) /\ shared' = shared)
      PROVE  AloneInv'
  <2>1. \A b \in Actors \ {a} : InFatFs(b)' <=> InFatFs(b)
    BY <1>2 DEF InFatFs
  <2>2. CASE Enters(a)
    BY <2>1, <2>2 DEF AloneInv, Enters
  <2>3. CASE (InFatFs(a)' => InFatFs(a)) /\ shared' = shared
    BY <2>1, <2>3 DEF AloneInv
  <2> QED  BY <1>2, <2>2, <2>3
<1> QED  BY <1>1, <1>2, Entering

LEMMA StartStays == ControlOK /\ StartInv /\ [Next]_vars => StartInv'
<1> SUFFICES ASSUME ControlOK, StartInv, [Next]_vars PROVE StartInv'
  OBVIOUS
<1>t. pc \in [Actors -> PcValues]
  BY DEF ControlOK
<1> USE AreDistinct, <1>t DEF StartInv, Distinct, Actors
<1>1. ASSUME NEW w \in Writers, fatfs_write(w) PROVE StartInv'
  <2>1. UNCHANGED <<osOn, messages, mutex>> /\ w \in Callers /\ w # Idle
    BY <1>1, WritersAssumption DEF fatfs_write, Callers, Idle
  <2>2. \/ osOn /\ pc' = [pc EXCEPT ![w] = "take"]
        \/ pc' = [pc EXCEPT ![w] = "open"]
    BY <1>1 DEF fatfs_write
  <2> QED  BY <2>1, <2>2 DEF InFatFs
<1>2. CASE fatfs_close
  <2>1. pc[Idle] = "run" /\ MayRun(Idle) /\ UNCHANGED <<osOn, messages, mutex>>
    BY <1>2 DEF fatfs_close, msgVars
  <2>2. CASE osOn /\ pc' = [pc EXCEPT ![Idle] = "take"]
    BY <2>1, <2>2 DEF InFatFs
  <2>3. CASE ~osOn /\ pc' = [pc EXCEPT ![Idle] = "close"]
    <3>1. mutex = NoTask /\ Idle # NoTask
      BY <2>3 DEF Idle, NoTask
    <3>2. ~Ready(Log)
      BY <2>1, <3>1 DEF MayRun
    <3>3. pc[Log] = "absent"
      BY <2>3, <3>2 DEF Ready
    <3> QED  BY <2>1, <2>3, <3>3 DEF InFatFs
  <2> QED  BY <1>2, <2>2, <2>3 DEF fatfs_close
<1>3. ASSUME NEW a \in Callers, SendMessage(a) PROVE StartInv'
  <2>1. pc[a] \in {"take", "send", "give"} /\ osOn' = osOn
    BY <1>3 DEF SendMessage, TakeMutex, TakeTimeout, Send, SendTimeout, GiveMutex, msgVars
  <2>2. \E v \in {"send", "give", "run", "halted"} : pc' = [pc EXCEPT ![a] = v]
    BY <1>3 DEF SendMessage, TakeMutex, TakeTimeout, Send, SendTimeout, GiveMutex
  <2>3. pc'[Log] = pc[Log] /\ (InFatFs(Idle)' => InFatFs(Idle))
    BY <2>2 DEF InFatFs
  <2>4. ASSUME ~osOn
        PROVE  messages' = << >> /\ mutex' = NoTask /\ \A c \in Callers : pc'[c] \notin {"take", "send"}
    <3>1. GiveMutex(a)
      BY <1>3, <2>4 DEF SendMessage, TakeMutex, TakeTimeout, Send, SendTimeout
    <3> QED  BY <2>4, <3>1 DEF GiveMutex
  <2> QED  BY <2>1, <2>3, <2>4
<1>4. CASE StartTask
  BY <1>4 DEF StartTask, InFatFs
<1>5. CASE Receive
  BY <1>5 DEF Receive, InFatFs
<1>6. ASSUME NEW a \in Actors, Device(a) PROVE StartInv'
  <2>1. InFatFs(a) /\ UNCHANGED <<osOn, messages, mutex>>
    BY <1>6 DEF Device, OpenFile, WriteRecord, SyncFile, SetClosed, CloseFile, InFatFs, msgVars
  <2>2. \E v \in {"run", "write", "sync", "closing"} : pc' = [pc EXCEPT ![a] = v]
    BY <1>6 DEF Device, OpenFile, WriteRecord, SyncFile, SetClosed, CloseFile, Done
  <2>3. CASE a = Log
    <3>1. osOn /\ ~InFatFs(Idle)
      BY <2>1, <2>3 DEF InFatFs
    <3> QED  BY <2>1, <2>2, <2>3, <3>1 DEF InFatFs
  <2>4. CASE a # Log
    <3>1. pc'[Log] = pc[Log] /\ (InFatFs(Idle)' => InFatFs(Idle))
      BY <2>1, <2>2, <2>4 DEF InFatFs
    <3>2. \A c \in Callers : pc'[c] \in {"take", "send"} => pc[c] \in {"take", "send"}
      BY <2>2
    <3> QED  BY <2>1, <3>1, <3>2
  <2> QED  BY <2>3, <2>4
<1>7. CASE PowerCycle
  <2>1. PICK r \in Results : pc' = AtRest(r)
    BY <1>7 DEF PowerCycle
  <2>2. osOn' = FALSE /\ messages' = << >> /\ mutex' = NoTask
    BY <1>7 DEF PowerCycle
  <2> QED  BY <2>1, <2>2, AtRestTypes DEF InFatFs
<1>8. CASE UNCHANGED vars
  BY <1>8 DEF vars, msgVars, InFatFs
<1> QED  BY <1>1, <1>2, <1>3, <1>4, <1>5, <1>6, <1>7, <1>8 DEF Next

LEMMA Alone == Spec => [](AloneInv /\ StartInv)
<1>1. Init => AloneInv /\ StartInv
  <2> SUFFICES ASSUME Init PROVE AloneInv /\ StartInv
    OBVIOUS
  <2>1. PICK r \in Results : pc = AtRest(r)
    BY DEF Init
  <2>2. osOn = FALSE /\ messages = << >> /\ mutex = NoTask
    BY DEF Init
  <2>3. \A a \in Actors : ~InFatFs(a)
    BY <2>1, AtRestTypes DEF InFatFs
  <2> QED  BY <2>1, <2>2, <2>3, AreDistinct, AtRestTypes DEF AloneInv, StartInv, Distinct, Actors
<1>2. TypeOK /\ (AloneInv /\ StartInv) /\ [Next]_vars => (AloneInv /\ StartInv)'
  BY AloneStays, StartStays, DataParts DEF TypeOK
<1> QED  BY <1>1, <1>2, TypeCorrect, PTL DEF Spec

OneWriter == \E w : Writers = {w}

(* With one writer at a time, two actors are in FatFs at once only where   *)
(* there is no log task, or when the log task started while the writer was *)
(* there: then the idle task never comes to it by itself.                  *)
THEOREM OneAtATime == ASSUME OneWriter PROVE Spec => []OneInFatFs
<1>1. StartInv => OneInFatFs
  <2> SUFFICES ASSUME StartInv, NEW a \in Actors, NEW b \in Actors,
                      a # b, InFatFs(a), InFatFs(b), pc[Log] # "absent"
               PROVE  osOn /\ {a, b} \cap Writers # {}
    BY DEF OneInFatFs
  <2>1. a # Idle /\ b # Idle
    BY DEF StartInv
  <2>2. (a = Log /\ b \in Writers) \/ (b = Log /\ a \in Writers)
    BY <2>1 DEF OneWriter, Actors, Callers
  <2>3. pc[Log] # "created" /\ {a, b} \cap Writers # {}
    BY <2>2 DEF InFatFs
  <2> QED  BY <2>3 DEF StartInv
<1> QED  BY <1>1, Alone, PTL

(***************************************************************************)
(* The order of the file, until FatFs has been shared.  What is in the     *)
(* file is below the record in hand, that is below the records in the      *)
(* message buffer, which are in order, and all are below the next number.  *)
(***************************************************************************)

Increasing(s) == \A i, j \in DOMAIN s : i < j => s[i] < s[j]
Below(s, n)   == \A i \in DOMAIN s : s[i] < n

LEMMA IncreasingAppend ==
  ASSUME NEW s \in Seq(Nat), NEW x \in Nat, NEW y \in Nat, Increasing(s), Below(s, x), x < y
  PROVE  Increasing(Append(s, x)) /\ Below(Append(s, x), y)
BY DEF Increasing, Below

LEMMA IncreasingPrefix ==
  ASSUME NEW s \in Seq(Nat), NEW t \in Seq(Nat), NEW n \in Nat
  PROVE  /\ Increasing(s \o t) => Increasing(s)
         /\ Below(s \o t, n) => Below(s, n)
<1>1. \A i \in DOMAIN s : i \in DOMAIN (s \o t) /\ (s \o t)[i] = s[i]
  OBVIOUS
<1> QED  BY <1>1 DEF Increasing, Below

LEMMA BelowMonotone ==
  ASSUME NEW s \in Seq(Nat), NEW m \in Nat, NEW n \in Nat, Below(s, m), m <= n
  PROVE  Below(s, n)
BY DEF Below

LEMMA WithEmpty == ASSUME NEW s \in Seq(Nat) PROVE s \o << >> = s
OBVIOUS

InHand(a) == pc[a] \in {"open", "write"}

(* Number n comes after the file and the record in hand. *)
Behind(n) == Below(File, n) /\ \A a \in Actors : InHand(a) => cur[a] < n

Waiting == {k \in DOMAIN messages : messages[k] # Close}

OrderInv ==
  /\ Increasing(File) /\ Behind(next)
  /\ \A a \in Actors : InHand(a) => Below(File, cur[a])
  /\ \A k \in Waiting : messages[k] < next /\ Behind(messages[k])
  /\ \A k, l \in Waiting : k < l => messages[k] < messages[l]

LEMMA OrderStays ==
  DataOK /\ AloneInv /\ StartInv /\ OrderInv /\ ~shared' /\ [Next]_vars => OrderInv'
<1> SUFFICES ASSUME DataOK, AloneInv, StartInv, OrderInv, ~shared', [Next]_vars PROVE OrderInv'
  OBVIOUS
<1>t. /\ pc \in [Actors -> PcValues] /\ cur \in [Actors -> Nat] /\ next \in Nat
      /\ messages \in Seq(Nat) /\ disk \in Seq(Nat) /\ pending \in Seq(Nat)
      /\ File \in Seq(Nat)
  BY SeqTypes DEF DataOK, File, Records
<1>p. \A k \in DOMAIN messages : messages[k] \in Nat
  BY <1>t
(* Steps that leave the numbers where they are and take up no record. *)
<1>s. ASSUME UNCHANGED <<cur, messages, next, disk, pending>>,
             \A a \in Actors : InHand(a)' => InHand(a)
      PROVE  OrderInv'
  <2>1. File' = File
    BY <1>s DEF File
  <2> QED  BY <1>s, <2>1 DEF OrderInv, Behind, Waiting
<1>1. ASSUME NEW w \in Writers, fatfs_write(w) PROVE OrderInv'
  <2>0. w \in Actors
    BY DEF Actors, Callers
  <2>1. CASE osOn
    <3>1. UNCHANGED <<cur, messages, next, disk, pending>> /\ pc' = [pc EXCEPT ![w] = "take"]
      BY <1>1, <2>1 DEF fatfs_write, fileVars
    <3> QED  BY <3>1, <1>s, <1>t, <2>0 DEF InHand
  <2>2. CASE ~osOn
    <3>1. /\ UNCHANGED <<messages, disk, pending>> /\ next' = next + 1
          /\ pc' = [pc EXCEPT ![w] = "open"] /\ cur' = [cur EXCEPT ![w] = next]
      BY <1>1, <2>2 DEF fatfs_write, fileVars
    <3>2. messages = << >>
      BY <2>2 DEF StartInv
    <3>3. File' = File
      BY <3>1 DEF File
    <3>4. Below(File, next + 1)
      BY <1>t, BelowMonotone DEF OrderInv, Behind
    <3>5. \A a \in Actors \ {w} : (InHand(a)' <=> InHand(a)) /\ cur'[a] = cur[a]
      BY <3>1, <1>t DEF InHand
    <3>6. cur'[w] = next
      BY <3>1, <1>t, <2>0
    <3>7. \A a \in Actors : cur[a] \in Nat
      BY <1>t
    <3>8. Behind(next)'
      BY <1>t, <3>1, <3>3, <3>4, <3>5, <3>6, <3>7 DEF OrderInv, Behind
    <3>9. \A a \in Actors : InHand(a)' => Below(File, cur[a])'
      BY <3>3, <3>5, <3>6 DEF OrderInv, Behind
    <3>10. Waiting' = {}
      BY <3>1, <3>2 DEF Waiting
    <3> QED  BY <3>3, <3>8, <3>9, <3>10 DEF OrderInv
  <2> QED  BY <2>1, <2>2
<1>2. CASE fatfs_close
  <2>1. pc' = [pc EXCEPT ![Idle] = "take"] \/ pc' = [pc EXCEPT ![Idle] = "close"]
    BY <1>2 DEF fatfs_close
  <2>2. UNCHANGED <<cur, messages, next, disk, pending>>
    BY <1>2 DEF fatfs_close, msgVars, fileVars
  <2> QED  BY <2>1, <2>2, <1>s, <1>t DEF InHand, Actors, Callers
<1>3. ASSUME NEW a \in Callers, SendMessage(a) PROVE OrderInv'
  <2>0. a \in Actors
    BY DEF Actors
  <2>1. CASE Send(a)
    <3>1. UNCHANGED <<cur, disk, pending>> /\ pc' = [pc EXCEPT ![a] = "give"] /\ pc[a] = "send"
      BY <2>1 DEF Send, fileVars
    <3>2. PICK m \in {Close, next} : /\ messages' = Append(messages, m)
                                     /\ m = Close => next' = next
                                     /\ m = next /\ m # Close => next' = next + 1
      BY <2>1, <1>t DEF Send, DataOK, Records
    <3>3. \A b \in Actors : InHand(b)' => InHand(b)
      BY <3>1, <1>t, <2>0 DEF InHand
    <3>4. File' = File
      BY <3>1 DEF File
    <3>5. next' \in Nat /\ next <= next'
      BY <3>2, <1>t
    <3>6. ASSUME NEW n \in Nat, Behind(n) PROVE Behind(n)'
      BY <3>6, <3>1, <3>3, <3>4 DEF Behind
    <3>7. Behind(next)'
      BY <3>1, <3>3, <3>4, <3>5, <1>t, BelowMonotone DEF OrderInv, Behind
    <3>8. \A k \in Waiting' :
            \/ k \in Waiting /\ messages'[k] = messages[k] /\ k <= Len(messages)
            \/ k = Len(messages) + 1 /\ messages'[k] = next /\ m = next /\ m # Close
      <4>1. \A k \in DOMAIN messages' :
              \/ k \in DOMAIN messages /\ k <= Len(messages) /\ messages'[k] = messages[k]
              \/ k = Len(messages) + 1 /\ messages'[k] = m
        BY <3>2, <1>t DEF Close
      <4>2. \A k \in Waiting' : k \in DOMAIN messages' /\ messages'[k] # Close
        BY DEF Waiting
      <4>3. m # Close => m = next
        BY <3>2
      <4> SUFFICES ASSUME NEW k \in Waiting'
                   PROVE  \/ (k \in Waiting /\ messages'[k] = messages[k] /\ k <= Len(messages))
                          \/ (k = Len(messages) + 1 /\ messages'[k] = next /\ m = next /\ m # Close)
        OBVIOUS
      <4>4. k \in DOMAIN messages' /\ messages'[k] # Close
        BY <4>2
      <4>5. CASE k \in DOMAIN messages /\ k <= Len(messages) /\ messages'[k] = messages[k]
        BY <4>4, <4>5 DEF Waiting
      <4>6. CASE k = Len(messages) + 1 /\ messages'[k] = m
        BY <4>4, <4>6, <4>3
      <4> QED  BY <4>4, <4>5, <4>6, <4>1
    <3>9. ASSUME NEW k \in Waiting' PROVE messages'[k] < next' /\ Behind(messages[k])'
      <4>1. CASE k \in Waiting /\ messages'[k] = messages[k]
        <5>1. messages[k] \in Nat /\ messages[k] < next /\ Behind(messages[k])
          BY <4>1, <1>p DEF OrderInv, Waiting
        <5> QED  BY <4>1, <5>1, <3>1, <3>3, <3>4, <3>5, <1>t DEF Behind
      <4>2. CASE messages'[k] = next /\ m = next /\ m # Close
        <5>1. next' = next + 1
          BY <4>2, <3>2
        <5>2. Behind(messages[k])'
          BY <4>2, <3>1, <3>3, <3>4 DEF Behind, OrderInv
        <5> QED  BY <4>2, <5>1, <5>2, <1>t
      <4> QED  BY <3>8, <4>1, <4>2
    <3>10. ASSUME NEW k \in Waiting', NEW l \in Waiting', k < l PROVE messages'[k] < messages'[l]
      <4>1. k \in Waiting /\ messages'[k] = messages[k]
        <5>1. k \in Nat /\ l \in Nat /\ Len(messages) \in Nat
          BY <3>2, <1>t DEF Waiting
        <5>2. l <= Len(messages) + 1
          BY <5>1, <3>8
        <5>3. k # Len(messages) + 1
          BY <5>1, <5>2, <3>10
        <5> QED  BY <5>3, <3>8
      <4>2. CASE l \in Waiting /\ messages'[l] = messages[l]
        BY <3>10, <4>1, <4>2 DEF OrderInv
      <4>3. CASE messages'[l] = next
        BY <4>1, <4>3 DEF OrderInv
      <4> QED  BY <3>8, <4>2, <4>3
    <3>11. \A b \in Actors : InHand(b)' => Below(File, cur[b])'
      BY <3>1, <3>3, <3>4 DEF OrderInv
    <3> QED  BY <3>4, <3>7, <3>9, <3>10, <3>11 DEF OrderInv
  <2>2. CASE TakeMutex(a) \/ TakeTimeout(a) \/ SendTimeout(a) \/ GiveMutex(a)
    <3>1. UNCHANGED <<cur, messages, next, disk, pending>>
      BY <2>2 DEF TakeMutex, TakeTimeout, SendTimeout, GiveMutex, msgVars, fileVars
    <3>2. \E v \in {"send", "give", "run", "halted"} : pc' = [pc EXCEPT ![a] = v]
      BY <2>2 DEF TakeMutex, TakeTimeout, SendTimeout, GiveMutex
    <3> QED  BY <3>1, <3>2, <1>s, <1>t, <2>0 DEF InHand
  <2> QED  BY <1>3, <2>1, <2>2 DEF SendMessage
<1>4. CASE StartTask
  <2>1. UNCHANGED <<cur, messages, next, disk, pending>>
        /\ \E v \in {"run", "halted"} : pc' = [pc EXCEPT ![Log] = v]
    BY <1>4 DEF StartTask, fileVars
  <2> QED  BY <2>1, <1>s, <1>t DEF InHand, Actors
<1>5. CASE Receive
  <2> DEFINE m == Head(messages)
  <2>1. /\ messages # << >> /\ messages' = Tail(messages)
        /\ pc[Log] = "run" /\ UNCHANGED <<next, disk, pending>>
    BY <1>5 DEF Receive, fileVars
  <2>2. \/ m = Close /\ pc' = [pc EXCEPT ![Log] = "close"] /\ cur' = cur
        \/ m # Close /\ pc' = [pc EXCEPT ![Log] = "open"] /\ cur' = [cur EXCEPT ![Log] = m]
    BY <1>5 DEF Receive
  <2>3. \A a \in Actors : ~InHand(a)
    BY <2>1, <1>5 DEF Receive, Enters, InFatFs, InHand
  <2>4. Log \in Actors
    BY DEF Actors
  <2>5. \A a \in Actors : InHand(a)' => a = Log /\ m # Close /\ cur'[a] = m
    BY <2>2, <2>3, <2>4, <1>t DEF InHand
  <2>6. File' = File
    BY <2>1 DEF File
  <2>7. m # Close => 1 \in Waiting /\ messages[1] = m
    BY <2>1, <1>t DEF Waiting
  <2>8. \A k \in Waiting' : k + 1 \in Waiting /\ messages'[k] = messages[k + 1] /\ 1 < k + 1
    BY <2>1, <1>t DEF Waiting
  <2>9. \A k \in Waiting' : Behind(messages[k])'
    BY <2>5, <2>6, <2>7, <2>8 DEF OrderInv, Behind
  <2>10. Behind(next)'
    BY <2>1, <2>5, <2>6, <2>7 DEF OrderInv, Behind
  <2>11. \A a \in Actors : InHand(a)' => Below(File, cur[a])'
    BY <2>5, <2>6, <2>7 DEF OrderInv, Behind
  <2>12. \A k \in Waiting' : messages'[k] < next'
    BY <2>1, <2>8 DEF OrderInv
  <2>13. \A k, l \in Waiting' : k < l => messages'[k] < messages'[l]
    <3>1. \A k \in Waiting' : k \in Nat
      BY <2>1, <1>t DEF Waiting
    <3>2. ASSUME NEW k \in Waiting', NEW l \in Waiting', k < l PROVE messages'[k] < messages'[l]
      <4>1. k + 1 < l + 1
        BY <3>1, <3>2
      <4> QED  BY <4>1, <2>8 DEF OrderInv
    <3> QED  BY <3>2
  <2> QED  BY <2>6, <2>9, <2>10, <2>11, <2>12, <2>13 DEF OrderInv
<1>6. ASSUME NEW a \in Actors, Device(a) PROVE OrderInv'
  <2>0. InFatFs(a) /\ UNCHANGED <<messages, next>>
    BY <1>6 DEF Device, OpenFile, WriteRecord, SyncFile, SetClosed, CloseFile, InFatFs, msgVars
  <2>1. \A b \in Actors : InHand(b) => b = a
    <3>1. ~shared
      BY <1>6 DEF Device, OpenFile, WriteRecord, SyncFile, SetClosed, CloseFile, histVars
    <3> QED  BY <2>0, <3>1 DEF AloneInv, InHand, InFatFs
  <2>2. \E v \in PcValues : pc' = [pc EXCEPT ![a] = v]
    BY <1>6 DEF Device, OpenFile, WriteRecord, SyncFile, SetClosed, CloseFile, Done, PcValues
  <2>3. \A b \in Actors : b # a => ~InHand(b)'
    BY <2>1, <2>2, <1>t DEF InHand
  <2>4. CASE WriteRecord(a) /\ pending' = Append(pending, cur[a])
    <3>1. disk' = disk /\ pc[a] = "write" /\ cur[a] \in Nat /\ InHand(a)
      BY <2>4, <1>t DEF WriteRecord, InHand
    <3>2. File' = Append(File, cur[a])
      <4>1. disk \in Seq(Nat) /\ pending \in Seq(Nat)
        BY <1>t
      <4>2. disk \o Append(pending, cur[a]) = Append(disk \o pending, cur[a])
        BY <3>1, <4>1, AppendedIsIn
      <4> QED  BY <3>1, <2>4, <4>2 DEF File
    <3>3. Increasing(File') /\ \A y \in Nat : cur[a] < y => Below(File', y)
      BY <3>1, <3>2, <1>t, IncreasingAppend, IncreasingAppend DEF OrderInv, Behind
    <3>4. pc' = [pc EXCEPT ![a] = "sync"] \/ pc' = [pc EXCEPT ![a] = "run"]
      BY <2>4 DEF WriteRecord, Done
    <3>5. \A b \in Actors : ~InHand(b)'
      BY <2>3, <3>4, <1>t DEF InHand
    <3>6. \A y \in Nat : cur[a] < y => Behind(y)'
      BY <3>3, <3>5 DEF Behind
    <3>7. Behind(next)'
      BY <3>1, <3>6, <2>0, <1>t DEF OrderInv, Behind
    <3>8. Waiting' = Waiting
      BY <2>0 DEF Waiting
    <3>9. \A k \in Waiting : Behind(messages[k])'
      BY <3>1, <3>6, <2>0, <1>p DEF OrderInv, Behind, Waiting
    <3> QED  BY <3>3, <3>5, <3>7, <3>8, <3>9, <2>0 DEF OrderInv
  <2>5. CASE UNCHANGED <<disk, pending>> \/ Dropped \/ Counted
    <3>1. \/ File' = File
          \/ File' = disk
      BY <2>5, <1>t, WithEmpty, SeqTypes DEF Dropped, Counted, File
    <3>2. Increasing(File')
      BY <3>1, <1>t, IncreasingPrefix DEF OrderInv, File
    <3>3. \A n \in Nat : Below(File, n) => Below(File', n)
      BY <3>1, <1>t, IncreasingPrefix DEF File
    <3>4. \A b \in Actors : InHand(b)' => InHand(b) /\ cur'[b] = cur[b]
      <4>1. InHand(a)' => InHand(a) /\ cur' = cur
        BY <1>6, <1>t DEF Device, OpenFile, WriteRecord, SyncFile, SetClosed, CloseFile, Done, InHand
      <4> QED  BY <4>1, <2>3
    <3>5. \A n \in Nat : Behind(n) => Behind(n)'
      BY <3>3, <3>4 DEF Behind
    <3>6. Waiting' = Waiting
      BY <2>0 DEF Waiting
    <3>7. Behind(next)'
      BY <3>5, <2>0, <1>t DEF OrderInv
    <3>8. \A b \in Actors : InHand(b)' => Below(File, cur[b])'
      BY <3>3, <3>4, <1>t DEF OrderInv
    <3>9. \A k \in Waiting : Behind(messages[k])'
      BY <3>5, <2>0, <1>p DEF OrderInv, Waiting
    <3> QED  BY <3>2, <3>6, <3>7, <3>8, <3>9, <2>0 DEF OrderInv
  <2>6. UNCHANGED <<disk, pending>> \/ Dropped \/ Counted
        \/ (WriteRecord(a) /\ pending' = Append(pending, cur[a]))
    <3>1. CASE WriteRecord(a)
      BY <3>1 DEF WriteRecord
    <3>2. CASE OpenFile(a)
      BY <3>2 DEF OpenFile, fileVars, Dropped
    <3>3. CASE SyncFile(a) \/ CloseFile(a)
      BY <3>3 DEF SyncFile, CloseFile, Synced, Counted
    <3>4. CASE SetClosed(a)
      BY <3>4 DEF SetClosed, fileVars
    <3> QED  BY <1>6, <3>1, <3>2, <3>3, <3>4 DEF Device
  <2> QED  BY <2>4, <2>5, <2>6
<1>7. CASE PowerCycle
  <2>1. /\ messages' = << >> /\ disk' = disk /\ pending' = << >> /\ next' = next
        /\ \E r \in Results : pc' = AtRest(r)
    BY <1>7 DEF PowerCycle
  <2>2. File' = disk
    BY <2>1, <1>t, WithEmpty DEF File
  <2>3. \A a \in Actors : ~InHand(a)'
    BY <2>1, AtRestTypes DEF InHand
  <2>4. Waiting' = {}
    BY <2>1 DEF Waiting
  <2>5. Increasing(disk) /\ Below(disk, next)
    BY <1>t, IncreasingPrefix DEF OrderInv, Behind, File
  <2> QED  BY <2>1, <2>2, <2>3, <2>4, <2>5 DEF OrderInv, Behind
<1>8. CASE UNCHANGED vars
  BY <1>8, <1>s DEF vars, msgVars, fileVars, InHand
<1> QED  BY <1>1, <1>2, <1>3, <1>4, <1>5, <1>6, <1>7, <1>8 DEF Next

(* The file holds records in the order fatfs_write accepted them, each     *)
(* once, whatever closes, re-opens, full volumes and power failures        *)
(* happen, as long as no two actors have been in FatFs at once.            *)
THEOREM FileIsInOrder == Spec => []FileInOrder
<1>1. Init => OrderInv
  <2> SUFFICES ASSUME Init PROVE OrderInv
    OBVIOUS
  <2>1. File = << >> /\ messages = << >> /\ \E r \in Results : pc = AtRest(r)
    BY DEF Init, File
  <2>2. \A a \in Actors : ~InHand(a)
    BY <2>1, AtRestTypes DEF InHand
  <2> QED  BY <2>1, <2>2 DEF OrderInv, Behind, Waiting, Increasing, Below
<1>2. /\ shared \/ OrderInv
      /\ TypeOK /\ (AloneInv /\ StartInv) /\ [Next]_vars
      => (shared \/ OrderInv)'
  BY OrderStays, SharedStays, DataParts DEF TypeOK
<1>3. shared \/ OrderInv => FileInOrder
  BY DEF OrderInv, Increasing, FileInOrder, File
<1> QED  BY <1>1, <1>2, <1>3, TypeCorrect, Alone, PTL DEF Spec

(***************************************************************************)
(* w_times counts what f_sync has not seen, and until FatFs has been       *)
(* shared, one write past the limit is followed by the sync before         *)
(* anything else happens.                                                  *)
(***************************************************************************)

CountInv ==
  /\ wTimes > SyncMax => wTimes = SyncMax + 1 /\ \E a \in Actors : pc[a] = "sync"
  /\ failed \/ Len(pending) <= wTimes
  /\ f_file = "closed" => pending = << >>

LEMMA CountStays == DataOK /\ AloneInv /\ CountInv /\ ~shared' /\ [Next]_vars => CountInv'
<1> SUFFICES ASSUME DataOK, AloneInv, CountInv, ~shared', [Next]_vars PROVE CountInv'
  OBVIOUS
<1>t. /\ pc \in [Actors -> PcValues] /\ wTimes \in Nat /\ pending \in Seq(Nat) /\ SyncMax \in Nat
      /\ \A a \in Actors : cur[a] \in Nat
  BY CapacityAssumption DEF DataOK
(* Steps that leave the counts alone and end no sync. *)
<1>s. ASSUME UNCHANGED <<wTimes, pending, f_file>>, failed => failed',
             \A a \in Actors : pc[a] = "sync" => pc'[a] = "sync"
      PROVE  CountInv'
  BY <1>s DEF CountInv
<1>1. ASSUME NEW w \in Writers, fatfs_write(w) PROVE CountInv'
  <2>1. UNCHANGED <<wTimes, pending, f_file, failed>> /\ pc[w] = "run"
        /\ \E v \in PcValues : pc' = [pc EXCEPT ![w] = v]
    BY <1>1 DEF fatfs_write, logVars, fileVars, doneVars, PcValues
  <2> QED  BY <2>1, <1>s, <1>t
<1>2. CASE fatfs_close
  <2>1. UNCHANGED <<wTimes, pending, f_file, failed>> /\ pc[Idle] = "run"
        /\ \E v \in PcValues : pc' = [pc EXCEPT ![Idle] = v]
    BY <1>2 DEF fatfs_close, logVars, fileVars, doneVars, PcValues
  <2> QED  BY <2>1, <1>s, <1>t
<1>3. ASSUME NEW a \in Callers, SendMessage(a) PROVE CountInv'
  <2>1. UNCHANGED <<wTimes, pending, f_file, failed>>
    BY <1>3 DEF SendMessage, TakeMutex, TakeTimeout, Send, SendTimeout, GiveMutex,
                logVars, fileVars, histVars, doneVars
  <2>2. pc[a] # "sync" /\ \E v \in PcValues : pc' = [pc EXCEPT ![a] = v]
    BY <1>3 DEF SendMessage, TakeMutex, TakeTimeout, Send, SendTimeout, GiveMutex, PcValues
  <2> QED  BY <2>1, <2>2, <1>s, <1>t
<1>4. CASE StartTask \/ Receive
  <2>1. UNCHANGED <<wTimes, pending, f_file, failed>>
    BY <1>4 DEF StartTask, Receive, logVars, fileVars, histVars, doneVars
  <2>2. pc[Log] # "sync" /\ \E v \in PcValues : pc' = [pc EXCEPT ![Log] = v]
    BY <1>4 DEF StartTask, Receive, PcValues
  <2> QED  BY <2>1, <2>2, <1>s, <1>t
<1>5. ASSUME NEW a \in Actors, Device(a) PROVE CountInv'
  <2>1. CASE WriteRecord(a)
    <3>1. pc[a] = "write"
      BY <2>1 DEF WriteRecord
    <3>2. \A b \in Actors : pc[b] # "sync"
      <4>1. ~shared
        BY <2>1 DEF WriteRecord
      <4> QED  BY <3>1, <4>1 DEF AloneInv, InFatFs
    <3>3. wTimes <= SyncMax
      BY <3>2, <1>t DEF CountInv
    <3>4. CASE /\ pending' = Append(pending, cur[a]) /\ wTimes' = wTimes + 1 /\ failed' = failed
               /\ f_file # "closed" /\ f_file' = f_file
               /\ wTimes + 1 > SyncMax => pc' = [pc EXCEPT ![a] = "sync"]
      <4>1. failed' \/ Len(pending') <= wTimes'
        BY <3>4, <1>t DEF CountInv
      <4>2. wTimes' > SyncMax => wTimes' = SyncMax + 1 /\ pc'[a] = "sync"
        BY <3>3, <3>4, <1>t
      <4> QED  BY <3>4, <4>1, <4>2 DEF CountInv
    <3>5. CASE /\ pending' = pending /\ wTimes' = wTimes + 1 /\ failed' = failed
               /\ f_file' = f_file
               /\ wTimes + 1 > SyncMax => pc' = [pc EXCEPT ![a] = "sync"]
      <4>1. failed' \/ Len(pending') <= wTimes'
        BY <3>5, <1>t DEF CountInv
      <4>2. wTimes' > SyncMax => wTimes' = SyncMax + 1 /\ pc'[a] = "sync"
        BY <3>3, <3>5, <1>t
      <4>3. (f_file = "closed" => pending = << >>)'
        BY <3>5 DEF CountInv
      <4> QED  BY <4>1, <4>2, <4>3 DEF CountInv
    <3>6. CASE failed' /\ UNCHANGED <<wTimes, pending>> /\ (f_file' = "closed" => f_file = "closed")
      BY <3>3, <3>6, <1>t DEF CountInv
    <3> QED  BY <2>1, <3>4, <3>5, <3>6 DEF WriteRecord, NeedsSync
  <2>2. CASE SyncFile(a)
    <3>1. wTimes' = 0 /\ f_file' = f_file
      BY <2>2 DEF SyncFile
    <3>2. failed' \/ pending' = << >>
      BY <2>2 DEF SyncFile, Synced, CountInv
    <3>3. (f_file = "closed" => pending = << >>)'
      BY <2>2 DEF SyncFile, Synced, CountInv
    <3> QED  BY <3>1, <3>2, <3>3, <1>t DEF CountInv
  <2>3. CASE OpenFile(a) \/ SetClosed(a) \/ CloseFile(a)
    <3>1. wTimes' = wTimes /\ (failed => failed')
      BY <2>3 DEF OpenFile, SetClosed, CloseFile, Synced, logVars, histVars, doneVars
    <3>2. pending' = pending \/ pending' = << >>
      BY <2>3 DEF OpenFile, SetClosed, CloseFile, Synced, fileVars
    <3>3. pc[a] # "sync" /\ \E v \in PcValues : pc' = [pc EXCEPT ![a] = v]
      BY <2>3 DEF OpenFile, SetClosed, CloseFile, Done, PcValues
    <3>4. \A b \in Actors : pc[b] = "sync" => pc'[b] = "sync"
      BY <3>3, <1>t
    <3>5. Len(pending') <= Len(pending)
      BY <3>2, <1>t
    <3>6. failed' \/ Len(pending') <= wTimes'
      BY <3>1, <3>5, <1>t, <3>2 DEF CountInv
    <3>7. (f_file = "closed" => pending = << >>)'
      BY <2>3 DEF OpenFile, SetClosed, CloseFile, Synced, fileVars, CountInv
    <3> QED  BY <3>1, <3>4, <3>6, <3>7 DEF CountInv
  <2> QED  BY <1>5, <2>1, <2>2, <2>3 DEF Device
<1>6. CASE PowerCycle
  BY <1>6, <1>t DEF PowerCycle, CountInv
<1>7. CASE UNCHANGED vars
  BY <1>7, <1>s DEF vars, logVars, fileVars, histVars, doneVars
<1> QED  BY <1>1, <1>2, <1>3, <1>4, <1>5, <1>6, <1>7 DEF Next

(* A power failure costs at most FATFS_SYNC_MAX_TIMES records and the one  *)
(* in hand, unless FatFs failed or two actors were in it at once.          *)
THEOREM FewAreUnsynced == Spec => []UnsyncedBounded
<1>1. Init => CountInv
  BY CapacityAssumption DEF Init, CountInv
<1>2. /\ shared \/ CountInv
      /\ TypeOK /\ (AloneInv /\ StartInv) /\ [Next]_vars
      => (shared \/ CountInv)'
  BY CountStays, SharedStays, DataParts DEF TypeOK
<1>3. (shared \/ CountInv) /\ TypeOK => UnsyncedBounded
  <2> SUFFICES ASSUME CountInv, DataOK PROVE UnsyncedBounded
    BY DEF TypeOK, UnsyncedBounded
  <2>1. wTimes \in Nat /\ SyncMax \in Nat /\ Len(pending) \in Nat
    BY CapacityAssumption DEF DataOK
  <2>2. wTimes <= SyncMax + 1
    BY <2>1 DEF CountInv
  <2> QED  BY <2>1, <2>2 DEF CountInv, UnsyncedBounded
<1> QED  BY <1>1, <1>2, <1>3, TypeCorrect, Alone, PTL DEF Spec
=============================================================================
