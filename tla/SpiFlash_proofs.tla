---------------------------- MODULE SpiFlash_proofs ----------------------------
(***************************************************************************)
(* OkIsDone and NothingElse of SpiFlash, for every size of the chip and    *)
(* every timeout: what the chip, its memory and the history of the call    *)
(* are at each command the call has yet to send.                           *)
(***************************************************************************)
EXTENDS SpiFlash, TLAPS

Erases == {"sector", "block", "chip"}
Changes == Erases \cup {"write"}

(* What a call may still have to do: an end of its program.                *)
Remains(c) ==
  CASE c.op = "init" -> {<<"read_id", "enter4">>, <<"enter4">>, << >>}
    [] c.op = "read" -> {<<"command">>, << >>}
    [] c.op = "sector" ->
         {<<"wren", "short", "command", "short">>, <<"short", "command", "short">>,
          <<"command", "short">>, <<"short">>, << >>}
    [] c.op \in {"block", "chip"} ->
         {<<"wren", "short", "command", "long">>, <<"short", "command", "long">>,
          <<"command", "long">>, <<"long">>, << >>}
    [] c.op = "write" ->
         {<<"short", "wren", "command", "short">>, <<"wren", "command", "short">>,
          <<"command", "short">>, <<"short">>, << >>}

ProgramInv ==
  /\ ops \in Remains(call)
  /\ ~NoCall => status = "none"

(* Before its command a call has changed nothing, and a command whose      *)
(* first byte failed has not either, unless that byte is all of it.        *)
MemoryInv ==
  /\ call.op \notin Changes \/ Len(ops) > 1 \/ (com /\ call.op # "chip") => mem = before
  /\ NothingElse

(* What the wait and the WREN before the command have made of the chip: an *)
(* erase sends its WREN first, to a chip that ignores it while busy.       *)
ReadyInv ==
  /\ call.op = "write" /\ Len(ops) \in {2, 3} => ~busy
  /\ call.op = "write" /\ Len(ops) = 2 /\ ~lost => wel
  /\ call.op \in Erases /\ Len(ops) = 2 => ~busy
  /\ call.op \in Erases /\ Len(ops) \in {2, 3, 4} /\ ~wasBusy => ~busy
  /\ call.op \in Erases /\ Len(ops) \in {2, 3} /\ ~wasBusy /\ ~lost => wel
  /\ call.op = "read" /\ Len(ops) = 1 /\ ~wasBusy => ~busy

(* What the command has made of it, for the wait that follows.             *)
SentInv ==
  call.op \in Changes /\ Len(ops) = 1 /\ ~com /\ ~lost /\ Reaches =>
    /\ busy \/ ~wel
    /\ call.op = "write" \/ ~wasBusy => mem = After(before, call)

FlashInv == FlashTypeOK /\ ProgramInv /\ MemoryInv /\ ReadyInv /\ SentInv /\ OkIsDone

-------------------------------------------------------------------------------
(* The operations a call may be of.                                        *)
LEMMA CallFields ==
  ASSUME NEW c \in Calls
  PROVE  /\ c.op \in Changes \cup {"init", "read"} /\ c.sector \in Sectors
         /\ c.value \in Contents
         /\ c.op = "write" => c.value \in SerialValues
BY DEF Calls, Changes, Erases, Contents

(* A command leaves contents of sectors in the memory.                     *)
LEMMA AfterIsMemory ==
  ASSUME NEW m \in [Sectors -> Contents], NEW c \in Calls, c.op \in Changes
  PROVE  After(m, c) \in [Sectors -> Contents]
<1>1. c.sector \in Sectors /\ c.value \in Contents /\ NoData \in Contents /\ "mixed" \in Contents
  BY CallFields DEF Contents
<1>2. CASE c.op = "sector"
  BY <1>1, <1>2 DEF After
<1>3. CASE c.op = "block"
  BY <1>1, <1>3 DEF After
<1>4. CASE c.op = "chip"
  BY <1>1, <1>4 DEF After
<1>5. CASE c.op = "write"
  BY <1>1, <1>5 DEF After
<1> QED
  BY <1>2, <1>3, <1>4, <1>5 DEF Changes, Erases

(* The part of NothingElse that holds of a call whatever its bytes became. *)
OnlyThere(m, c) ==
  /\ c.op = "write" => \A s, t \in Sectors : m[s] # before[s] /\ m[t] # before[t] => s = t
  /\ c.op \in Erases => \A s \in Sectors : m[s] \in {before[s], NoData}

(* A call for another sector is a call of the same operation.              *)
LEMMA MovedCall ==
  ASSUME NEW c \in Calls, NEW s \in Sectors
  PROVE  /\ [c EXCEPT !.sector = s] \in Calls
         /\ [c EXCEPT !.sector = s].op = c.op /\ [c EXCEPT !.sector = s].sector = s
         /\ [c EXCEPT !.sector = s].value = c.value
BY DEF Calls

(* A call for its own sector is the call.                                  *)
LEMMA SameSector ==
  ASSUME NEW c \in Calls
  PROVE  [c EXCEPT !.sector = c.sector] = c
BY DEF Calls

(* What a command makes of a memory that the call has not changed stays    *)
(* where the call may change it.                                           *)
LEMMA AfterIsThere ==
  ASSUME NEW c \in Calls, c.op \in Changes, before \in [Sectors -> Contents]
  PROVE  OnlyThere(After(before, c), c)
<1>1. c.sector \in Sectors
  BY CallFields
<1>2. CASE c.op = "sector"
  BY <1>1, <1>2 DEF After, OnlyThere, Erases
<1>3. CASE c.op = "block"
  BY <1>1, <1>3 DEF After, OnlyThere, Erases
<1>4. CASE c.op = "chip"
  BY <1>1, <1>4 DEF After, OnlyThere, Erases
<1>5. CASE c.op = "write"
  BY <1>1, <1>5 DEF After, OnlyThere, Erases
<1> QED
  BY <1>2, <1>3, <1>4, <1>5 DEF Changes, Erases

(* A command that was executed, as it was meant or with its bytes taken    *)
(* for others.                                                             *)
LEMMA CommandMemory ==
  ASSUME FlashTypeOK, call.op \in Changes, mem = before, NEW m \in Executed \cup Astray
  PROVE  /\ m \in [Sectors -> Contents] /\ OnlyThere(m, call)
         /\ Reaches /\ m \in Executed => m = After(before, call)
<1>1. call \in Calls /\ mem \in [Sectors -> Contents]
  BY DEF FlashTypeOK
<1>2. ASSUME NEW s \in Sectors, m = After(mem, [call EXCEPT !.sector = s])
      PROVE  m \in [Sectors -> Contents] /\ OnlyThere(m, call)
  <2> DEFINE c == [call EXCEPT !.sector = s]
  <2>1. c \in Calls /\ c.op = call.op
    BY <1>1, MovedCall
  <2> HIDE DEF c
  <2>2. m = After(before, c)
    BY <1>2 DEF c
  <2>3. m \in [Sectors -> Contents] /\ OnlyThere(m, c)
    BY <1>1, <2>1, <2>2, AfterIsMemory, AfterIsThere
  <2> QED
    BY <2>1, <2>3 DEF OnlyThere
<1>3. ASSUME NEW s \in Sectors, m = [mem EXCEPT ![s] = "mixed"], call.op = "write"
      PROVE  m \in [Sectors -> Contents] /\ OnlyThere(m, call)
  BY <1>1, <1>3 DEF OnlyThere, Contents, Erases
<1>4. m \in [Sectors -> Contents] /\ OnlyThere(m, call)
  <2>1. Reached \subseteq Sectors /\ Named \subseteq Sectors
    BY DEF Reached, Named
  <2> QED
    BY <1>2, <1>3, <2>1 DEF Executed, Astray
<1>5. ASSUME Reaches, m \in Executed PROVE m = After(before, call)
  <2>1. PICK s \in Named : m = After(mem, [call EXCEPT !.sector = s])
    BY <1>5 DEF Executed
  <2>2. s \in Sectors
    BY DEF Reached, Named
  <2>3. CASE call.op = "chip"
    <3>1. [call EXCEPT !.sector = s].op = "chip"
      BY <1>1, <2>2, <2>3, MovedCall
    <3> QED
      BY <2>1, <2>3, <3>1 DEF After
  <2>4. CASE call.op # "chip"
    <3>1. s = call.sector
      BY <1>5, <2>4 DEF Reaches, Named
    <3>2. [call EXCEPT !.sector = s] = call
      BY <1>1, <3>1, SameSector
    <3> QED
      BY <2>1, <3>2
  <2> QED
    BY <2>3, <2>4
<1> QED
  BY <1>4, <1>5

(* What an address reaches is decided by the initialisation and the call.  *)
LEMMA ReachesKept ==
  ASSUME UNCHANGED <<w25q_chip_id, addr4, call>>
  PROVE  Reaches' = Reaches
BY DEF Reaches, Agreed, Reached

(* Where a call is, by what it does next.                                  *)
LEMMA Places ==
  ASSUME FlashTypeOK, ProgramInv
  PROVE  /\ Due("read_id") => call.op = "init" /\ ops = <<"read_id", "enter4">>
         /\ Due("enter4") => call.op = "init" /\ ops = <<"enter4">>
         /\ Due("wren") =>
              \/ call.op = "write" /\ ops = <<"wren", "command", "short">>
              \/ call.op = "sector" /\ ops = <<"wren", "short", "command", "short">>
              \/ call.op \in {"block", "chip"} /\ ops = <<"wren", "short", "command", "long">>
         /\ Due("command") =>
              \/ call.op = "read" /\ ops = <<"command">>
              \/ call.op \in {"write", "sector"} /\ ops = <<"command", "short">>
              \/ call.op \in {"block", "chip"} /\ ops = <<"command", "long">>
         /\ Due("short") \/ Due("long") =>
              \/ call.op \in Changes /\ Len(ops) = 1
              \/ call.op = "write" /\ ops = <<"short", "wren", "command", "short">>
              \/ call.op = "sector" /\ ops = <<"short", "command", "short">>
              \/ call.op \in {"block", "chip"} /\ ops = <<"short", "command", "long">>
<1>1. call.op \in Changes \cup {"init", "read"}
  BY CallFields DEF FlashTypeOK
<1>2. CASE call.op = "init"
  BY <1>2 DEF ProgramInv, Remains, Due, NoCall
<1>3. CASE call.op = "read"
  BY <1>3 DEF ProgramInv, Remains, Due, NoCall
<1>4. CASE call.op = "sector"
  BY <1>4 DEF ProgramInv, Remains, Due, NoCall, Changes, Erases
<1>5. CASE call.op \in {"block", "chip"}
  BY <1>5 DEF ProgramInv, Remains, Due, NoCall, Changes, Erases
<1>6. CASE call.op = "write"
  BY <1>6 DEF ProgramInv, Remains, Due, NoCall, Changes, Erases
<1> QED
  BY <1>1, <1>2, <1>3, <1>4, <1>5, <1>6 DEF Changes, Erases

(* Short tuples are sequences.                                             *)
LEMMA Tuples ==
  ASSUME NEW S
  PROVE  /\ << >> \in Seq(S) /\ \A a \in S : <<a>> \in Seq(S)
         /\ \A a, b \in S : <<a, b>> \in Seq(S)
         /\ \A a, b, c \in S : <<a, b, c>> \in Seq(S)
         /\ \A a, b, c, d \in S : <<a, b, c, d>> \in Seq(S)
OBVIOUS

(* An end of a program is a sequence of operations.                        *)
LEMMA RemainsAreOps ==
  ASSUME NEW c \in Calls
  PROVE  /\ Program(c) \in Remains(c) /\ Program(c) # << >> /\ << >> \in Remains(c)
         /\ Remains(c) \subseteq Seq({"read_id", "enter4", "wren", "short", "long", "command"})
<1> DEFINE S == {"read_id", "enter4", "wren", "short", "long", "command"}
<1>1. c.op \in {"init", "read", "sector", "block", "chip", "write"}
  BY CallFields DEF Changes, Erases
<1>2. Program(c) \in Remains(c) /\ Program(c) # << >> /\ << >> \in Remains(c)
  BY <1>1 DEF Remains, Program
<1>a. /\ "read_id" \in S /\ "enter4" \in S /\ "wren" \in S /\ "short" \in S
      /\ "long" \in S /\ "command" \in S
  OBVIOUS
<1> HIDE DEF S
<1>3. ASSUME NEW p \in Remains(c)
      PROVE  p \in Seq(S)
  <2>1. CASE c.op = "init"
    <3>1. \/ p = <<"read_id", "enter4">>
          \/ p = <<"enter4">>
          \/ p = << >>
      BY <1>3, <2>1 DEF Remains
    <3> QED
      BY <1>a, <3>1, Tuples
  <2>2. CASE c.op = "read"
    <3>1. p = <<"command">> \/ p = << >>
      BY <1>3, <2>2 DEF Remains
    <3> QED
      BY <1>a, <3>1, Tuples
  <2>3. CASE c.op = "sector"
    <3>1. \/ p = <<"wren", "short", "command", "short">>
          \/ p = <<"short", "command", "short">>
          \/ p = <<"command", "short">>
          \/ p = <<"short">>
          \/ p = << >>
      BY <1>3, <2>3 DEF Remains
    <3> QED
      BY <1>a, <3>1, Tuples
  <2>4. CASE c.op \in {"block", "chip"}
    <3>1. \/ p = <<"wren", "short", "command", "long">>
          \/ p = <<"short", "command", "long">>
          \/ p = <<"command", "long">>
          \/ p = <<"long">>
          \/ p = << >>
      BY <1>3, <2>4 DEF Remains
    <3> QED
      BY <1>a, <3>1, Tuples
  <2>5. CASE c.op = "write"
    <3>1. \/ p = <<"short", "wren", "command", "short">>
          \/ p = <<"wren", "command", "short">>
          \/ p = <<"command", "short">>
          \/ p = <<"short">>
          \/ p = << >>
      BY <1>3, <2>5 DEF Remains
    <3> QED
      BY <1>a, <3>1, Tuples
  <2> QED
    BY <1>1, <2>1, <2>2, <2>3, <2>4, <2>5
<1> QED
  BY <1>2, <1>3 DEF S

(* What a program has left after an operation.                             *)
LEMMA TailOfTwo ==
  ASSUME NEW s, NEW a, NEW b, s = <<a, b>>
  PROVE  Tail(s) = <<b>>
<1>1. Tail(s) = Tail(<<a, b>>)
  BY Zenon
<1> QED
  BY <1>1

LEMMA TailOfThree ==
  ASSUME NEW s, NEW a, NEW b, NEW c, s = <<a, b, c>>
  PROVE  Tail(s) = <<b, c>>
<1>1. Tail(s) = Tail(<<a, b, c>>)
  BY Zenon
<1> QED
  BY <1>1

LEMMA TailOfFour ==
  ASSUME NEW s, NEW a, NEW b, NEW c, NEW d, s = <<a, b, c, d>>
  PROVE  Tail(s) = <<b, c, d>>
<1>1. Tail(s) = Tail(<<a, b, c, d>>)
  BY Zenon
<1> QED
  BY <1>1

-------------------------------------------------------------------------------
(***************************************************************************)
(* The steps, one after the other.                                         *)
(***************************************************************************)

(* A call that starts has its whole program to do and nothing changed.     *)
LEMMA CallKeeps ==
  ASSUME FlashInv, NEW c \in Calls, FlashCall(c)
  PROVE  FlashInv'
<1> USE DEF FlashInv
<1>1. FlashTypeOK'
  <2>1. ops' \in Seq({"read_id", "enter4", "wren", "short", "long", "command"})
    BY RemainsAreOps DEF FlashCall
  <2>2. call' \in Calls /\ com' = FALSE /\ lost' = FALSE /\ error_count' = 0
        /\ buffer' \in Contents /\ wasBusy' \in BOOLEAN /\ before' \in [Sectors -> Contents]
    BY DEF FlashCall, Contents, FlashTypeOK
  <2>3. status' \in {"none", "WQ_OP_OK", "WQ_OP_DEVICE_ERR"} /\ UNCHANGED <<w25q_chip_id, chip>>
    BY DEF FlashCall
  <2> QED
    BY <2>1, <2>2, <2>3 DEF FlashTypeOK, chip
<1>2. ProgramInv'
  BY RemainsAreOps DEF FlashCall, ProgramInv, NoCall
<1>3. MemoryInv'
  <2>1. mem' = before' /\ call' \in Calls
    BY DEF FlashCall, chip
  <2>2. call'.op \in {"write", "sector", "block", "chip", "init", "read"}
    BY <2>1, CallFields DEF Changes, Erases
  <2> QED
    BY <2>1, <2>2 DEF MemoryInv, NothingElse
<1>4. /\ UNCHANGED <<wel, busy>> /\ call' = c /\ wasBusy' = busy
      /\ ops' = << >> \/ ops' = Program(c)
  BY DEF FlashCall, chip
<1>5. /\ c.op \in Changes => Len(ops') = 0 \/ Len(ops') = 4
      /\ c.op = "read" => Len(ops') = 0 \/ Len(ops') = 1
  <2>1. /\ c.op \in Changes => Len(Program(c)) = 4
        /\ c.op = "read" => Len(Program(c)) = 1
    BY DEF Program, Changes, Erases
  <2> QED
    BY <1>4, <2>1
<1>6. ReadyInv' /\ SentInv'
  BY <1>4, <1>5 DEF ReadyInv, SentInv, Changes, Erases
<1>7. OkIsDone'
  BY RemainsAreOps DEF FlashCall, OkIsDone, NoCall
<1> QED
  BY <1>1, <1>2, <1>3, <1>6, <1>7

(* The initialisation touches neither the memory nor the latch.            *)
LEMMA InitialisationKeeps ==
  ASSUME FlashInv, wq_read_chipid \/ wq_enter_4byte_addr
  PROVE  FlashInv'
<1> USE DEF FlashInv
<1>1. call.op = "init" /\ ops \in {<<"read_id", "enter4">>, <<"enter4">>}
  BY Places DEF wq_read_chipid, wq_enter_4byte_addr
<1>2. UNCHANGED <<call, mem, before, wel, busy, com, lost, wasBusy>>
  BY DEF wq_read_chipid, wq_enter_4byte_addr, chip, SameCall
<1>3. ops' \in {<<"enter4">>, << >>} /\ (ops' # << >> => status' = status)
  <2>1. (ops' = Tail(ops) /\ status' = status) \/ ops' = << >>
    BY DEF wq_read_chipid, wq_enter_4byte_addr, Advance, Return
  <2>2. ops = <<"enter4">> => ops' = << >>
    BY DEF wq_read_chipid, wq_enter_4byte_addr, Return, Due, NoCall
  <2> QED
    BY <1>1, <2>1, <2>2, TailOfTwo
<1>4. ProgramInv'
  BY <1>1, <1>2, <1>3 DEF ProgramInv, Remains, NoCall
<1>5. FlashTypeOK'
  <2>1. ops' \in Seq({"read_id", "enter4", "wren", "short", "long", "command"})
    BY <1>2, <1>4, RemainsAreOps DEF ProgramInv, FlashTypeOK
  <2>2. w25q_chip_id' \in {"none", "Q256", "other"} /\ addr4' \in BOOLEAN
    BY DEF wq_read_chipid, wq_enter_4byte_addr, FlashTypeOK, SameCall, chip
  <2>3. status' \in {status, "WQ_OP_OK", "WQ_OP_DEVICE_ERR"} /\ UNCHANGED <<error_count, buffer>>
    BY DEF wq_read_chipid, wq_enter_4byte_addr, Return
  <2> QED
    BY <1>2, <2>1, <2>2, <2>3 DEF FlashTypeOK
<1>6. mem = before
  BY <1>1 DEF MemoryInv, Changes, Erases
<1> QED
  BY <1>1, <1>2, <1>4, <1>5, <1>6
  DEF MemoryInv, NothingElse, ReadyInv, SentInv, OkIsDone, Changes, Erases

(* The latch is set unless the chip is busy or the byte fails.             *)
LEMMA EnableKeeps ==
  ASSUME FlashInv, wq_write_enable
  PROVE  FlashInv'
<1> USE DEF FlashInv
<1>1. \/ call.op = "write" /\ ops = <<"wren", "command", "short">>
      \/ call.op = "sector" /\ ops = <<"wren", "short", "command", "short">>
      \/ call.op \in {"block", "chip"} /\ ops = <<"wren", "short", "command", "long">>
  BY Places DEF wq_write_enable
<1>2. UNCHANGED <<w25q_chip_id, call, mem, addr4, before, busy, com, wasBusy, status,
                  error_count, buffer>>
  BY DEF wq_write_enable, SameCall
<1>3. /\ call.op = "write" => ops' = <<"command", "short">>
      /\ call.op = "sector" => ops' = <<"short", "command", "short">>
      /\ call.op \in {"block", "chip"} => ops' = <<"short", "command", "long">>
  <2>1. ops' = Tail(ops)
    BY DEF wq_write_enable, Advance
  <2> QED
    BY <1>1, <2>1, TailOfThree, TailOfFour
<1>4. wel' \in BOOLEAN /\ lost' \in BOOLEAN /\ (~lost' => ~lost) /\ (~lost' /\ ~busy => wel')
  BY Zenon DEF wq_write_enable, FlashTypeOK
<1>5. ProgramInv'
  BY <1>1, <1>2, <1>3 DEF ProgramInv, Remains, NoCall
<1>6. FlashTypeOK'
  <2>1. ops' \in Seq({"read_id", "enter4", "wren", "short", "long", "command"})
    BY <1>2, <1>5, RemainsAreOps DEF ProgramInv, FlashTypeOK
  <2> QED
    BY <1>2, <1>4, <2>1 DEF FlashTypeOK
<1>7. MemoryInv' /\ OkIsDone'
  <2>1. mem = before
    BY <1>1 DEF MemoryInv
  <2> QED
    BY <1>1, <1>2, <1>3, <2>1, ReachesKept DEF MemoryInv, NothingElse, OkIsDone, NoCall
<1>8. ReadyInv' /\ SentInv'
  BY <1>1, <1>2, <1>3, <1>4 DEF ReadyInv, SentInv, Erases
<1> QED
  BY <1>5, <1>6, <1>7, <1>8

(* A wait that is over goes on to the command or ends the call; one that   *)
(* times out ends it, before the command with nothing changed.             *)
LEMMA WaitKeeps ==
  ASSUME FlashInv, NEW mode \in {"short", "long"}, NEW timeout, wq_wait_busy(mode, timeout)
  PROVE  FlashInv'
<1> USE DEF FlashInv
<1>1. \/ call.op \in Changes /\ Len(ops) = 1
      \/ call.op = "write" /\ ops = <<"short", "wren", "command", "short">>
      \/ call.op = "sector" /\ ops = <<"short", "command", "short">>
      \/ call.op \in {"block", "chip"} /\ ops = <<"short", "command", "long">>
  BY Places DEF wq_wait_busy
<1>2. UNCHANGED <<w25q_chip_id, call, mem, addr4, wel, busy, before, wasBusy, com, lost, buffer>>
  BY DEF wq_wait_busy, SameCall, chip
<1>3. status = "none" /\ call.op \in Changes /\ error_count' \in Nat
  BY <1>1 DEF wq_wait_busy, ProgramInv, Due, Changes, Erases, FlashTypeOK
<1>4. /\ Len(ops) \in Nat
      /\ \/ Len(ops) = 1
         \/ Len(ops) = 4 /\ call.op = "write"
         \/ Len(ops) = 3 /\ call.op \in Erases
  BY <1>1 DEF FlashTypeOK, Erases
<1>5. ASSUME ops' = << >>, status' \in {"WQ_OP_OK", "WQ_OP_COM_ERR", "WQ_OP_TIMEOUT_ERR"}
      PROVE  FlashTypeOK' /\ ProgramInv' /\ ReadyInv' /\ SentInv'
  <2>1. ProgramInv'
    BY <1>2, <1>5, RemainsAreOps DEF ProgramInv, NoCall, FlashTypeOK
  <2> QED
    BY <1>2, <1>3, <1>5, <2>1 DEF FlashTypeOK, ReadyInv, SentInv, Changes, Erases
<1>6. ASSUME ~busy, Len(ops) > 1, Advance, UNCHANGED status PROVE FlashInv'
  <2>1. ~(Len(ops) = 1) /\ Len(ops) > 1
    <3> DEFINE l == Len(ops)
    <3>1. l > 1 /\ l \in {1, 3, 4}
      BY <1>4, <1>6
    <3> HIDE DEF l
    <3>2. ~(l = 1)
      BY <3>1
    <3> QED
      BY <3>1, <3>2 DEF l
  <2>2. \/ call.op = "write" /\ ops' = <<"wren", "command", "short">>
        \/ call.op = "sector" /\ ops' = <<"command", "short">>
        \/ call.op \in {"block", "chip"} /\ ops' = <<"command", "long">>
    <3>1. ops' = Tail(ops)
      BY <1>6 DEF Advance
    <3> QED
      BY <1>1, <2>1, <3>1, TailOfThree, TailOfFour
  <2>3. ProgramInv'
    BY <1>2, <1>3, <1>6, <2>2 DEF ProgramInv, Remains, NoCall
  <2>4. FlashTypeOK'
    <3>1. ops' \in Seq({"read_id", "enter4", "wren", "short", "long", "command"})
      BY <1>2, <2>3, RemainsAreOps DEF ProgramInv, FlashTypeOK
    <3> QED
      BY <1>2, <1>3, <1>6, <3>1 DEF FlashTypeOK
  <2>5. MemoryInv' /\ OkIsDone'
    <3>1. mem = before
      BY <2>1 DEF MemoryInv
    <3> QED
      BY <1>2, <1>3, <1>6, <2>2, <3>1 DEF MemoryInv, NothingElse, OkIsDone, NoCall
  <2>6. /\ call.op = "write" => Len(ops') = 3
        /\ call.op \in Erases => Len(ops) = 3 /\ Len(ops') = 2
    BY <1>4, <2>1, <2>2 DEF Erases
  <2>7. ReadyInv' /\ SentInv'
    <3>1. ~busy /\ ~busy'
      BY <1>2, <1>6
    <3>2. call.op # "read" /\ ~(Len(ops') = 1)
      BY <1>3, <2>6 DEF Changes, Erases
    <3>3. call.op \in Erases /\ ~wasBusy /\ ~lost => wel
      BY <2>6 DEF ReadyInv
    <3>4. call.op = "write" => ~(Len(ops') = 2)
      BY <2>6
    <3> QED
      BY <1>2, <3>1, <3>2, <3>3, <3>4 DEF ReadyInv, SentInv
  <2> QED
    BY <2>3, <2>4, <2>5, <2>7
<1>7. ASSUME ~busy, ~(Len(ops) > 1), ops' = << >>,
             status' = IF com THEN "WQ_OP_COM_ERR" ELSE "WQ_OP_OK"
      PROVE  FlashInv'
  <2>1. Len(ops) = 1
    <3> DEFINE l == Len(ops)
    <3>1. ~(l > 1) /\ l \in {1, 3, 4}
      BY <1>4, <1>7
    <3> HIDE DEF l
    <3>2. l = 1
      BY <3>1
    <3> QED
      BY <3>2 DEF l
  <2>2. MemoryInv'
    BY <1>2, <1>3, <1>7, ReachesKept DEF MemoryInv, NothingElse
  <2>3. OkIsDone'
    BY <1>2, <1>3, <1>7, <2>1, ReachesKept DEF OkIsDone, SentInv, Changes, Erases
  <2> QED
    BY <1>5, <1>7, <2>2, <2>3
<1>8. CASE UNCHANGED <<ops, status>>
  BY <1>2, <1>3, <1>8, ReachesKept DEF FlashTypeOK, ProgramInv, NoCall, MemoryInv, NothingElse, ReadyInv,
                          SentInv, OkIsDone
<1>9. CASE ops' = << >> /\ status' = "WQ_OP_TIMEOUT_ERR"
  <2>1. MemoryInv' /\ OkIsDone'
    BY <1>2, <1>3, <1>9, ReachesKept DEF MemoryInv, NothingElse, OkIsDone
  <2> QED
    BY <1>5, <1>9, <2>1
<1> QED
  BY <1>6, <1>7, <1>8, <1>9 DEF wq_wait_busy, Return

(* What a command may do to a memory that the call has not changed.        *)
LEMMA CommandKeeps ==
  ASSUME FlashInv, Command
  PROVE  FlashInv'
<1> USE DEF FlashInv
<1>1. /\ call.op \in Changes
      /\ \/ call.op \in {"write", "sector"} /\ ops = <<"command", "short">>
         \/ call.op \in {"block", "chip"} /\ ops = <<"command", "long">>
  BY Places DEF Command, Changes, Erases
<1>2. /\ UNCHANGED <<w25q_chip_id, call, addr4, wel, before, wasBusy, error_count, status, buffer>>
      /\ status = "none" /\ mem = before /\ ~busy
  <2>1. UNCHANGED <<w25q_chip_id, call, addr4, wel, before, wasBusy, error_count, status, buffer>>
    BY DEF Command, SameCall
  <2>2. Len(ops) = 2 /\ ~NoCall
    BY <1>1 DEF NoCall
  <2> QED
    BY <1>1, <2>1, <2>2 DEF ProgramInv, MemoryInv, ReadyInv, Changes
<1>3. ops' = IF call.op \in {"write", "sector"} THEN <<"short">> ELSE <<"long">>
  <2>1. ops' = Tail(ops)
    BY DEF Command, Advance
  <2> QED
    BY <1>1, <2>1, TailOfTwo
<1>4. PICK bad \in {"no", "first", "other"} :
        /\ call.op = "chip" => bad # "other"
        /\ com' = (bad = "first")
        /\ lost' = (lost \/ bad = "other")
        /\ \/ /\ bad # "no" \/ ~wel \/ busy \/ (~Agreed /\ call.op # "chip")
              /\ UNCHANGED <<busy, mem>>
           \/ /\ wel /\ ~busy
              /\ call.op = "chip" \/ (Agreed /\ bad # "first")
              /\ busy' = TRUE /\ mem' \in Executed
           \/ /\ wel /\ ~busy /\ bad # "first"
              /\ \/ call.op = "write" /\ (bad = "other" \/ ~Agreed)
                 \/ call.op \in {"sector", "block"} /\ bad = "other" /\ ~Agreed /\ ~addr4
              /\ busy' = TRUE /\ mem' \in Astray
  BY DEF Command
<1>5. /\ com' \in BOOLEAN /\ lost' \in BOOLEAN /\ (~lost' => ~lost)
      /\ ~com' /\ ~lost' => bad = "no"
      /\ com' => bad = "first"
      /\ bad = "other" => lost'
  BY <1>4, Zenon DEF FlashTypeOK
<1>6. \/ busy' = busy /\ mem' = before
      \/ busy' = TRUE /\ mem' \in Executed
      \/ /\ busy' = TRUE /\ mem' \in Astray /\ bad # "first" /\ call.op # "chip"
         /\ (call.op = "write" /\ bad = "other") \/ ~Agreed
  BY <1>2, <1>4
<1>7. /\ bad = "first" /\ call.op # "chip" => mem' = before
      /\ bad = "no" /\ wel /\ Reaches => busy' = TRUE /\ mem' \in Executed
  <2>1. ASSUME bad = "first", call.op # "chip" PROVE mem' = before
    BY <1>2, <1>4, <2>1
  <2>2. ASSUME bad = "no", wel, Reaches PROVE busy' = TRUE /\ mem' \in Executed
    BY <1>1, <1>2, <1>4, <2>2 DEF Reaches
  <2> QED
    BY <2>1, <2>2
<1>8. /\ mem' \in [Sectors -> Contents] /\ OnlyThere(mem', call)
      /\ Reaches /\ mem' \in Executed => mem' = After(before, call)
  <2>1. CASE mem' = before
    <3>1. OnlyThere(before, call) /\ before \in [Sectors -> Contents]
      BY DEF OnlyThere, FlashTypeOK
    <3>2. mem' \in Executed /\ Reaches => mem' = After(before, call)
      BY <1>1, <1>2, CommandMemory
    <3> QED
      BY <2>1, <3>1, <3>2
  <2>2. CASE mem' \in Executed \cup Astray
    BY <1>1, <1>2, <2>2, CommandMemory
  <2> QED
    BY <1>6, <2>1, <2>2
<1>9. ProgramInv'
  BY <1>1, <1>2, <1>3 DEF ProgramInv, Remains, NoCall, Changes, Erases
<1>10. FlashTypeOK'
  <2>1. busy' \in BOOLEAN
    BY <1>6 DEF FlashTypeOK
  <2>2. ops' \in Seq({"read_id", "enter4", "wren", "short", "long", "command"})
    BY <1>2, <1>9, RemainsAreOps DEF ProgramInv, FlashTypeOK
  <2> QED
    BY <1>2, <1>5, <1>8, <2>1, <2>2 DEF FlashTypeOK
<1>11. Len(ops') = 1 /\ ops' # << >>
  BY <1>3
<1>12. Reaches' = Reaches /\ OnlyThere(mem, call)' = OnlyThere(mem', call)
  BY <1>2, ReachesKept DEF OnlyThere
<1>13. MemoryInv'
  <2>1. ASSUME Reaches, call.op = "write" => ~lost'
        PROVE  mem' = before \/ mem' = After(before, call)
    <3>1. ~(mem' \in Astray /\ bad # "first" /\ call.op # "chip"
            /\ ((call.op = "write" /\ bad = "other") \/ ~Agreed))
      BY <1>5, <2>1 DEF Reaches
    <3> QED
      BY <1>6, <1>8, <2>1, <3>1
  <2>2. NothingElse'
    <3>1. After(before', call') = After(before, call) /\ ~NoCall'
      BY <1>2, <1>11 DEF After, NoCall
    <3>2. OnlyThere(mem, call)'
      BY <1>8, <1>12
    <3>3. (Reaches /\ (call.op = "write" => ~lost) =>
             mem = before \/ (call.op \notin {"init", "read"} /\ mem = After(before, call)))'
      BY <1>1, <1>2, <1>12, <2>1, <3>1 DEF Changes, Erases
    <3> QED
      BY <1>1, <1>2, <3>1, <3>2, <3>3 DEF NothingElse, OnlyThere, Changes, Erases
  <2> QED
    BY <1>1, <1>2, <1>5, <1>7, <1>11, <2>2 DEF MemoryInv
<1>14. ReadyInv' /\ OkIsDone'
  BY <1>1, <1>2, <1>11 DEF ReadyInv, OkIsDone, NoCall, Changes, Erases
<1>15. SentInv'
  <2>1. Len(ops) = 2
    BY <1>1
  <2>2. ~lost' /\ (call.op = "write" \/ ~wasBusy) => wel
    BY <1>1, <1>5, <2>1 DEF ReadyInv, Changes
  <2>3. ASSUME ~com', ~lost', Reaches PROVE busy' \/ ~wel
    BY <1>5, <1>7, <2>3
  <2>4. ASSUME ~com', ~lost', Reaches, call.op = "write" \/ ~wasBusy
        PROVE  mem' = After(before, call)
    BY <1>5, <1>7, <1>8, <2>2, <2>4
  <2> QED
    BY <1>2, <1>12, <2>3, <2>4 DEF SentInv
<1> QED
  BY <1>9, <1>10, <1>13, <1>14, <1>15

(* A read changes nothing and reads its sector of a chip that is ready.    *)
LEMMA ReadKeeps ==
  ASSUME FlashInv, wq_memory_read
  PROVE  FlashInv'
<1> USE DEF FlashInv
<1>1. call.op = "read" /\ ops = <<"command">>
  BY Places DEF wq_memory_read
<1>2. UNCHANGED <<w25q_chip_id, call, mem, addr4, wel, busy, before, wasBusy, error_count>>
  BY DEF wq_memory_read, SameCall, chip
<1>3. PICK bad \in {"no", "first", "other"} :
        /\ com' = (bad = "first")
        /\ lost' = (lost \/ bad = "other")
        /\ buffer' \in IF bad = "first" \/ busy THEN {NoData}
                       ELSE IF bad = "no" /\ Agreed THEN {mem[s] : s \in Named}
                       ELSE Contents
        /\ ops' = << >> /\ status' = IF bad = "first" THEN "WQ_OP_COM_ERR" ELSE "WQ_OP_OK"
  BY DEF wq_memory_read, Return
<1>4. com' \in BOOLEAN /\ lost' \in BOOLEAN /\ (~lost' => bad # "other")
  BY <1>3, Zenon DEF FlashTypeOK
<1>5. mem = before
  BY <1>1 DEF MemoryInv, Changes, Erases
<1>6. ProgramInv'
  BY <1>2, <1>3, RemainsAreOps DEF ProgramInv, NoCall, FlashTypeOK
<1>7. FlashTypeOK'
  <2>1. buffer' \in Contents
    BY <1>3 DEF FlashTypeOK, Contents, Named, Reached
  <2>2. status' \in {"WQ_OP_OK", "WQ_OP_COM_ERR"} /\ ops' = << >>
    BY <1>3
  <2> QED
    BY <1>2, <1>4, <2>1, <2>2 DEF FlashTypeOK
<1>8. MemoryInv' /\ ReadyInv' /\ SentInv'
  BY <1>1, <1>2, <1>3, <1>5 DEF MemoryInv, NothingElse, ReadyInv, SentInv, Changes, Erases
<1>9. OkIsDone'
  <2>1. ASSUME status' = "WQ_OP_OK", ~lost', Reaches, ~wasBusy PROVE buffer' = mem[call.sector]
    <3>1. bad = "no"
      BY <1>3, <1>4, <2>1
    <3>2. ~busy
      BY <1>1, <2>1 DEF ReadyInv
    <3>3. Agreed /\ call.sector \in Reached
      BY <1>1, <2>1 DEF Reaches
    <3>4. buffer' \in {mem[s] : s \in Named}
      BY <1>3, <3>1, <3>2, <3>3
    <3> QED
      BY <3>3, <3>4 DEF Named
  <2>2. Reaches' = Reaches
    BY <1>2, ReachesKept
  <2> QED
    BY <1>1, <1>2, <2>1, <2>2 DEF OkIsDone
<1> QED
  BY <1>6, <1>7, <1>8, <1>9

(* A chip that ends what it is doing has the latch cleared: no wait nor    *)
(* WREN of a call that is under way is undone by it, for the chip was not  *)
(* busy then.                                                              *)
LEMMA ChipKeeps ==
  ASSUME FlashInv, ChipEnds
  PROVE  FlashInv'
<1> USE DEF FlashInv
<1>1. /\ busy /\ busy' = FALSE /\ wel' = FALSE
      /\ UNCHANGED <<w25q_chip_id, mem, addr4, call, ops, error_count, com, status,
                     buffer, before, wasBusy, lost>>
  BY DEF ChipEnds
<1>2. FlashTypeOK' /\ ProgramInv'
  BY <1>1 DEF FlashTypeOK, ProgramInv, NoCall
<1>5. MemoryInv'
  BY <1>1, ReachesKept DEF NoCall, MemoryInv, NothingElse
<1>3. ReadyInv' /\ SentInv'
  BY <1>1, ReachesKept DEF ReadyInv, SentInv
<1>4. OkIsDone'
  BY <1>1, ReachesKept DEF OkIsDone, NoCall
<1> QED
  BY <1>2, <1>3, <1>4, <1>5

-------------------------------------------------------------------------------
(* The chip starts idle and unlocked by nobody.                            *)
LEMMA FlashInvInit == FlashInit => FlashInv
<1> SUFFICES ASSUME FlashInit PROVE FlashInv
  OBVIOUS
<1>1. call \in Calls /\ call.op = "init" /\ ops = << >> /\ mem = before
  BY DEF FlashInit
<1>2. FlashTypeOK
  <2>1. mem \in [Sectors -> Contents] /\ NoData \in Contents
    BY DEF FlashInit, Contents
  <2>2. ops \in Seq({"read_id", "enter4", "wren", "short", "long", "command"})
    BY <1>1
  <2> QED
    BY <1>1, <2>1, <2>2 DEF FlashInit, FlashTypeOK
<1>3. ProgramInv
  BY <1>1, RemainsAreOps DEF ProgramInv, NoCall
<1> QED
  BY <1>1, <1>2, <1>3
  DEF FlashInit, FlashInv, MemoryInv, NothingElse, ReadyInv, SentInv, OkIsDone, Changes, Erases

(* No step of the driver or of the chip breaks the invariant.              *)
LEMMA FlashInvNext ==
  ASSUME FlashInv, [FlashNext]_flashVars
  PROVE  FlashInv'
<1>1. CASE UNCHANGED flashVars
  BY <1>1, ReachesKept DEF flashVars, chip, FlashInv, FlashTypeOK, ProgramInv, NoCall, MemoryInv,
              NothingElse, ReadyInv, SentInv, OkIsDone
<1> QED
  BY <1>1, CallKeeps, InitialisationKeeps, EnableKeeps, WaitKeeps, CommandKeeps, ReadKeeps,
     ChipKeeps DEF FlashNext

(* So it always holds.                                                     *)
LEMMA FlashAlways == FlashSpec => []FlashInv
<1>1. FlashInv /\ [FlashNext]_flashVars => FlashInv'
  BY FlashInvNext
<1> QED
  BY FlashInvInit, <1>1, PTL DEF FlashSpec

(* wq_memory_write, the erases and wq_memory_read keep the driver's state  *)
(* and the chip's in their ranges, for every size of the chip.             *)
THEOREM FlashTypeCorrect == FlashSpec => []FlashTypeOK
<1>1. FlashInv => FlashTypeOK
  BY DEF FlashInv
<1> QED
  BY <1>1, FlashAlways, PTL

(* A call of wq_memory_write, of an erase or of wq_memory_read that        *)
(* returns WQ_OP_OK has done what it is for, whatever timed out before it, *)
(* unless a byte that nobody looks at failed in it, the driver sends the   *)
(* chip addresses of another length than it takes or three bytes for a     *)
(* block they do not reach, or the chip was busy when an erase or a read   *)
(* began.                                                                  *)
THEOREM OkMeansDone == FlashSpec => []OkIsDone
<1>1. FlashInv => OkIsDone
  BY DEF FlashInv
<1> QED
  BY <1>1, FlashAlways, PTL

(* Whatever bytes fail in whatever call: one whose address reaches the     *)
(* chip leaves the memory as it was or as the call was to make it, but for *)
(* a page program that lost a byte; no page program changes two sectors,   *)
(* no erase does anything but erase, no read changes anything; and after   *)
(* an error of the device, or one of the bus save in the erase of the      *)
(* chip, the memory is as it was.                                          *)
THEOREM NothingElseChanges == FlashSpec => []NothingElse
<1>1. FlashInv => NothingElse
  BY DEF FlashInv, MemoryInv
<1> QED
  BY <1>1, FlashAlways, PTL
===============================================================================
