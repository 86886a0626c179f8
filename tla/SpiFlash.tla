------------------------------- MODULE SpiFlash --------------------------------
(***************************************************************************)
(* The driver of the W25Q serial flash, Drivers/Src/drv_spi_w25q.c, with   *)
(* the polled transfers of Drivers/Src/drv_spi.c.                          *)
(*                                                                         *)
(* One action is one selection of the chip: a command from WQ25_CS_ON to   *)
(* WQ25_CS_OFF.  A call is the list of those it still has to make, "ops".  *)
(* A byte may fail (spi_rw_byte), and may have been clocked out before it  *)
(* did: the driver looks at the status of the first byte of a command      *)
(* only, and of no byte of WREN, RDSR and the identifier.  Without one of  *)
(* its other bytes a command goes on, so that the chip takes the bytes     *)
(* that follow in its place.  The chip (external) ignores all but RDSR     *)
(* while it is busy, a change of its memory without WREN, and an erase     *)
(* that is not of its exact length; it executes a page program however     *)
(* long when it is deselected.  A write stays within a page, as the        *)
(* callers must see to.  The chip is the W25Q256 of the board, which takes *)
(* 3 address bytes until it is told to take 4, and keeps to these over a   *)
(* restart of the MCU (a call of "init") that does not cut its power.      *)
(***************************************************************************)
EXTENDS Naturals, Sequences, FiniteSets

CONSTANTS
  SerialBlocks, PerBlock,   \* the blocks of the chip, and the sectors of each
  LowBlocks,                \* the blocks that three bytes of address reach
  SerialValues,             \* what callers write
  ShortTimeout,             \* W25X_WATI_TIMEOUT
  LongTimeout               \* W25X_WATI_LONG_TIMEOUT

Sectors == SerialBlocks \X (1 .. PerBlock)
NoData == "ff"                     \* erased
Contents == SerialValues \cup {NoData, "mixed"}

ASSUME FlashAssumption ==
  /\ ShortTimeout \in Nat /\ LongTimeout \in Nat /\ PerBlock \in Nat
  /\ LowBlocks \subseteq SerialBlocks /\ LowBlocks # {}

VARIABLES
  w25q_chip_id,   \* "none", "Q256", or "other" of the same manufacturer
  mem,            \* the contents of the sectors
  addr4,          \* the chip takes four bytes of address
  wel, busy,      \* the write enable latch and the busy bit of the chip
  call,           \* the call: its operation, sector and value
  ops,            \* what it has yet to do
  error_count,    \* of wq_wait_busy
  com,            \* the status of the first byte of the command was bad
  status,         \* what the call returned; "none" before
  buffer,         \* what wq_memory_read has read
  before,         \* history: the memory when the call was made
  wasBusy,        \* history: the chip was busy when the call was made
  lost            \* history: a byte nobody looks at failed in the call

chip == <<mem, addr4, wel, busy>>
flashVars == <<w25q_chip_id, chip, call, ops, error_count, com, status, buffer,
               before, wasBusy, lost>>

Calls == [op : {"sector", "block", "chip", "read", "init"}, sector : Sectors, value : {NoData}]
           \cup [op : {"write"}, sector : Sectors, value : SerialValues]

(* Mutant: the write enable is sent before the wait, as the erases do it.  *)
Program_WriteEnableFirst(c) ==
  CASE c.op = "init" -> <<"read_id", "enter4">>
    [] c.op = "read" -> <<"command">>
    [] c.op \in {"sector", "write"} -> <<"wren", "short", "command", "short">>
    [] c.op \in {"block", "chip"} -> <<"wren", "short", "command", "long">>

Program(c) == CASE c.op = "init" -> <<"read_id", "enter4">>
                [] c.op = "read" -> <<"command">>
                [] c.op = "sector" -> <<"wren", "short", "command", "short">>
                [] c.op \in {"block", "chip"} -> <<"wren", "short", "command", "long">>
                [] c.op = "write" -> <<"short", "wren", "command", "short">>

NoCall == ops = << >>
Due(op) == ~NoCall /\ Head(ops) = op
Advance == ops' = Tail(ops)
SameCall == UNCHANGED <<w25q_chip_id, call, before, wasBusy>>

(* The call looks at the identifier of the chip first.  wq_memory_write    *)
(* returns pdFAIL without it, and pdFAIL is WQ_OP_OK.                      *)
FlashCall(c) ==
  /\ NoCall
  /\ call' = c
  /\ before' = mem /\ wasBusy' = busy /\ lost' = FALSE
  /\ com' = FALSE /\ error_count' = 0 /\ buffer' = NoData
  /\ IF c.op = "init" \/ w25q_chip_id # "none"
       THEN ops' = Program(c) /\ status' = "none"
       ELSE /\ ops' = << >>
            /\ status' = IF c.op = "write" THEN "WQ_OP_OK" ELSE "WQ_OP_DEVICE_ERR"
  /\ UNCHANGED <<w25q_chip_id, chip>>

Return(s) == ops' = << >> /\ status' = s

(* wq25_driver_init.  A byte of the identifier that fails reads as 0xff,   *)
(* and so do both of a busy chip: without the low one the identifier is    *)
(* 0xefff, of the manufacturer but not the W25Q256's, and the driver goes  *)
(* on with three bytes of address.  wq25_read_test fills a local buffer.   *)
wq_read_chipid ==
  /\ Due("read_id")
  /\ \E id \in IF busy THEN {"none"} ELSE {"none", "Q256", "other"} :
       /\ w25q_chip_id' = id
       /\ IF id = "Q256" THEN Advance /\ UNCHANGED status
          ELSE Return(IF id = "none" THEN "WQ_OP_DEVICE_ERR" ELSE "WQ_OP_OK")
  /\ UNCHANGED <<chip, call, error_count, com, buffer, before, wasBusy, lost>>

(* Its result is dropped by wq25_driver_init. *)
wq_enter_4byte_addr ==
  /\ Due("enter4")
  /\ \E taken \in BOOLEAN : addr4' = (addr4 \/ (taken /\ ~busy))
  /\ Return("WQ_OP_OK")
  /\ SameCall /\ UNCHANGED <<mem, wel, busy, error_count, com, buffer, lost>>

wq_write_enable ==
  /\ Due("wren")
  /\ \E fails \in BOOLEAN : \E taken \in {~fails, TRUE} :
       /\ lost' = (lost \/ fails)
       /\ wel' = (wel \/ (taken /\ ~busy))
  /\ Advance
  /\ SameCall /\ UNCHANGED <<mem, addr4, busy, error_count, com, status, buffer>>

(* A read of the status register that fails gives 0xff, that is busy. *)
wq_wait_busy(mode, timeout) ==
  /\ Due(mode)
  /\ \/ /\ ~busy
        /\ error_count' = 0
        /\ IF Len(ops) > 1 THEN Advance /\ UNCHANGED status
           ELSE Return(IF com THEN "WQ_OP_COM_ERR" ELSE "WQ_OP_OK")
     \/ /\ error_count + 1 < timeout
        /\ error_count' = error_count + 1
        /\ UNCHANGED <<ops, status>>
     \/ /\ error_count + 1 >= timeout
        /\ error_count' = 0
        /\ Return("WQ_OP_TIMEOUT_ERR")
  /\ SameCall /\ UNCHANGED <<chip, com, buffer, lost>>

(* What a command leaves in the memory. *)
After(m, c) ==
  CASE c.op = "sector" -> [m EXCEPT ![c.sector] = NoData]
    [] c.op = "block"  -> [s \in Sectors |-> IF s[1] = c.sector[1] THEN NoData ELSE m[s]]
    [] c.op = "chip"   -> [s \in Sectors |-> NoData]
    [] c.op = "write"  -> [m EXCEPT ![c.sector] = IF @ = NoData THEN c.value ELSE "mixed"]

(* The driver sends as many bytes of address as the chip takes.            *)
Agreed == (w25q_chip_id = "Q256") = addr4

(* The sectors the chip can be made to act on, and those that the bytes of *)
(* the call's address name: three of them lose the upper half of the chip. *)
Reached == IF addr4 THEN Sectors ELSE {s \in Sectors : s[1] \in LowBlocks}
Named == {s \in Reached : s[2] = call.sector[2]
                           /\ (call.sector \in Reached => s = call.sector)}

(* The memories a command may leave: as it was meant, or with its bytes    *)
(* taken for others, which makes a page program mix some sector.           *)
Executed == {After(mem, [call EXCEPT !.sector = s]) : s \in Named}
Astray == IF call.op = "write" THEN {[mem EXCEPT ![s] = "mixed"] : s \in Reached}
          ELSE {After(mem, [call EXCEPT !.sector = s]) : s \in Reached}

(* Mutant: the erase of a sector sends the opcode of the block's. *)
Command_WrongOpcode ==
  /\ Due("command") /\ call.op # "read"
  /\ com' = FALSE
  /\ IF wel /\ ~busy
       THEN busy' = TRUE /\ mem' = After(mem, IF call.op = "write" THEN call ELSE [call EXCEPT !.op = "block"])
       ELSE UNCHANGED <<busy, mem>>
  /\ Advance
  /\ SameCall /\ UNCHANGED <<addr4, wel, error_count, status, buffer, lost>>

(* The erases and the page program.  Without its first byte nothing else   *)
(* of the command is sent, and the wait that follows is made all the same; *)
(* if that byte was clocked out after all, it is the whole of a chip erase.*)
(* An erase of four bytes of address that lost one is whole for a chip     *)
(* that takes three.                                                       *)
Command ==
  /\ Due("command") /\ call.op # "read"
  /\ \E bad \in IF call.op = "chip" THEN {"no", "first"} ELSE {"no", "first", "other"} :
       /\ com' = (bad = "first")
       /\ lost' = (lost \/ bad = "other")
       /\ \/ /\ bad # "no" \/ ~wel \/ busy \/ (~Agreed /\ call.op # "chip")
             /\ UNCHANGED <<busy, mem>>
          \/ /\ wel /\ ~busy
             /\ call.op = "chip" \/ (Agreed /\ bad # "first")
             /\ busy' = TRUE /\ mem' \in Executed
          \/ /\ wel /\ ~busy /\ bad # "first"
             /\ \/ call.op = "write" /\ (bad = "other" \/ ~Agreed)
                \/ call.op \in {"sector", "block"} /\ bad = "other" /\ ~Agreed /\ ~addr4
             /\ busy' = TRUE /\ mem' \in Astray
  /\ Advance
  /\ SameCall /\ UNCHANGED <<addr4, wel, error_count, status, buffer>>

(* wq_memory_read does not wait: a busy chip gives 0xff.  Bytes that are   *)
(* lost or of another length make it read whatever the chip holds.         *)
wq_memory_read ==
  /\ Due("command") /\ call.op = "read"
  /\ \E bad \in {"no", "first", "other"} :
       /\ com' = (bad = "first")
       /\ lost' = (lost \/ bad = "other")
       /\ buffer' \in IF bad = "first" \/ busy THEN {NoData}
                      ELSE IF bad = "no" /\ Agreed THEN {mem[s] : s \in Named}
                      ELSE Contents
       /\ Return(IF bad = "first" THEN "WQ_OP_COM_ERR" ELSE "WQ_OP_OK")
  /\ SameCall /\ UNCHANGED <<chip, error_count>>

(* The chip ends what it is doing, which clears the latch. *)
ChipEnds ==
  /\ busy
  /\ busy' = FALSE /\ wel' = FALSE
  /\ UNCHANGED <<w25q_chip_id, mem, addr4, call, ops, error_count, com, status,
                 buffer, before, wasBusy, lost>>

FlashInit ==
  /\ w25q_chip_id = "none"
  /\ mem \in [Sectors -> {NoData, "mixed"}]
  /\ addr4 = FALSE /\ wel = FALSE /\ busy = FALSE
  /\ call \in {c \in Calls : c.op = "init"} /\ ops = << >>
  /\ error_count = 0 /\ com = FALSE /\ status = "none" /\ buffer = NoData
  /\ before = mem /\ wasBusy = FALSE /\ lost = FALSE

FlashNext ==
  \/ \E c \in Calls : FlashCall(c)
  \/ wq_read_chipid \/ wq_enter_4byte_addr \/ wq_write_enable
  \/ wq_wait_busy("short", ShortTimeout) \/ wq_wait_busy("long", LongTimeout)
  \/ Command \/ wq_memory_read
  \/ ChipEnds

FlashSpec == FlashInit /\ [][FlashNext]_flashVars

-------------------------------------------------------------------------------
FlashTypeOK ==
  /\ w25q_chip_id \in {"none", "Q256", "other"} /\ addr4 \in BOOLEAN /\ wel \in BOOLEAN /\ busy \in BOOLEAN
  /\ mem \in [Sectors -> Contents] /\ before \in [Sectors -> Contents]
  /\ call \in Calls
  /\ ops \in Seq({"read_id", "enter4", "wren", "short", "long", "command"})
  /\ error_count \in Nat
  /\ com \in BOOLEAN /\ lost \in BOOLEAN /\ wasBusy \in BOOLEAN
  /\ status \in {"none", "WQ_OP_OK", "WQ_OP_DEVICE_ERR", "WQ_OP_TIMEOUT_ERR", "WQ_OP_COM_ERR"}
  /\ buffer \in Contents

(* The address of the call means to the chip what it means to the driver.  *)
Reaches == call.op = "chip" \/ (Agreed /\ call.sector \in Reached)

(* A call that returns WQ_OP_OK on a recognised chip has done what it is   *)
(* for, and left the chip ready and protected, unless a byte whose status  *)
(* is dropped has failed in it, the driver and the chip disagree on the    *)
(* length of an address (the identifier was half read, or the command that *)
(* sets the length failed), or the chip was still busy with a call that    *)
(* had timed out: an erase then sends WREN to a chip that ignores it and a *)
(* read reads nothing, while a write, which waits first, is still done.    *)
OkIsDone ==
  NoCall /\ status = "WQ_OP_OK" /\ w25q_chip_id # "none" /\ Reaches /\ ~lost =>
    /\ call.op = "write" \/ (call.op \in {"sector", "block", "chip"} /\ ~wasBusy)
         => mem = After(before, call)
    /\ call.op = "read" /\ ~wasBusy => buffer = mem[call.sector]
    /\ call.op \in {"write", "sector", "block", "chip"} => ~busy /\ ~wel

(* Where a call may change the memory.  Whatever it returns, one whose     *)
(* address reaches the chip has changed what it names or nothing - a page  *)
(* program only if it lost no byte.  Whatever its bytes became, a page     *)
(* program has changed at most one sector, an erase has only erased, and a *)
(* read nothing.  An error of the device means that nothing has changed,   *)
(* and so does one of the bus, save for the erase of the chip, whose only  *)
(* byte may have been sent although it is reported as failed.              *)
NothingElse ==
  /\ Reaches /\ (call.op = "write" => ~lost) =>
       mem = before \/ (call.op \notin {"init", "read"} /\ mem = After(before, call))
  /\ call.op = "write" =>
       \A s, t \in Sectors : mem[s] # before[s] /\ mem[t] # before[t] => s = t
  /\ call.op \in {"sector", "block", "chip"} =>
       \A s \in Sectors : mem[s] \in {before[s], NoData}
  /\ call.op \in {"init", "read"} => mem = before
  /\ NoCall /\ status = "WQ_OP_DEVICE_ERR" => mem = before
  /\ NoCall /\ status = "WQ_OP_COM_ERR" => mem = before \/ call.op = "chip"
===============================================================================
