------------------------------ MODULE FlashStore ------------------------------
(***************************************************************************)
(* The two-page parameter store of Drivers/Src/drv_flash.c.  A page is a   *)
(* header word and BlockNum blocks; a write appends a block to the valid   *)
(* page, and moves to the other page when the valid one is full.  Power    *)
(* may fail between any two device operations; the flash keeps its state.  *)
(*                                                                         *)
(* A block is what its `valid' word and its CRC make of it: Erased, Torn   *)
(* (flagged BLOCK_VALID, the rest not yet written: `valid' is the first    *)
(* word of BlockHeader_t and is written first, the CRC last), Other        *)
(* (neither flag) or a whole value.  The CRC is taken to find every torn   *)
(* block.                                                                  *)
(***************************************************************************)
EXTENDS Integers

CONSTANTS
  Values,          \* the parameter blocks that may be stored
  BlockNum,        \* block_num: blocks in a page after its header
  Erased, Torn, Other, NoValue,
  ErasePrefixes    \* how many blocks an interrupted erase may have cleared
                   \* after the header; {}: the device erases all or nothing

Marks == {Erased, Torn, Other, NoValue}

ASSUME BlockNumAssumption == BlockNum \in Nat \ {0}
ASSUME MarksAssumption ==
  /\ Values \cap Marks = {}
  /\ Erased # Torn /\ Erased # Other /\ Erased # NoValue
  /\ Torn # Other /\ Torn # NoValue /\ Other # NoValue
ASSUME ErasePrefixesAssumption == ErasePrefixes \subseteq 0 .. BlockNum

Pages  == {0, 1}
NoPage == 2
Blocks == 1 .. BlockNum

VARIABLES
  header,     \* PageHeader_t.valid of each page: PAGE_ERASED, PAGE_VALID or other
  block,      \* the blocks of each page
  pc,         \* where flash_write or flash_set_empty is; "idle" outside them
  op,         \* its local variables: the value, the block and page it goes to,
              \* the full page to erase at the end, whether to erase both
  last,       \* history: the value of the last write that returned SUCCESS
  maybe,      \* history: values of the writes cut short since then
  phase       \* history: "settled", "writing" from there, "cut" short once,
              \* then "recovering" until a write succeeds

flash == <<header, block>>
vars  == <<header, block, pc, op, last, maybe, phase>>

NoOp == [val |-> NoValue, page |-> 0, blk |-> 1, old |-> NoPage, both |-> FALSE]

(* A blank device: its memory reads as PAGE_ERASED, or as something else   *)
(* (PAGE_ERASED is 0, an erased STM32 sector is 0xFF).                     *)
Init ==
  /\ header \in [Pages -> {"erased", "other"}]
  /\ block = [p \in Pages |-> [i \in Blocks |->
                IF header[p] = "erased" THEN Erased ELSE Other]]
  /\ pc = "idle"
  /\ op = NoOp
  /\ last = NoValue
  /\ maybe = {}
  /\ phase = "settled"

-------------------------------------------------------------------------------
(***************************************************************************)
(* flash_find_block and flash_read.                                        *)
(***************************************************************************)

BothValid == header[0] = "valid" /\ header[1] = "valid"
NoneValid == header[0] # "valid" /\ header[1] # "valid"

(* The page flash_find_block works on when exactly one is valid. *)
PageInUse == IF header[0] = "valid" THEN 0 ELSE 1

(* FLASH_OP_ACTION_WRITE looks for the first of these ... *)
ErasedBlocks(p) == {i \in Blocks : block[p][i] = Erased}

(* ... and FLASH_OP_ACTION_READ for the last of these. *)
FlaggedBlocks(p) == {i \in Blocks : block[p][i] \in Values \cup {Torn}}

(* Mutants: the two searches run in the other direction. *)
FirstOf_Downwards(S) == CHOOSE i \in S : \A j \in S : j <= i
LastOf_Upwards(S)    == CHOOSE i \in S : \A j \in S : i <= j

FirstOf(S) == CHOOSE i \in S : \A j \in S : i <= j
LastOf(S)  == CHOOSE i \in S : \A j \in S : j <= i

(* flash_read: NoValue stands for every error it may return. *)
flash_read ==
  IF BothValid \/ NoneValid \/ FlaggedBlocks(PageInUse) = {} THEN NoValue
  ELSE LET found == block[PageInUse][LastOf(FlaggedBlocks(PageInUse))]
       IN IF found = Torn THEN NoValue ELSE found

-------------------------------------------------------------------------------
(***************************************************************************)
(* flash_write and flash_set_empty, one action per device operation.       *)
(***************************************************************************)

(* Mutant: the search for an erased block looks one block too far. *)
flash_write_OneTooFar(v) ==
  /\ pc = "idle"
  /\ phase' = IF phase = "settled" THEN "writing" ELSE "recovering"
  /\ LET call == [NoOp EXCEPT !.val = v]
         free == ErasedBlocks(PageInUse)
     IN \/ /\ BothValid \/ NoneValid
           /\ op' = [call EXCEPT !.both = TRUE]
           /\ pc' = "erase0"
        \/ /\ ~BothValid /\ ~NoneValid
           /\ op' = [call EXCEPT !.page = PageInUse,
                                 !.blk  = IF free # {} THEN FirstOf(free) ELSE BlockNum + 1]
           /\ pc' = "begin"
  /\ UNCHANGED <<flash, last, maybe>>

(* Mutant: a full page is erased before the other page is written. *)
flash_write_EraseFirst(v) ==
  /\ pc = "idle"
  /\ phase' = IF phase = "settled" THEN "writing" ELSE "recovering"
  /\ LET call == [NoOp EXCEPT !.val = v]
     IN \/ /\ BothValid \/ NoneValid \/ ErasedBlocks(PageInUse) = {}
           /\ op' = [call EXCEPT !.both = TRUE]
           /\ pc' = "erase0"
        \/ /\ ~BothValid /\ ~NoneValid /\ ErasedBlocks(PageInUse) # {}
           /\ op' = [call EXCEPT !.page = PageInUse,
                                 !.blk  = FirstOf(ErasedBlocks(PageInUse))]
           /\ pc' = "begin"
  /\ UNCHANGED <<flash, last, maybe>>

(* flash_write up to its first device operation.                           *)
(* FLASH_SEARCH_PAGE_EMPTY and FLASH_SEARCH_PAGE_MULTI_INVALID start over  *)
(* on page 0, FLASH_SEARCH_OK appends, FLASH_SEARCH_BLOCK_WRITE_FULL_x     *)
(* moves to the other page.                                                *)
flash_write(v) ==
  /\ pc = "idle"
  /\ phase' = IF phase = "settled" THEN "writing" ELSE "recovering"
  /\ LET call == [NoOp EXCEPT !.val = v]
     IN \/ /\ BothValid \/ NoneValid
           /\ op' = [call EXCEPT !.both = TRUE]
           /\ pc' = "erase0"
        \/ /\ ~BothValid /\ ~NoneValid /\ ErasedBlocks(PageInUse) # {}
           /\ op' = [call EXCEPT !.page = PageInUse,
                                 !.blk  = FirstOf(ErasedBlocks(PageInUse))]
           /\ pc' = "begin"
        \/ /\ ~BothValid /\ ~NoneValid /\ ErasedBlocks(PageInUse) = {}
           /\ op' = [call EXCEPT !.page = 1 - PageInUse, !.old = PageInUse]
           /\ pc' = IF PageInUse = 0 THEN "erase1" ELSE "erase0"
  /\ UNCHANGED <<flash, last, maybe>>

(* Mutant: only the header is cleared. *)
flash_empty_device_HeaderOnly(p) ==
  header' = [header EXCEPT ![p] = "erased"] /\ UNCHANGED block

(* flash_empty_device of one page. *)
flash_empty_device(p) ==
  /\ header' = [header EXCEPT ![p] = "erased"]
  /\ block' = [block EXCEPT ![p] = [i \in Blocks |-> Erased]]

(* `if(... ->valid != PAGE_ERASED) flash_empty_device(...)'. *)
EraseUnlessErased(p) ==
  IF header[p] # "erased" THEN flash_empty_device(p) ELSE UNCHANGED flash

ErasePage0 ==
  /\ pc = "erase0"
  /\ EraseUnlessErased(0)
  /\ pc' = IF op.both THEN "erase1" ELSE "header"
  /\ UNCHANGED <<op, last, maybe, phase>>

ErasePage1 ==
  /\ pc = "erase1"
  /\ EraseUnlessErased(1)
  /\ pc' = "header"
  /\ UNCHANGED <<op, last, maybe, phase>>

(* "write header": the page becomes valid, and the block goes first in it. *)
WriteHeader ==
  /\ pc = "header"
  /\ header' = [header EXCEPT ![op.page] = "valid"]
  /\ pc' = "begin"
  /\ UNCHANGED <<block, op, last, maybe, phase>>

(* flash_write_device writes the words of the block upwards: its flag ...  *)
WriteFlag ==
  /\ pc = "begin"
  /\ block' = [block EXCEPT ![op.page] = [block[op.page] EXCEPT ![op.blk] = Torn]]
  /\ pc' = "end"
  /\ UNCHANGED <<header, op, last, maybe, phase>>

(* flash_write returns FLASH_OP_SUCCESS. *)
Settle(v) ==
  /\ pc' = "idle"
  /\ op' = NoOp
  /\ last' = v
  /\ maybe' = {}
  /\ phase' = "settled"

(* Mutant: the full page stays valid. *)
WriteRest_KeepOld ==
  /\ pc = "end"
  /\ block' = [block EXCEPT ![op.page] = [block[op.page] EXCEPT ![op.blk] = op.val]]
  /\ UNCHANGED header
  /\ Settle(op.val)

(* ... and in the end its CRC.  Unless an old page is left, that is all.   *)
WriteRest ==
  /\ pc = "end"
  /\ block' = [block EXCEPT ![op.page] = [block[op.page] EXCEPT ![op.blk] = op.val]]
  /\ UNCHANGED header
  /\ IF op.old = NoPage
       THEN Settle(op.val)
       ELSE pc' = "eraseOld" /\ UNCHANGED <<op, last, maybe, phase>>

EraseOldPage ==
  /\ pc = "eraseOld"
  /\ flash_empty_device(op.old)
  /\ Settle(op.val)

(* flash_set_empty erases the pages one after the other. *)
flash_set_empty ==
  /\ pc = "idle"
  /\ pc' = "empty0"
  /\ phase' = "recovering"
  /\ UNCHANGED <<flash, op, last, maybe>>

EmptyPage0 ==
  /\ pc = "empty0"
  /\ flash_empty_device(0)
  /\ pc' = "empty1"
  /\ UNCHANGED <<op, last, maybe, phase>>

EmptyPage1 ==
  /\ pc = "empty1"
  /\ flash_empty_device(1)
  /\ Settle(NoValue)

-------------------------------------------------------------------------------
(* Power fails, or flash_write_device reports an error and flash_write     *)
(* returns FLASH_OP_WRITE_ERR: the call ends where it is.                  *)
CutShort ==
  /\ pc' = "idle"
  /\ op' = NoOp
  /\ maybe' = IF op.val = NoValue THEN maybe ELSE maybe \cup {op.val}
  /\ phase' = IF phase = "writing" THEN "cut" ELSE "recovering"
  /\ UNCHANGED last

PowerFail ==
  /\ pc # "idle"
  /\ CutShort
  /\ UNCHANGED flash

ErasingPage(p) ==
  \/ pc \in {"erase0", "empty0"} /\ p = 0
  \/ pc \in {"erase1", "empty1"} /\ p = 1
  \/ pc = "eraseOld" /\ p = op.old

(* Power fails while a page is being cleared from its header upwards, as   *)
(* the memset of the default flash_empty_device does.                      *)
PowerFailInErase(p) ==
  /\ ErasingPage(p)
  /\ pc \in {"erase0", "erase1"} => header[p] # "erased"
  /\ \E k \in ErasePrefixes :
       block' = [block EXCEPT ![p] = [i \in Blocks |->
                   IF i <= k THEN Erased ELSE block[p][i]]]
  /\ header' = [header EXCEPT ![p] = "erased"]
  /\ CutShort

Next ==
  \/ \E v \in Values : flash_write(v)
  \/ ErasePage0
  \/ ErasePage1
  \/ WriteHeader
  \/ WriteFlag
  \/ WriteRest
  \/ EraseOldPage
  \/ flash_set_empty
  \/ EmptyPage0
  \/ EmptyPage1
  \/ PowerFail
  \/ \E p \in Pages : PowerFailInErase(p)

Spec == Init /\ [][Next]_vars

-------------------------------------------------------------------------------
(***************************************************************************)
(* Properties.                                                             *)
(***************************************************************************)

(* The store and the locals of flash_write keep their declared shape; the  *)
(* block flash_write goes to exists in its page.                           *)
TypeOK ==
  /\ header \in [Pages -> {"erased", "valid", "other"}]
  /\ block \in [Pages -> [Blocks -> Values \cup {Erased, Torn, Other}]]
  /\ pc \in {"idle", "erase0", "erase1", "header", "begin", "end", "eraseOld",
             "empty0", "empty1"}
  /\ op \in [val : Values \cup {NoValue}, page : Pages, blk : Blocks,
             old : Pages \cup {NoPage}, both : BOOLEAN]
  /\ last \in Values \cup {NoValue}
  /\ maybe \subseteq Values
  /\ phase \in {"settled", "writing", "cut", "recovering"}

(* flash_test_example writes a block, reads it back and compares.  Once a  *)
(* flash_write has returned FLASH_OP_SUCCESS, flash_read gives its value,  *)
(* whatever the writes before it left in the pages.                        *)
WrittenIsRead == phase = "settled" => flash_read = last

(* drv_flash.h, at FLASH_SEARCH_PAGE_MULTI_INVALID: "only one page valid   *)
(* per time".  A completed write leaves at most one valid page, and before *)
(* a power failure two are valid only while a full page is replaced.       *)
OnePageValid ==
  BothValid => \/ phase \in {"cut", "recovering"}
               \/ pc \in {"begin", "end", "eraseOld"} /\ op.old # NoPage

(* Whenever flash_read does return a value, it is the last one written, or *)
(* that of a write that was cut short since: never an older one.           *)
ReadIsRecent ==
  pc = "idle" => flash_read \in {last, NoValue} \cup maybe

(* From a completed write, through the next one and a power failure in it, *)
(* until yet another write begins, some page holds the last value or the   *)
(* new one whole (though after the failure flash_read may not find it).    *)
ValueKept ==
  phase # "recovering" /\ last # NoValue =>
    \E p \in Pages, i \in Blocks : block[p][i] \in {last, op.val} \cup maybe

(* The blocks of a page are written upwards: no erased block lies below a  *)
(* written one, where flash_find_block would write it out of order.        *)
WrittenUpwards ==
  \A p \in Pages : \A i, j \in Blocks :
    i < j /\ block[p][i] = Erased => block[p][j] = Erased
=============================================================================
