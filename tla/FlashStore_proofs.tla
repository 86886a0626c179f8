--------------------------- MODULE FlashStore_proofs ---------------------------
(***************************************************************************)
(* The properties of FlashStore, proved for every set of values and every  *)
(* number of blocks in a page.  Type correctness holds as it is; the rest  *)
(* holds of a device that erases a page all or nothing (AtomicErase): with *)
(* a device that may clear the header and stop, the run of FlashTornErase  *)
(* refutes WrittenIsRead.                                                  *)
(***************************************************************************)
EXTENDS FlashStore, FiniteSetTheorems, TLAPS

AtomicErase == ErasePrefixes \subseteq {BlockNum}

(***************************************************************************)
(* The inductive invariant, in parts.                                      *)
(***************************************************************************)

Appending == {"begin", "end", "eraseOld"}
Writing   == {"erase0", "erase1", "header"} \cup Appending

(* A write in progress has a value to write. *)
ValueInv == pc \in Writing => op.val \in Values

(* The locals of a call say what the headers of the two pages are.         *)
OpInv ==
  /\ pc \notin Writing => op = NoOp
  /\ pc \in {"erase0", "erase1", "header"} => op.blk = 1
  /\ pc \in {"erase0", "erase1"} => (op.both <=> op.old = NoPage)
  /\ pc = "erase0" => op.page = 0
  /\ pc = "erase1" => IF op.both THEN op.page = 0 /\ header[0] = "erased" ELSE op.page = 1
  /\ pc = "header" => /\ header[op.page] = "erased"
                      /\ op.old = NoPage => header[1 - op.page] = "erased"
  /\ pc \in Appending => /\ header[op.page] = "valid"
                         /\ op.old = NoPage => header[1 - op.page] # "valid"
  /\ op.old # NoPage => op.old = 1 - op.page /\ header[op.old] = "valid"
  /\ op.old # NoPage /\ pc \in {"erase0", "erase1"} => header[op.page] # "valid"
  /\ pc = "eraseOld" => op.old # NoPage
  /\ pc = "empty1" => header[0] = "erased"

(* The page written to is filled upwards: all is erased above the block    *)
(* that goes in, and a page whose header is erased is erased altogether.   *)
BlockInv ==
  /\ \A p \in Pages : header[p] = "erased" => \A i \in Blocks : block[p][i] = Erased
  /\ WrittenUpwards
  /\ pc = "begin" => /\ block[op.page][op.blk] = Erased
                     /\ \A j \in Blocks : j < op.blk => block[op.page][j] # Erased
  /\ pc = "end" => block[op.page][op.blk] = Torn
  /\ pc = "eraseOld" => block[op.page][op.blk] = op.val
  /\ pc \in {"end", "eraseOld"} =>
       \A j \in Blocks : op.blk < j => block[op.page][j] = Erased

(* What the history variables remember. *)
PhaseInv ==
  /\ phase \in {"settled", "cut"} => pc = "idle"
  /\ phase = "writing" => pc \in Writing

(* A first write after a completed one leaves the last value where it is.  *)
LastInv ==
  phase = "writing" /\ last # NoValue =>
    /\ ~op.both
    /\ \E i \in Blocks : block[IF op.old = NoPage THEN op.page ELSE op.old][i] = last

(* The uppermost flagged block of a valid page is recent.                  *)
IsTop(p, i) == i \in FlaggedBlocks(p) /\ \A j \in FlaggedBlocks(p) : j <= i

TopInv ==
  \A p \in Pages : header[p] = "valid" =>
    \A i \in Blocks : IsTop(p, i) => block[p][i] \in {last, Torn, op.val} \cup maybe

IInv == /\ TypeOK /\ ValueInv /\ OpInv /\ BlockInv
        /\ PhaseInv /\ LastInv /\ ValueKept /\ OnePageValid /\ WrittenIsRead /\ TopInv

-------------------------------------------------------------------------------
(***************************************************************************)
(* The searches of flash_find_block.                                       *)
(***************************************************************************)

(* Every nonempty set of naturals has a least element ... *)
LEMMA NonemptyHasMin ==
  ASSUME NEW S \in SUBSET Nat, S # {}
  PROVE  \E i \in S : \A j \in S : i <= j
<1> DEFINE T == {0 .. i : i \in S}
<1>1. T \subseteq FiniteSubsetsOf(Nat) /\ T # {}
  <2>1. \A i \in S : 0 .. i \in FiniteSubsetsOf(Nat)
    BY FS_Interval DEF FiniteSubsetsOf
  <2> QED
    BY <2>1
<1> HIDE DEF T
<1>2. PICK x \in T : \A y \in T : <<y, x>> \notin StrictSubsetOrdering(Nat)
  BY <1>1, FS_StrictSubsetOrderingWellFounded, WFMin
<1>3. PICK i \in S : x = 0 .. i
  BY DEF T
<1>4. ASSUME NEW j \in S, j < i PROVE FALSE
  <2>1. 0 .. j \in T
    BY DEF T
  <2>2. 0 .. j \subseteq 0 .. i /\ 0 .. j # 0 .. i
    BY <1>4
  <2>3. 0 .. j \in SUBSET Nat /\ 0 .. i \in SUBSET Nat
    OBVIOUS
  <2> QED
    BY <1>2, <1>3, <2>1, <2>2, <2>3 DEF StrictSubsetOrdering
<1> QED
  BY <1>4

(* ... and one that is bounded has a greatest. *)
LEMMA NonemptyHasMax ==
  ASSUME NEW N \in Nat, NEW S \in SUBSET (1 .. N), S # {}
  PROVE  \E i \in S : \A j \in S : j <= i
<1> DEFINE R == {N - i : i \in S}
<1>1. PICK k \in R : \A j \in R : k <= j
  <2>1. \A i \in S : N - i \in Nat
    OBVIOUS
  <2>2. R \in SUBSET Nat
    BY <2>1
  <2>3. R # {}
    OBVIOUS
  <2> QED
    BY <2>2, <2>3, NonemptyHasMin
<1>2. PICK i \in S : k = N - i
  OBVIOUS
<1>3. ASSUME NEW j \in S PROVE j <= i
  <2>1. N - j \in R
    OBVIOUS
  <2>2. N - i <= N - j
    BY <1>1, <1>2, <2>1
  <2> QED
    BY <2>2
<1> QED
  BY <1>3

(* The upward search finds the first of a set of blocks. *)
LEMMA FirstOfIsLeast ==
  ASSUME NEW S \in SUBSET Blocks, S # {}
  PROVE  FirstOf(S) \in S /\ \A j \in S : FirstOf(S) <= j
<1>1. \E i \in S : \A j \in S : i <= j
  <2>1. S \in SUBSET Nat
    BY BlockNumAssumption DEF Blocks
  <2> QED
    BY <2>1, NonemptyHasMin
<1> QED
  BY <1>1 DEF FirstOf

(* The search for the block to read finds the greatest. *)
LEMMA LastOfIsGreatest ==
  ASSUME NEW S \in SUBSET Blocks, S # {}
  PROVE  LastOf(S) \in S /\ \A j \in S : j <= LastOf(S)
<1>1. \E i \in S : \A j \in S : j <= i
  BY BlockNumAssumption, NonemptyHasMax DEF Blocks
<1> QED
  BY <1>1 DEF LastOf

(* What flash_read returns when one page is valid: its top block. *)
TopIsRead ==
  \A p \in Pages : header[p] = "valid" /\ header[1 - p] # "valid" =>
    \A i \in Blocks : IsTop(p, i) =>
      flash_read = IF block[p][i] = Torn THEN NoValue ELSE block[p][i]

LEMMA ReadsTheTop == TopIsRead
<1> SUFFICES ASSUME NEW p \in Pages, header[p] = "valid", header[1 - p] # "valid",
                    NEW i \in Blocks, IsTop(p, i)
             PROVE  flash_read = IF block[p][i] = Torn THEN NoValue ELSE block[p][i]
  BY DEF TopIsRead
<1>1. PageInUse = p /\ ~BothValid /\ ~NoneValid
  BY DEF PageInUse, BothValid, NoneValid, Pages
<1>2. FlaggedBlocks(p) \in SUBSET Blocks /\ FlaggedBlocks(p) # {}
  BY DEF FlaggedBlocks, IsTop
<1>3. LastOf(FlaggedBlocks(p)) = i
  <2>1. /\ LastOf(FlaggedBlocks(p)) \in FlaggedBlocks(p)
        /\ \A j \in FlaggedBlocks(p) : j <= LastOf(FlaggedBlocks(p))
    BY <1>2, LastOfIsGreatest
  <2>2. LastOf(FlaggedBlocks(p)) \in Int /\ i \in Int
    BY <1>2, <2>1, BlockNumAssumption DEF Blocks
  <2>3. LastOf(FlaggedBlocks(p)) <= i /\ i <= LastOf(FlaggedBlocks(p))
    BY <2>1 DEF IsTop
  <2> QED
    BY <2>2, <2>3
<1> QED
  BY <1>1, <1>2, <1>3 DEF flash_read

-------------------------------------------------------------------------------
(***************************************************************************)
(* Type correctness.                                                       *)
(***************************************************************************)

FlashTypeOK ==
  /\ header \in [Pages -> {"erased", "valid", "other"}]
  /\ block \in [Pages -> [Blocks -> Values \cup {Erased, Torn, Other}]]

OpType == [val : Values \cup {NoValue}, page : Pages, blk : Blocks,
           old : Pages \cup {NoPage}, both : BOOLEAN]

LEMMA NoOpType == NoOp \in OpType
  BY BlockNumAssumption DEF OpType, NoOp, Pages, Blocks, NoPage

LEMMA TypeInit == Init => TypeOK /\ ValueInv
<1>1. Init => FlashTypeOK
  BY DEF Init, FlashTypeOK
<1> QED
  BY <1>1, NoOpType DEF Init, TypeOK, FlashTypeOK, OpType, ValueInv, Writing, Appending

(* Erasing a page leaves a well-formed store. *)
LEMMA EraseType ==
  ASSUME FlashTypeOK, NEW p, EraseUnlessErased(p) \/ flash_empty_device(p)
  PROVE  FlashTypeOK'
<1>1. CASE flash_empty_device(p)
  BY <1>1 DEF flash_empty_device, FlashTypeOK
<1>2. CASE UNCHANGED flash
  BY <1>2 DEF flash, FlashTypeOK
<1> QED
  BY <1>1, <1>2 DEF EraseUnlessErased

(* Where a call of flash_write goes to is a block of a page. *)
LEMMA WriteType ==
  ASSUME TypeOK, NEW v \in Values, flash_write(v)
  PROVE  /\ op' \in OpType
         /\ op'.val = v
         /\ pc' \in {"erase0", "erase1", "begin"}
         /\ phase' \in {"writing", "recovering"}
<1>1. ErasedBlocks(PageInUse) # {} => FirstOf(ErasedBlocks(PageInUse)) \in Blocks
  BY FirstOfIsLeast DEF ErasedBlocks
<1>2. PageInUse \in Pages /\ 1 - PageInUse \in Pages
  BY DEF PageInUse, Pages
<1>3. 1 \in Blocks
  BY BlockNumAssumption DEF Blocks
<1> QED
  BY <1>1, <1>2, <1>3 DEF flash_write, NoOp, NoPage, OpType, Pages

LEMMA TypeStep == TypeOK /\ ValueInv /\ [Next]_vars => TypeOK' /\ ValueInv'
<1> SUFFICES ASSUME TypeOK, ValueInv, [Next]_vars PROVE TypeOK' /\ ValueInv'
  OBVIOUS
<1>a. FlashTypeOK /\ op \in OpType
  BY DEF TypeOK, FlashTypeOK, OpType
<1> DEFINE Rest == /\ pc' \in {"idle", "erase0", "erase1", "header", "begin", "end",
                                "eraseOld", "empty0", "empty1"}
                   /\ op' \in OpType
                   /\ last' \in Values \cup {NoValue}
                   /\ maybe' \subseteq Values
                   /\ phase' \in {"settled", "writing", "cut", "recovering"}
                   /\ ValueInv'
<1> SUFFICES FlashTypeOK' /\ Rest
  BY DEF TypeOK, FlashTypeOK, OpType
<1> USE DEF ValueInv, Writing, Appending
<1>1. ASSUME NEW v \in Values, flash_write(v) PROVE FlashTypeOK' /\ Rest
  BY <1>a, <1>1, WriteType DEF flash_write, TypeOK, FlashTypeOK, flash
<1>2. CASE ErasePage0
  BY <1>a, <1>2, EraseType DEF ErasePage0, TypeOK
<1>3. CASE ErasePage1
  BY <1>a, <1>3, EraseType DEF ErasePage1, TypeOK
<1>4. CASE WriteHeader
  BY <1>a, <1>4 DEF WriteHeader, TypeOK, FlashTypeOK
<1>5. CASE WriteFlag
  BY <1>a, <1>5 DEF WriteFlag, TypeOK, FlashTypeOK
<1>6. CASE WriteRest
  <2>1. FlashTypeOK'
    BY <1>a, <1>6 DEF WriteRest, FlashTypeOK
  <2>2. Rest
    BY <1>a, <1>6, NoOpType DEF WriteRest, Settle, TypeOK
  <2> QED
    BY <2>1, <2>2
<1>7. CASE EraseOldPage
  BY <1>a, <1>7, EraseType, NoOpType DEF EraseOldPage, Settle, TypeOK
<1>8. CASE flash_set_empty
  BY <1>a, <1>8 DEF flash_set_empty, flash, TypeOK, FlashTypeOK
<1>9. CASE EmptyPage0
  BY <1>a, <1>9, EraseType DEF EmptyPage0, TypeOK
<1>10. CASE EmptyPage1
  BY <1>a, <1>10, EraseType, NoOpType DEF EmptyPage1, Settle, TypeOK
<1>11. CASE PowerFail
  <2>1. maybe' \subseteq Values
    BY <1>a, <1>11 DEF PowerFail, CutShort, TypeOK, OpType
  <2> QED
    BY <1>a, <1>11, <2>1, NoOpType DEF PowerFail, CutShort, flash, TypeOK, FlashTypeOK
<1>12. ASSUME NEW p \in Pages, PowerFailInErase(p) PROVE FlashTypeOK' /\ Rest
  <2>1. maybe' \subseteq Values
    BY <1>a, <1>12 DEF PowerFailInErase, CutShort, TypeOK, OpType
  <2>2. FlashTypeOK'
    BY <1>a, <1>12 DEF PowerFailInErase, FlashTypeOK
  <2> QED
    BY <1>a, <1>12, <2>1, <2>2, NoOpType DEF PowerFailInErase, CutShort, TypeOK
<1>13. CASE UNCHANGED vars
  BY <1>a, <1>13 DEF vars, flash, TypeOK, FlashTypeOK
<1> QED
  BY <1>1, <1>2, <1>3, <1>4, <1>5, <1>6, <1>7, <1>8, <1>9, <1>10, <1>11, <1>12, <1>13 DEF Next

(* The store and the locals of flash_write keep their declared shape, and  *)
(* no write goes to a block outside its page.                              *)
THEOREM TypeCorrect == Spec => []TypeOK
  BY TypeInit, TypeStep, PTL DEF Spec

-------------------------------------------------------------------------------
(***************************************************************************)
(* The inductive invariant.                                                *)
(***************************************************************************)

(* What becomes of the two pages when page p is erased. *)
Erased1(p) ==
  /\ header'[p] = "erased" /\ header'[1 - p] = header[1 - p]
  /\ block'[1 - p] = block[1 - p]
  /\ \A i \in Blocks : block'[p][i] = Erased

LEMMA EraseEffect ==
  ASSUME TypeOK, BlockInv, NEW p \in Pages, EraseUnlessErased(p) \/ flash_empty_device(p)
  PROVE  Erased1(p)
<1>1. CASE flash_empty_device(p)
  BY <1>1 DEF flash_empty_device, Erased1, TypeOK, Pages
<1>2. CASE header[p] = "erased" /\ UNCHANGED flash
  BY <1>2 DEF flash, Erased1, BlockInv
<1> QED
  BY <1>1, <1>2 DEF EraseUnlessErased

(* An erase that power interrupts has erased the whole page or nothing. *)
LEMMA AtomicEraseEffect ==
  ASSUME AtomicErase, TypeOK, NEW p \in Pages, PowerFailInErase(p)
  PROVE  Erased1(p)
<1>1. block' = [block EXCEPT ![p] = [i \in Blocks |->
                  IF i <= BlockNum THEN Erased ELSE block[p][i]]]
  BY DEF AtomicErase, PowerFailInErase
<1>2. \A i \in Blocks : i <= BlockNum
  BY BlockNumAssumption DEF Blocks
<1> QED
  BY <1>1, <1>2 DEF PowerFailInErase, Erased1, TypeOK, Pages

LEMMA OpStep ==
  ASSUME AtomicErase, IInv, Next
  PROVE  OpInv'
<1> USE DEF IInv
<1>a. TypeOK /\ BlockInv /\ op \in OpType
  BY DEF TypeOK, OpType
<1>b. 0 \in Pages /\ 1 \in Pages /\ NoPage \notin Pages
  BY DEF Pages, NoPage
<1>c. NoOp.old = NoPage /\ NoOp.blk = 1 /\ NoOp.page = 0 /\ ~NoOp.both
  BY DEF NoOp
<1> USE DEF OpInv, Writing, Appending
<1>1. ASSUME NEW v \in Values, flash_write(v) PROVE OpInv'
  <2>0. op' \in OpType /\ op'.val = v /\ op'.both = (BothValid \/ NoneValid) /\ UNCHANGED header
    BY <1>1, <1>a, WriteType DEF flash_write, flash, NoOp
  <2>1. CASE BothValid \/ NoneValid
    BY <1>1, <2>0, <2>1 DEF flash_write, NoOp, NoPage
  <2>2. CASE ~BothValid /\ ~NoneValid
    <3>1. /\ PageInUse \in Pages /\ 1 - PageInUse \in Pages
          /\ header[PageInUse] = "valid" /\ header[1 - PageInUse] # "valid"
      BY <2>2 DEF PageInUse, BothValid, NoneValid, Pages
    <3>2. CASE /\ op' = [NoOp EXCEPT !.val = v, !.page = PageInUse,
                                      !.blk = FirstOf(ErasedBlocks(PageInUse))]
               /\ pc' = "begin"
      BY <1>1, <2>0, <3>1, <3>2 DEF NoOp, NoPage
    <3>3. CASE /\ op' = [NoOp EXCEPT !.val = v, !.page = 1 - PageInUse, !.old = PageInUse]
               /\ pc' = IF PageInUse = 0 THEN "erase1" ELSE "erase0"
      <4>1. /\ op'.old = PageInUse /\ op'.page = 1 - PageInUse
            /\ op'.blk = 1 /\ ~op'.both
        BY <3>3 DEF NoOp
      <4>2. 1 - op'.page = PageInUse /\ op'.old # NoPage
        BY <3>1, <4>1 DEF Pages, NoPage
      <4>3. (pc' = "erase0" /\ op'.page = 0) \/ (pc' = "erase1" /\ op'.page = 1)
        BY <3>1, <3>3, <4>1 DEF Pages
      <4> QED
        BY <2>0, <3>1, <4>1, <4>2, <4>3
    <3> QED
      BY <1>1, <2>2, <3>2, <3>3 DEF flash_write, NoOp
  <2> QED
    BY <2>1, <2>2
<1>2. CASE ErasePage0
  BY <1>a, <1>b, <1>2, EraseEffect DEF ErasePage0, Erased1, OpType, Pages, NoPage
<1>3. CASE ErasePage1
  BY <1>a, <1>b, <1>3, EraseEffect DEF ErasePage1, Erased1, OpType, Pages, NoPage
<1>4. CASE WriteHeader
  BY <1>a, <1>4 DEF WriteHeader, TypeOK, OpType, Pages, NoPage
<1>5. CASE WriteFlag
  BY <1>5 DEF WriteFlag
<1>6. CASE WriteRest
  BY <1>c, <1>6 DEF WriteRest, Settle
<1>7. CASE EraseOldPage
  BY <1>c, <1>7 DEF EraseOldPage, Settle
<1>8. CASE flash_set_empty
  BY <1>c, <1>8 DEF flash_set_empty
<1>9. CASE EmptyPage0
  BY <1>a, <1>b, <1>c, <1>9, EraseEffect DEF EmptyPage0, Erased1
<1>10. CASE EmptyPage1
  BY <1>c, <1>10 DEF EmptyPage1, Settle
<1>11. CASE PowerFail
  BY <1>c, <1>11 DEF PowerFail, CutShort
<1>12. ASSUME NEW p \in Pages, PowerFailInErase(p) PROVE OpInv'
  BY <1>c, <1>12 DEF PowerFailInErase, CutShort
<1> QED
  BY <1>1, <1>2, <1>3, <1>4, <1>5, <1>6, <1>7, <1>8, <1>9, <1>10, <1>11, <1>12 DEF Next

(* The first two parts of BlockInv, which hold at every step of a call. *)
PagesInv ==
  /\ \A p \in Pages : header[p] = "erased" => \A i \in Blocks : block[p][i] = Erased
  /\ WrittenUpwards

LEMMA ErasePages ==
  ASSUME PagesInv, NEW p \in Pages, Erased1(p)
  PROVE  PagesInv'
  BY DEF PagesInv, WrittenUpwards, Erased1, Pages

(* Writing a whole or half block v over block b of page p, the next one up. *)
Puts(p, b, v) ==
  /\ block' = [block EXCEPT ![p] = [block[p] EXCEPT ![b] = v]]
  /\ UNCHANGED header
  /\ header[p] # "erased" /\ v # Erased
  /\ \A j \in Blocks : j < b => block[p][j] # Erased
  /\ \A j \in Blocks : b < j => block[p][j] = Erased

LEMMA PutPages ==
  ASSUME TypeOK, PagesInv, NEW p \in Pages, NEW b \in Blocks, NEW v, Puts(p, b, v)
  PROVE  /\ PagesInv'
         /\ block'[p][b] = v
         /\ \A j \in Blocks : j # b => block'[p][j] = block[p][j]
         /\ \A q \in Pages : q # p => block'[q] = block[q]
<1> USE DEF Puts
<1>1. /\ block'[p][b] = v
      /\ \A j \in Blocks : j # b => block'[p][j] = block[p][j]
      /\ \A q \in Pages : q # p => block'[q] = block[q]
  BY DEF TypeOK
<1>2. ASSUME NEW q \in Pages, NEW i \in Blocks, NEW j \in Blocks, i < j, block'[q][i] = Erased
      PROVE  block'[q][j] = Erased
  <2>1. CASE q # p
    BY <1>1, <1>2, <2>1 DEF PagesInv, WrittenUpwards
  <2>2. CASE q = p
    <3>1. i # b /\ ~(i < b)
      BY <1>1, <1>2, <2>2
    <3>2. b < j
      BY <1>2, <3>1, BlockNumAssumption DEF Blocks
    <3> QED
      BY <1>1, <2>2, <3>2, BlockNumAssumption DEF Blocks
  <2> QED
    BY <2>1, <2>2
<1> QED
  BY <1>1, <1>2 DEF PagesInv, WrittenUpwards

LEMMA BlockStep ==
  ASSUME AtomicErase, IInv, Next
  PROVE  BlockInv'
<1>a. TypeOK /\ BlockInv /\ OpInv /\ ValueInv /\ PagesInv
  BY DEF IInv, BlockInv, PagesInv
<1>b. op.page \in Pages /\ op.blk \in Blocks /\ op.val \in Values \cup {NoValue}
  BY <1>a DEF TypeOK
<1>c. \A j \in Blocks : j \in Int
  BY BlockNumAssumption DEF Blocks
<1>1. ASSUME NEW v \in Values, flash_write(v) PROVE BlockInv'
  <2>1. PagesInv' /\ pc' \in {"erase0", "erase1", "begin"}
    BY <1>a, <1>1, WriteType DEF flash_write, PagesInv, WrittenUpwards, flash
  <2>2. CASE pc' = "begin"
    <3>1. /\ ErasedBlocks(PageInUse) # {} /\ UNCHANGED block
          /\ op'.page = PageInUse /\ op'.blk = FirstOf(ErasedBlocks(PageInUse))
      BY <1>1, <2>2 DEF flash_write, NoOp, flash
    <3>2. /\ op'.blk \in ErasedBlocks(PageInUse)
          /\ \A j \in ErasedBlocks(PageInUse) : op'.blk <= j
      BY <3>1, FirstOfIsLeast DEF ErasedBlocks
    <3> QED
      BY <1>c, <2>1, <2>2, <3>1, <3>2 DEF ErasedBlocks, BlockInv, PagesInv
  <2> QED
    BY <2>1, <2>2 DEF BlockInv, PagesInv
<1>2. ASSUME NEW p \in Pages, Erased1(p), pc' \notin Appending PROVE BlockInv'
  BY <1>a, <1>2, ErasePages DEF BlockInv, PagesInv, Appending
<1>3. CASE ErasePage0
  BY <1>a, <1>2, <1>3, EraseEffect DEF ErasePage0, Pages, Appending
<1>4. CASE ErasePage1
  BY <1>a, <1>2, <1>4, EraseEffect DEF ErasePage1, Pages, Appending
<1>5. CASE WriteHeader
  <2>1. \A i \in Blocks : block[op.page][i] = Erased
    BY <1>a, <1>b, <1>5 DEF WriteHeader, OpInv, PagesInv
  <2>2. op.blk = 1 /\ \A j \in Blocks : ~(j < 1)
    BY <1>a, <1>5, BlockNumAssumption DEF WriteHeader, OpInv, Blocks
  <2>3. PagesInv'
    BY <1>a, <1>5 DEF WriteHeader, PagesInv, WrittenUpwards, TypeOK
  <2> QED
    BY <1>b, <1>5, <2>1, <2>2, <2>3 DEF WriteHeader, BlockInv, PagesInv
<1>6. CASE WriteFlag
  <2>1. \A j \in Blocks : op.blk < j => block[op.page][j] = Erased
    BY <1>a, <1>b, <1>6 DEF WriteFlag, BlockInv, WrittenUpwards
  <2>2. header[op.page] = "valid" /\ \A j \in Blocks : j < op.blk => block[op.page][j] # Erased
    BY <1>a, <1>6 DEF WriteFlag, OpInv, BlockInv, Appending
  <2>3. PagesInv' /\ block'[op.page][op.blk] = Torn
        /\ \A j \in Blocks : j # op.blk => block'[op.page][j] = block[op.page][j]
    <3>1. Puts(op.page, op.blk, Torn)
      BY <1>6, <2>1, <2>2, MarksAssumption DEF WriteFlag, Puts
    <3> QED
      BY <1>a, <1>b, <3>1, PutPages
  <2> QED
    BY <1>c, <1>b, <1>6, <2>1, <2>3 DEF WriteFlag, BlockInv, PagesInv
<1>7. CASE WriteRest
  <2>1. /\ \A j \in Blocks : op.blk < j => block[op.page][j] = Erased
        /\ header[op.page] = "valid" /\ op.val # Erased
    BY <1>a, <1>7, MarksAssumption
    DEF WriteRest, BlockInv, OpInv, ValueInv, Writing, Appending, Marks
  <2>2. \A j \in Blocks : j < op.blk => block[op.page][j] # Erased
    BY <1>a, <1>b, <1>7, MarksAssumption DEF WriteRest, BlockInv, WrittenUpwards
  <2>3. PagesInv' /\ block'[op.page][op.blk] = op.val
        /\ \A j \in Blocks : j # op.blk => block'[op.page][j] = block[op.page][j]
    <3>1. Puts(op.page, op.blk, op.val)
      BY <1>7, <2>1, <2>2 DEF WriteRest, Puts
    <3> QED
      BY <1>a, <1>b, <3>1, PutPages
  <2> QED
    BY <1>c, <1>b, <1>7, <2>1, <2>3 DEF WriteRest, Settle, BlockInv, PagesInv
<1>8. CASE EraseOldPage
  <2>1. op.old \in Pages
    BY <1>a, <1>8 DEF EraseOldPage, OpInv, TypeOK
  <2> QED
    BY <1>a, <1>2, <1>8, <2>1, EraseEffect DEF EraseOldPage, Settle, Appending
<1>9. CASE flash_set_empty
  BY <1>a, <1>9 DEF flash_set_empty, flash, BlockInv, WrittenUpwards
<1>10. CASE EmptyPage0
  BY <1>a, <1>2, <1>10, EraseEffect DEF EmptyPage0, Pages, Appending
<1>11. CASE EmptyPage1
  BY <1>a, <1>2, <1>11, EraseEffect DEF EmptyPage1, Settle, Pages, Appending
<1>12. CASE PowerFail
  BY <1>a, <1>12 DEF PowerFail, CutShort, flash, BlockInv, WrittenUpwards
<1>13. ASSUME NEW p \in Pages, PowerFailInErase(p) PROVE BlockInv'
  BY <1>a, <1>2, <1>13, AtomicEraseEffect DEF PowerFailInErase, CutShort, Appending
<1> QED
  BY <1>1, <1>3, <1>4, <1>5, <1>6, <1>7, <1>8, <1>9, <1>10, <1>11, <1>12, <1>13
  DEF Next, BlockInv, PagesInv

LEMMA PhaseStep ==
  ASSUME PhaseInv, Next
  PROVE  PhaseInv'
<1> USE DEF PhaseInv, Writing, Appending
<1>1. ASSUME NEW v \in Values, flash_write(v) PROVE PhaseInv'
  BY <1>1 DEF flash_write
<1>2. ASSUME NEW p \in Pages, PowerFailInErase(p) PROVE PhaseInv'
  BY <1>2 DEF PowerFailInErase, CutShort
<1> QED
  BY <1>1, <1>2 DEF Next, ErasePage0, ErasePage1, WriteHeader, WriteFlag, WriteRest, EraseOldPage,
     Settle, flash_set_empty, EmptyPage0, EmptyPage1, PowerFail, CutShort

(* The block just written is the top of its page. *)
LEMMA WrittenIsTop ==
  ASSUME NEW p \in Pages, NEW b \in Blocks, block'[p][b] \in Values \cup {Torn},
         \A j \in Blocks : b < j => block'[p][j] = Erased
  PROVE  /\ IsTop(p, b)'
         /\ \A i \in Blocks : IsTop(p, i)' => i = b
<1>1. Erased \notin Values \cup {Torn}
  BY MarksAssumption DEF Marks
<1>2. \A j \in Blocks : j \in Int
  BY BlockNumAssumption DEF Blocks
<1> QED
  BY <1>1, <1>2 DEF IsTop, FlaggedBlocks

(* The state in which a write has written its block. *)
LEMMA AfterWriteRest ==
  ASSUME IInv, BlockInv', WriteRest \/ EraseOldPage
  PROVE  /\ op.page \in Pages /\ op.blk \in Blocks /\ op.val \in Values
         /\ header'[op.page] = "valid"
         /\ pc' = "idle" => header'[1 - op.page] # "valid"
         /\ block'[op.page][op.blk] = op.val
         /\ \A j \in Blocks : op.blk < j => block'[op.page][j] = Erased
<1>1. op.page \in Pages /\ op.blk \in Blocks /\ op.val \in Values
  BY DEF IInv, TypeOK, ValueInv, Writing, Appending, WriteRest, EraseOldPage
<1>2. CASE WriteRest
  <2>1. header'[op.page] = "valid" /\ (pc' = "idle" => header'[1 - op.page] # "valid")
    BY <1>2 DEF IInv, OpInv, Appending, WriteRest, Settle
  <2>2. /\ block'[op.page][op.blk] = op.val
        /\ \A j \in Blocks : j # op.blk => block'[op.page][j] = block[op.page][j]
    BY <1>1, <1>2 DEF IInv, TypeOK, WriteRest
  <2> QED
    BY <1>1, <1>2, <2>1, <2>2, BlockNumAssumption DEF IInv, BlockInv, WriteRest, Blocks
<1>3. CASE EraseOldPage
  <2>1. op.old = 1 - op.page /\ op.old \in Pages
    BY <1>1, <1>3 DEF IInv, OpInv, TypeOK, EraseOldPage, Pages
  <2>2. Erased1(op.old)
    BY <1>3, <2>1, EraseEffect DEF IInv, EraseOldPage
  <2>3. 1 - op.old = op.page
    BY <1>1, <2>1 DEF Pages
  <2>4. header'[op.page] = header[op.page] /\ block'[op.page] = block[op.page]
    BY <2>2, <2>3 DEF Erased1
  <2> QED
    BY <1>1, <1>3, <2>1, <2>2, <2>4
    DEF IInv, OpInv, BlockInv, Appending, Erased1, EraseOldPage, Settle
<1> QED
  BY <1>2, <1>3

(* The calls that return FLASH_OP_SUCCESS. *)
LEMMA SettledBy ==
  ASSUME PhaseInv, Next, phase' = "settled"
  PROVE  /\ pc' = "idle"
         /\ \/ WriteRest /\ op.old = NoPage /\ last' = op.val
            \/ EraseOldPage /\ last' = op.val
            \/ EmptyPage1 /\ last' = NoValue
<1>1. ASSUME NEW v \in Values, flash_write(v) PROVE FALSE
  BY <1>1 DEF flash_write
<1>2. ASSUME NEW p \in Pages, PowerFailInErase(p) PROVE FALSE
  BY <1>2 DEF PowerFailInErase, CutShort
<1> QED
  BY <1>1, <1>2 DEF Next, PhaseInv, ErasePage0, ErasePage1, WriteHeader, WriteFlag, WriteRest,
     EraseOldPage, Settle, flash_set_empty, EmptyPage0, EmptyPage1, PowerFail, CutShort

(* WrittenIsRead is earned by the step that returns FLASH_OP_SUCCESS. *)
LEMMA ReadStep ==
  ASSUME AtomicErase, IInv, BlockInv', Next
  PROVE  WrittenIsRead'
<1> SUFFICES ASSUME phase' = "settled" PROVE flash_read' = last'
  BY DEF WrittenIsRead
<1>0. TopIsRead'
  BY ReadsTheTop, PTL
<1>1. CASE (WriteRest \/ EraseOldPage) /\ last' = op.val /\ pc' = "idle"
  <2>1. PICK p \in Pages, b \in Blocks, v \in Values :
          /\ header'[p] = "valid" /\ header'[1 - p] # "valid"
          /\ block'[p][b] = v /\ last' = v
          /\ \A j \in Blocks : b < j => block'[p][j] = Erased
    BY <1>1, AfterWriteRest
  <2>2. IsTop(p, b)'
    BY <2>1, WrittenIsTop
  <2>3. v # Torn
    BY MarksAssumption DEF Marks
  <2> QED
    BY <1>0, <2>1, <2>2, <2>3 DEF TopIsRead
<1>2. CASE EmptyPage1 /\ last' = NoValue
  <2>1. header'[0] # "valid" /\ header'[1] # "valid"
    BY <1>2, EraseEffect DEF EmptyPage1, Erased1, IInv, OpInv, Pages
  <2> QED
    BY <1>2, <2>1 DEF flash_read, NoneValid
<1> QED
  BY <1>1, <1>2, SettledBy DEF IInv

LEMMA ValidStep ==
  ASSUME AtomicErase, IInv, Next
  PROVE  OnePageValid'
<1> SUFFICES ASSUME BothValid', phase' \notin {"cut", "recovering"}
             PROVE  pc' \in Appending /\ op'.old # NoPage
  BY DEF OnePageValid, Appending
<1>a. TypeOK /\ BlockInv /\ OpInv /\ OnePageValid /\ PhaseInv
  BY DEF IInv
<1>1. ASSUME NEW p \in Pages, Erased1(p) PROVE FALSE
  BY <1>1 DEF Erased1, BothValid, Pages
<1>2. ASSUME NEW v \in Values, flash_write(v) PROVE FALSE
  BY <1>a, <1>2 DEF flash_write, OnePageValid, BothValid, flash, TypeOK
<1>3. CASE ErasePage0
  BY <1>a, <1>1, <1>3, EraseEffect DEF ErasePage0, Pages
<1>4. CASE ErasePage1
  BY <1>a, <1>1, <1>4, EraseEffect DEF ErasePage1, Pages
<1>5. CASE WriteHeader \/ WriteFlag \/ WriteRest
  <2>1. op.page \in Pages
    BY <1>a DEF TypeOK
  <2>2. header'[1 - op.page] = header[1 - op.page]
    BY <1>a, <1>5, <2>1 DEF WriteHeader, WriteFlag, WriteRest, TypeOK, Pages
  <2>3. header'[1 - op.page] = "valid"
    BY <2>1 DEF BothValid, Pages
  <2>4. op.old # NoPage
    BY <1>a, <1>5, <2>2, <2>3 DEF OpInv, WriteHeader, WriteFlag, WriteRest, Appending
  <2> QED
    BY <1>5, <2>4 DEF WriteHeader, WriteFlag, WriteRest, Appending
<1>6. CASE EraseOldPage
  <2>1. op.old \in Pages
    BY <1>a, <1>6 DEF EraseOldPage, OpInv, TypeOK
  <2> QED
    BY <1>a, <1>1, <1>6, <2>1, EraseEffect DEF EraseOldPage
<1>7. CASE flash_set_empty \/ PowerFail
  BY <1>7 DEF flash_set_empty, PowerFail, CutShort
<1>8. CASE EmptyPage0
  BY <1>a, <1>1, <1>8, EraseEffect DEF EmptyPage0, Pages
<1>9. CASE EmptyPage1
  BY <1>a, <1>1, <1>9, EraseEffect DEF EmptyPage1, Pages
<1>10. ASSUME NEW p \in Pages, PowerFailInErase(p) PROVE FALSE
  BY <1>a, <1>1, <1>10, AtomicEraseEffect
<1> QED
  BY <1>2, <1>3, <1>4, <1>5, <1>6, <1>7, <1>8, <1>9, <1>10 DEF Next

(* The page that holds the last value when a write begins. *)
LEMMA LastIsStored ==
  ASSUME TypeOK, WrittenIsRead, phase = "settled", last # NoValue
  PROVE  /\ ~BothValid /\ ~NoneValid
         /\ \E i \in Blocks : block[PageInUse][i] = last
<1>1. ~BothValid /\ ~NoneValid /\ FlaggedBlocks(PageInUse) # {}
  BY DEF WrittenIsRead, flash_read
<1>2. LastOf(FlaggedBlocks(PageInUse)) \in Blocks
  BY <1>1, LastOfIsGreatest DEF FlaggedBlocks
<1>3. block[PageInUse][LastOf(FlaggedBlocks(PageInUse))] = last
  BY <1>1 DEF WrittenIsRead, flash_read
<1> QED
  BY <1>1, <1>2, <1>3

LEMMA LastStep ==
  ASSUME AtomicErase, IInv, PhaseInv', Next
  PROVE  LastInv'
<1> DEFINE home == IF op.old = NoPage THEN op.page ELSE op.old
<1> SUFFICES ASSUME phase' = "writing", last' # NoValue
             PROVE  /\ ~op'.both
                    /\ \E i \in Blocks :
                         block'[IF op'.old = NoPage THEN op'.page ELSE op'.old][i] = last'
  BY DEF LastInv
<1>a. TypeOK /\ BlockInv /\ OpInv /\ LastInv /\ PhaseInv /\ WrittenIsRead
  BY DEF IInv
<1>b. pc' \in Writing
  BY DEF PhaseInv
<1>1. ASSUME NEW v \in Values, flash_write(v)
      PROVE  /\ ~op'.both
             /\ \E i \in Blocks :
                  block'[IF op'.old = NoPage THEN op'.page ELSE op'.old][i] = last'
  <2>1. phase = "settled" /\ last # NoValue /\ UNCHANGED <<block, last>>
    BY <1>1 DEF flash_write, flash
  <2>2. ~BothValid /\ ~NoneValid /\ \E i \in Blocks : block[PageInUse][i] = last
    BY <1>a, <2>1, LastIsStored
  <2>3. PageInUse # NoPage
    BY DEF PageInUse, NoPage
  <2>4. ~op'.both /\ (IF op'.old = NoPage THEN op'.page ELSE op'.old) = PageInUse
    BY <1>1, <2>2, <2>3 DEF flash_write, NoOp
  <2> QED
    BY <2>1, <2>2, <2>4
<1>2. ASSUME ~ \E v \in Values : flash_write(v)
      PROVE  /\ phase = "writing" /\ pc' # "idle" /\ UNCHANGED <<last, op>>
             /\ ErasePage0 \/ ErasePage1 \/ WriteHeader \/ WriteFlag \/ WriteRest
  BY <1>a, <1>b, <1>2 DEF Next, PhaseInv, Writing, Appending, ErasePage0, ErasePage1, WriteHeader,
     WriteFlag, WriteRest, EraseOldPage, Settle, flash_set_empty, EmptyPage0, EmptyPage1, PowerFail,
     PowerFailInErase, CutShort
<1>3. ASSUME phase = "writing", UNCHANGED <<last, op>>
      PROVE  ~op.both /\ \E i \in Blocks : block[home][i] = last
  BY <1>a, <1>3 DEF LastInv
<1>4. home \in Pages /\ op.page \in Pages /\ op.blk \in Blocks
  BY <1>a DEF TypeOK
<1>5. CASE /\ phase = "writing" /\ UNCHANGED <<last, op>>
           /\ ErasePage0 \/ ErasePage1 \/ WriteHeader \/ WriteFlag \/ WriteRest
  <2>1. PICK i \in Blocks : block[home][i] = last
    BY <1>3, <1>5
  <2>2. last # Erased /\ last # Torn
    BY <1>a, <1>5, MarksAssumption DEF TypeOK, Marks
  <2>3. block'[home][i] = last
    <3>1. CASE ErasePage0
      <4>1. op.old = 1
        BY <1>3, <1>5, <1>a, <3>1 DEF ErasePage0, OpInv, NoPage
      <4>2. Erased1(0)
        BY <1>a, <3>1, EraseEffect DEF ErasePage0, Pages
      <4> QED
        BY <2>1, <4>1, <4>2 DEF Erased1, NoPage
    <3>2. CASE ErasePage1
      <4>1. op.old = 0
        BY <1>3, <1>5, <1>a, <3>2 DEF ErasePage1, OpInv, NoPage
      <4>2. Erased1(1)
        BY <1>a, <3>2, EraseEffect DEF ErasePage1, Pages
      <4> QED
        BY <2>1, <4>1, <4>2 DEF Erased1, NoPage
    <3>3. CASE WriteHeader
      BY <2>1, <3>3 DEF WriteHeader
    <3>4. CASE WriteFlag
      BY <1>a, <1>4, <2>1, <2>2, <3>4 DEF WriteFlag, BlockInv, TypeOK
    <3>5. CASE WriteRest
      BY <1>a, <1>4, <2>1, <2>2, <3>5 DEF WriteRest, BlockInv, TypeOK
    <3> QED
      BY <1>5, <3>1, <3>2, <3>3, <3>4, <3>5
  <2> QED
    BY <1>3, <1>5, <2>1, <2>3
<1> QED
  BY <1>1, <1>2, <1>5

(* A value is lost only by a write after a write that was cut short. *)
LEMMA KeepStep ==
  ASSUME AtomicErase, IInv, TypeOK', BlockInv', LastInv', Next
  PROVE  ValueKept'
<1> SUFFICES ASSUME phase' # "recovering", last' # NoValue
             PROVE  \E p \in Pages, i \in Blocks : block'[p][i] \in {last', op'.val} \cup maybe'
  BY DEF ValueKept
<1>a. TypeOK /\ BlockInv /\ OpInv /\ LastInv /\ PhaseInv
  BY DEF IInv
<1>1. CASE phase' = "writing"
  <2>1. PICK i \in Blocks :
          block'[IF op'.old = NoPage THEN op'.page ELSE op'.old][i] = last'
    BY <1>1 DEF LastInv
  <2>2. (IF op'.old = NoPage THEN op'.page ELSE op'.old) \in Pages
    BY DEF TypeOK
  <2> QED
    BY <2>1, <2>2
<1>2. CASE phase' = "settled"
  BY <1>2, SettledBy, AfterWriteRest DEF IInv
<1>3. CASE phase' = "cut"
  <2>1. /\ phase = "writing" /\ last # NoValue /\ UNCHANGED last
        /\ PowerFail \/ \E p \in Pages : PowerFailInErase(p)
    BY <1>3, <1>a DEF Next, PhaseInv, flash_write, ErasePage0, ErasePage1, WriteHeader,
       WriteFlag, WriteRest, EraseOldPage, Settle, flash_set_empty, EmptyPage0, EmptyPage1, PowerFail,
       PowerFailInErase, CutShort
  <2> DEFINE home == IF op.old = NoPage THEN op.page ELSE op.old
  <2>2. PICK i \in Blocks : home \in Pages /\ ~op.both /\ block[home][i] = last
    BY <1>a, <2>1 DEF LastInv, TypeOK
  <2>3. CASE PowerFail
    BY <2>1, <2>2, <2>3 DEF PowerFail, flash
  <2>4. ASSUME NEW p \in Pages, PowerFailInErase(p)
        PROVE  \E q \in Pages, j \in Blocks : block'[q][j] \in {last', op'.val} \cup maybe'
    <3>1. Erased1(p)
      BY <1>a, <2>4, AtomicEraseEffect
    <3>2. CASE pc = "eraseOld"
      <4>1. p = 1 - op.page /\ op.page \in Pages /\ op.blk \in Blocks /\ op.val \in Values
        BY <1>a, <2>4, <3>2
        DEF OpInv, TypeOK, PowerFailInErase, ErasingPage, IInv, ValueInv, Writing, Appending
      <4>2. block'[op.page] = block[op.page]
        BY <3>1, <4>1 DEF Erased1, Pages
      <4>3. op.val \in maybe'
        BY <2>4, <4>1, MarksAssumption DEF PowerFailInErase, CutShort, Marks
      <4>4. block[op.page][op.blk] = op.val
        BY <1>a, <3>2 DEF BlockInv
      <4> QED
        BY <4>1, <4>2, <4>3, <4>4
    <3>3. CASE pc # "eraseOld"
      <4>1. home = 1 - p
        BY <1>a, <2>1, <2>2, <2>4, <3>3
        DEF OpInv, PhaseInv, PowerFailInErase, ErasingPage, Writing, Appending, NoPage, Pages
      <4> QED
        BY <2>1, <2>2, <3>1, <4>1 DEF Erased1
    <3> QED
      BY <3>2, <3>3
  <2> QED
    BY <2>1, <2>3, <2>4
<1>4. phase' \in {"writing", "settled", "cut"}
  BY DEF TypeOK
<1> QED
  BY <1>1, <1>2, <1>3, <1>4

Recent == {last, Torn, op.val} \cup maybe

(* A page that is not touched keeps its top block. *)
LEMMA SameTop ==
  ASSUME TypeOK, TopInv, NEW q \in Pages, header'[q] = header[q], block'[q] = block[q],
         Recent \subseteq Recent' \cup {NoValue}
  PROVE  header'[q] = "valid" => \A i \in Blocks : IsTop(q, i)' => block'[q][i] \in Recent'
<1> SUFFICES ASSUME header'[q] = "valid", NEW i \in Blocks, IsTop(q, i)'
             PROVE  block'[q][i] \in Recent'
  OBVIOUS
<1>1. IsTop(q, i)
  BY DEF IsTop, FlaggedBlocks
<1>2. block[q][i] \in Recent
  BY <1>1 DEF TopInv, Recent
<1>3. block[q][i] # NoValue
  BY MarksAssumption DEF TypeOK, Marks
<1> QED
  BY <1>2, <1>3

LEMMA TopStep ==
  ASSUME AtomicErase, IInv, TypeOK', BlockInv', Next
  PROVE  TopInv'
<1>a. TypeOK /\ BlockInv /\ OpInv /\ TopInv
  BY DEF IInv
<1> DEFINE TopRecent(q) ==
      header'[q] = "valid" => \A i \in Blocks : IsTop(q, i)' => block'[q][i] \in Recent'
<1> SUFFICES \A q \in Pages : TopRecent(q)
  BY DEF TopInv, Recent
<1>b. op.page \in Pages /\ op.blk \in Blocks /\ \A p, q \in Pages : q # p => q = 1 - p
  BY <1>a DEF TypeOK, Pages
<1>1. ASSUME UNCHANGED flash, Recent \subseteq Recent' \cup {NoValue}
      PROVE  \A q \in Pages : TopRecent(q)
  BY <1>a, <1>1, SameTop DEF flash
<1>2. ASSUME NEW p \in Pages, Erased1(p), Recent \subseteq Recent' \cup {NoValue}
      PROVE  \A q \in Pages : TopRecent(q)
  BY <1>a, <1>b, <1>2, SameTop DEF Erased1
<1>3. ASSUME NEW v \in Values, flash_write(v) PROVE \A q \in Pages : TopRecent(q)
  <2>1. op.val = NoValue
    BY <1>a, <1>3 DEF flash_write, OpInv, NoOp, Writing, Appending
  <2> QED
    BY <1>1, <1>3, <2>1 DEF flash_write, Recent
<1>4. CASE ErasePage0
  BY <1>a, <1>2, <1>4, EraseEffect DEF ErasePage0, Recent, Pages
<1>5. CASE ErasePage1
  BY <1>a, <1>2, <1>5, EraseEffect DEF ErasePage1, Recent, Pages
<1>6. CASE WriteHeader
  <2>1. \A i \in Blocks : ~IsTop(op.page, i)
    BY <1>a, <1>b, <1>6, MarksAssumption
    DEF WriteHeader, OpInv, BlockInv, IsTop, FlaggedBlocks, Marks
  <2>2. ASSUME NEW q \in Pages, q # op.page PROVE TopRecent(q)
    BY <1>a, <1>6, <2>2, SameTop DEF WriteHeader, Recent, TypeOK
  <2>3. ASSUME NEW q \in Pages, q = op.page PROVE TopRecent(q)
    BY <1>6, <2>1, <2>3 DEF WriteHeader, IsTop, FlaggedBlocks
  <2> QED
    BY <2>2, <2>3
<1>7. CASE WriteFlag
  <2>1. ASSUME NEW q \in Pages, q # op.page PROVE TopRecent(q)
    BY <1>a, <1>7, <2>1, SameTop DEF WriteFlag, Recent, TypeOK
  <2>2. ASSUME NEW q \in Pages, q = op.page PROVE TopRecent(q)
    <3>1. /\ block'[q][op.blk] = Torn
          /\ \A j \in Blocks : op.blk < j => block'[q][j] = Erased
      BY <1>7, <2>2 DEF WriteFlag, BlockInv
    <3>2. PICK b \in Blocks : /\ b = op.blk /\ block'[q][b] = Torn
                              /\ \A j \in Blocks : b < j => block'[q][j] = Erased
      BY <1>b, <3>1
    <3>3. \A i \in Blocks : IsTop(q, i)' => i = b
      BY <3>2, WrittenIsTop
    <3> QED
      BY <3>2, <3>3 DEF Recent
  <2> QED
    BY <2>1, <2>2
<1>8. CASE WriteRest \/ EraseOldPage
  <2>1. /\ op.val \in Values
        /\ header'[op.page] = "valid"
        /\ pc' = "idle" => header'[1 - op.page] # "valid"
        /\ block'[op.page][op.blk] = op.val
        /\ \A j \in Blocks : op.blk < j => block'[op.page][j] = Erased
    BY <1>8, AfterWriteRest
  <2>2. ASSUME NEW q \in Pages, q = op.page PROVE TopRecent(q)
    <3>1. PICK b \in Blocks : /\ b = op.blk /\ block'[q][b] = op.val
                              /\ \A j \in Blocks : b < j => block'[q][j] = Erased
      BY <1>b, <2>1, <2>2
    <3>2. \A i \in Blocks : IsTop(q, i)' => i = b
      BY <2>1, <3>1, WrittenIsTop
    <3>3. op.val \in Recent'
      BY <1>8 DEF WriteRest, EraseOldPage, Settle, Recent
    <3> QED
      BY <3>1, <3>2, <3>3
  <2>3. ASSUME NEW q \in Pages, q # op.page PROVE TopRecent(q)
    <3>1. CASE pc' = "idle"
      BY <1>b, <2>1, <2>3, <3>1
    <3>2. CASE pc' # "idle"
      BY <1>a, <1>8, <2>3, <3>2, SameTop DEF WriteRest, EraseOldPage, Settle, Recent, TypeOK
    <3> QED
      BY <3>1, <3>2
  <2> QED
    BY <2>2, <2>3
<1>9. CASE flash_set_empty
  BY <1>1, <1>9 DEF flash_set_empty, Recent
<1>10. CASE EmptyPage0
  BY <1>a, <1>2, <1>10, EraseEffect DEF EmptyPage0, Recent, Pages
<1>11. CASE EmptyPage1
  <2>1. header'[0] # "valid" /\ header'[1] # "valid"
    BY <1>a, <1>11, EraseEffect DEF EmptyPage1, Erased1, OpInv, Pages
  <2> QED
    BY <2>1 DEF Pages
<1>12. ASSUME CutShort PROVE Recent \subseteq Recent' \cup {NoValue}
  BY <1>12 DEF CutShort, Recent, NoOp
<1>13. CASE PowerFail
  BY <1>1, <1>12, <1>13 DEF PowerFail
<1>14. ASSUME NEW p \in Pages, PowerFailInErase(p) PROVE \A q \in Pages : TopRecent(q)
  BY <1>a, <1>2, <1>12, <1>14, AtomicEraseEffect DEF PowerFailInErase
<1> QED
  BY <1>3, <1>4, <1>5, <1>6, <1>7, <1>8, <1>9, <1>10, <1>11, <1>13, <1>14 DEF Next

-------------------------------------------------------------------------------
(***************************************************************************)
(* The theorems.                                                           *)
(***************************************************************************)

LEMMA InvInit == Init => IInv
<1> SUFFICES ASSUME Init PROVE IInv
  OBVIOUS
<1>1. TypeOK /\ ValueInv
  BY TypeInit
<1>2. OpInv
  BY DEF Init, OpInv, NoOp, NoPage, Writing, Appending
<1>3. \A p \in Pages : header[p] # "valid"
  BY DEF Init
<1>4. BlockInv
  BY MarksAssumption DEF Init, BlockInv, WrittenUpwards, Marks
<1>5. NoneValid /\ ~BothValid /\ flash_read = NoValue
  BY <1>3 DEF NoneValid, BothValid, Pages, flash_read
<1> QED
  BY <1>1, <1>2, <1>3, <1>4, <1>5
  DEF Init, IInv, PhaseInv, LastInv, ValueKept, OnePageValid, WrittenIsRead, TopInv

LEMMA InvStep == AtomicErase /\ IInv /\ [Next]_vars => IInv'
<1> SUFFICES ASSUME AtomicErase, IInv, [Next]_vars PROVE IInv'
  OBVIOUS
<1>1. CASE Next
  <2>1. TypeOK' /\ ValueInv'
    BY <1>1, TypeStep DEF IInv
  <2>2. OpInv' /\ BlockInv' /\ PhaseInv'
    BY <1>1, OpStep, BlockStep, PhaseStep DEF IInv
  <2>3. WrittenIsRead' /\ OnePageValid' /\ LastInv'
    BY <1>1, <2>2, ReadStep, ValidStep, LastStep
  <2>4. ValueKept' /\ TopInv'
    BY <1>1, <2>1, <2>2, <2>3, KeepStep, TopStep
  <2> QED
    BY <2>1, <2>2, <2>3, <2>4 DEF IInv
<1>2. CASE UNCHANGED vars
  BY <1>2 DEF vars, flash, IInv, TypeOK, ValueInv, OpInv, BlockInv, PhaseInv, LastInv, ValueKept,
     OnePageValid, WrittenIsRead, TopInv, IsTop, WrittenUpwards, flash_read, FlaggedBlocks,
     BothValid, NoneValid, PageInUse
<1> QED
  BY <1>1, <1>2

LEMMA Invariance ==
  ASSUME AtomicErase
  PROVE  Spec => []IInv
<1>1. IInv /\ [Next]_vars => IInv'
  BY InvStep
<1> QED
  BY <1>1, InvInit, PTL DEF Spec

(* On a device that erases a page all or nothing, flash_read returns what  *)
(* the last successful flash_write wrote, whatever calls were cut short    *)
(* before it and however many blocks a page has.                           *)
THEOREM WrittenIsReadBack ==
  ASSUME AtomicErase
  PROVE  Spec => []WrittenIsRead
<1>1. IInv => WrittenIsRead
  BY DEF IInv
<1> QED
  BY <1>1, Invariance, PTL

(* drv_flash.h's "only one page valid per time", as far as it holds.       *)
THEOREM OnePageIsValid ==
  ASSUME AtomicErase
  PROVE  Spec => []OnePageValid
<1>1. IInv => OnePageValid
  BY DEF IInv
<1> QED
  BY <1>1, Invariance, PTL

(* flash_read never returns a value older than the last one written.       *)
THEOREM OnlyRecentIsRead ==
  ASSUME AtomicErase
  PROVE  Spec => []ReadIsRecent
<1>1. IInv => ReadIsRecent
  <2> SUFFICES ASSUME IInv, pc = "idle", flash_read # NoValue
               PROVE  flash_read \in {last} \cup maybe
    BY DEF ReadIsRecent
  <2>1. /\ PageInUse \in Pages /\ header[PageInUse] = "valid"
        /\ header[1 - PageInUse] # "valid" /\ FlaggedBlocks(PageInUse) # {}
    BY DEF flash_read, PageInUse, BothValid, NoneValid, Pages
  <2>2. PICK i \in Blocks : IsTop(PageInUse, i)
    BY <2>1, LastOfIsGreatest DEF IsTop, FlaggedBlocks
  <2>3. block[PageInUse][i] \in {last, Torn, op.val} \cup maybe
    BY <2>1, <2>2 DEF IInv, TopInv
  <2>4. flash_read = block[PageInUse][i] /\ flash_read # Torn
    BY <2>1, <2>2, ReadsTheTop DEF TopIsRead
  <2>5. op.val = NoValue
    BY DEF IInv, OpInv, Writing, Appending, NoOp
  <2> QED
    BY <2>3, <2>4, <2>5
<1> QED
  BY <1>1, Invariance, PTL

(* From a completed write to the second write begun after it, power        *)
(* failures included, the value written or its successor is in the pages.  *)
THEOREM ValueIsKept ==
  ASSUME AtomicErase
  PROVE  Spec => []ValueKept
<1>1. IInv => ValueKept
  BY DEF IInv
<1> QED
  BY <1>1, Invariance, PTL

(* flash_find_block's upward search relies on it: blocks fill upwards.     *)
THEOREM BlocksFillUpwards ==
  ASSUME AtomicErase
  PROVE  Spec => []WrittenUpwards
<1>1. IInv => WrittenUpwards
  BY DEF IInv, BlockInv
<1> QED
  BY <1>1, Invariance, PTL
=============================================================================
