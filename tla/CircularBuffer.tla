---------------------------- MODULE CircularBuffer ----------------------------
(***************************************************************************)
(* The byte ring of UsrParts/logger/circular_buffer.h: a record with the   *)
(* fields of the C struct and one operator per macro.  `data' is a         *)
(* function on 0 .. size - 1; what the bytes are is left to the user.      *)
(*                                                                         *)
(* The macros are not atomic in the program.  An operator here is the      *)
(* macro executed without interruption; a user whose macro can be          *)
(* interrupted takes it apart into the reads and writes of the fields.     *)
(***************************************************************************)
EXTENDS Integers, Sequences

(* CircularBufferInit: an empty ring over the storage d. *)
CircularBufferInit(s, d) ==
  [size |-> s, currentSize |-> 0, head |-> 0, tail |-> 0, data |-> d]

CircularBufferIsEmpty(cb) == cb.currentSize = 0

(* `if (++index == size) index = 0' of both cursors. *)
NextSlot(cb, i) == IF i + 1 = cb.size THEN 0 ELSE i + 1

(* CircularBufferPut: a byte that finds the ring full is dropped in silence. *)
CircularBufferPut(cb, c) ==
  IF cb.currentSize < cb.size
    THEN [cb EXCEPT !.data        = [cb.data EXCEPT ![cb.head] = c],
                    !.head        = NextSlot(cb, cb.head),
                    !.currentSize = cb.currentSize + 1]
    ELSE cb

(* CircularBufferGet is a value and a new ring: the byte it reads ... *)
CircularBufferPeek(cb) == cb.data[cb.tail]

(* ... and the ring it leaves. *)
CircularBufferGet(cb) ==
  IF cb.currentSize # 0
    THEN [cb EXCEPT !.tail        = NextSlot(cb, cb.tail),
                    !.currentSize = cb.currentSize - 1]
    ELSE cb

(***************************************************************************)
(* The slot k places after slot i, for k in 0 .. size.                     *)
(***************************************************************************)
SlotAfter(cb, i, k) == IF i + k < cb.size THEN i + k ELSE i + k - cb.size

(* How many places after the head slot s comes. *)
PlaceOf(cb, s) == IF s >= cb.head THEN s - cb.head ELSE s - cb.head + cb.size

(***************************************************************************)
(* The loop `for (index = 0; index < size; index++) CircularBufferPut(...)'*)
(* of logger_put_tx_buffer on a block that is known to fit, in closed form:*)
(* byte k of the block goes k - 1 places after the head.                   *)
(***************************************************************************)
PutBlock(cb, block) ==
  [cb EXCEPT !.data        = [s \in DOMAIN cb.data |->
                                IF PlaceOf(cb, s) < Len(block)
                                  THEN block[PlaceOf(cb, s) + 1]
                                  ELSE cb.data[s]],
             !.head        = SlotAfter(cb, cb.head, Len(block)),
             !.currentSize = cb.currentSize + Len(block)]

-------------------------------------------------------------------------------

(* The unread bytes of the ring, oldest first. *)
Contents(cb) ==
  [k \in 1 .. cb.currentSize |-> cb.data[SlotAfter(cb, cb.tail, k - 1)]]

(***************************************************************************)
(* A well-formed ring over the bytes Byte: the cursors name slots and the  *)
(* head is currentSize places after the tail.                              *)
(***************************************************************************)
WellFormed(cb, Byte) ==
  /\ cb = [size |-> cb.size, currentSize |-> cb.currentSize,
           head |-> cb.head, tail |-> cb.tail, data |-> cb.data]
  /\ cb.size \in Nat \ {0}
  /\ cb.currentSize \in 0 .. cb.size
  /\ cb.head \in 0 .. cb.size - 1
  /\ cb.tail \in 0 .. cb.size - 1
  /\ cb.data \in [0 .. cb.size - 1 -> Byte]
  /\ cb.head = SlotAfter(cb, cb.tail, cb.currentSize)
=============================================================================
