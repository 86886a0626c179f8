----------------------------- MODULE Logger_proofs -----------------------------
(***************************************************************************)
(* The safety properties of Logger, proved for any tasks, any line         *)
(* lengths, and rings of any size.                                         *)
(*                                                                         *)
(* Type correctness and the receive ring (RxInOrder, RxCountBehind) hold   *)
(* however the logger is started.  What needs the mutex is proved of a     *)
(* system whose multi-thread flag is set before the tasks run              *)
(* (AlwaysLocked): LoggerUnguarded.cfg refutes it of one that never sets   *)
(* it, as product_config.h builds.                                         *)
(***************************************************************************)
EXTENDS Logger, SequenceTheorems, TLAPS

-------------------------------------------------------------------------------
(***************************************************************************)
(* What the macros of circular_buffer.h do to the queue of unread bytes,   *)
(* for a ring of any size: puts append, a get removes the head.            *)
(***************************************************************************)

(* A fresh ring is well formed and empty. *)
LEMMA InitIsEmpty ==
  ASSUME NEW Byte, NEW s \in Nat \ {0}, NEW d \in [0 .. s - 1 -> Byte]
  PROVE  /\ WellFormed(CircularBufferInit(s, d), Byte)
         /\ Contents(CircularBufferInit(s, d)) = << >>
  BY DEF WellFormed, CircularBufferInit, Contents, SlotAfter

(* The cursors and the storage of a well-formed ring. *)
LEMMA Fields ==
  ASSUME NEW Byte, NEW cb, WellFormed(cb, Byte)
  PROVE  /\ cb.size \in Nat \ {0} /\ cb.currentSize \in 0 .. cb.size
         /\ cb.head \in 0 .. cb.size - 1 /\ cb.tail \in 0 .. cb.size - 1
         /\ cb.data \in [0 .. cb.size - 1 -> Byte]
         /\ cb.head = SlotAfter(cb, cb.tail, cb.currentSize)
  BY DEF WellFormed

(* Going k places round the ring. *)
LEMMA Slots ==
  ASSUME NEW cb, cb.size \in Nat \ {0}, NEW i \in 0 .. cb.size - 1, NEW k \in 0 .. cb.size
  PROVE  SlotAfter(cb, i, k) \in 0 .. cb.size - 1
  BY DEF SlotAfter

LEMMA SlotsAdd ==
  ASSUME NEW cb, cb.size \in Nat \ {0}, NEW i \in 0 .. cb.size - 1,
         NEW k \in Nat, NEW m \in Nat, k + m <= cb.size
  PROVE  SlotAfter(cb, SlotAfter(cb, i, k), m) = SlotAfter(cb, i, k + m)
  BY DEF SlotAfter

LEMMA NextIsOneAfter ==
  ASSUME NEW cb, cb.size \in Nat \ {0}, NEW i \in 0 .. cb.size - 1
  PROVE  NextSlot(cb, i) = SlotAfter(cb, i, 1)
  BY DEF SlotAfter, NextSlot

(* The slots before the head are full, those from it on are where a block  *)
(* is put.                                                                 *)
LEMMA Places ==
  ASSUME NEW cb, cb.size \in Nat \ {0}, NEW n \in 0 .. cb.size,
         NEW t \in 0 .. cb.size - 1, cb.head = SlotAfter(cb, t, n), NEW k \in 0 .. cb.size - 1
  PROVE  PlaceOf(cb, SlotAfter(cb, t, k)) = IF k < n THEN k - n + cb.size ELSE k - n
  BY DEF SlotAfter, PlaceOf

(* The queue is a sequence of as many bytes as the count says. *)
LEMMA ContentsIsSeq ==
  ASSUME NEW Byte, NEW cb, WellFormed(cb, Byte)
  PROVE  /\ Contents(cb) \in Seq(Byte)
         /\ Len(Contents(cb)) = cb.currentSize
         /\ \A k \in 1 .. cb.currentSize : Contents(cb)[k] = cb.data[SlotAfter(cb, cb.tail, k - 1)]
<1>1. ASSUME NEW k \in 1 .. cb.currentSize
      PROVE  cb.data[SlotAfter(cb, cb.tail, k - 1)] \in Byte
  <2>1. k - 1 \in 0 .. cb.size
    BY Fields
  <2>2. SlotAfter(cb, cb.tail, k - 1) \in 0 .. cb.size - 1
    BY <2>1, Fields, Slots
  <2> QED
    BY <2>2, Fields
<1>2. cb.currentSize \in Nat
  BY Fields
<1>3. Contents(cb) \in [1 .. cb.currentSize -> Byte]
  BY <1>1 DEF Contents
<1>4. Contents(cb) \in Seq(Byte) /\ DOMAIN Contents(cb) = 1 .. cb.currentSize
  BY <1>2, <1>3
<1>5. Len(Contents(cb)) = cb.currentSize
  BY <1>2, <1>4, LenProperties
<1> QED
  BY <1>4, <1>5 DEF Contents

(* A block that fits is appended to the queue. *)
LEMMA PutBlockAppends ==
  ASSUME NEW Byte, NEW cb, WellFormed(cb, Byte),
         NEW blk \in Seq(Byte), Len(blk) <= cb.size - cb.currentSize
  PROVE  /\ WellFormed(PutBlock(cb, blk), Byte)
         /\ Contents(PutBlock(cb, blk)) = Contents(cb) \o blk
         /\ PutBlock(cb, blk).size = cb.size
         /\ PutBlock(cb, blk).currentSize = cb.currentSize + Len(blk)
<1> DEFINE new == PutBlock(cb, blk)
           n   == cb.currentSize
<1>a. /\ Len(blk) \in Nat /\ Len(blk) <= cb.size - n
      /\ cb.size \in Nat \ {0} /\ n \in 0 .. cb.size
      /\ cb.head \in 0 .. cb.size - 1 /\ cb.tail \in 0 .. cb.size - 1
      /\ cb.head = SlotAfter(cb, cb.tail, n)
  BY Fields
<1>b. /\ new.size = cb.size /\ new.tail = cb.tail
      /\ new.currentSize = n + Len(blk)
      /\ new.head = SlotAfter(cb, cb.head, Len(blk))
  <2>1. cb = [size |-> cb.size, currentSize |-> cb.currentSize,
              head |-> cb.head, tail |-> cb.tail, data |-> cb.data]
    BY DEF WellFormed
  <2> QED
    BY <2>1 DEF PutBlock
<1>c. new = [size |-> new.size, currentSize |-> new.currentSize,
             head |-> new.head, tail |-> new.tail, data |-> new.data]
  <2> DEFINE d == [s \in DOMAIN cb.data |-> IF PlaceOf(cb, s) < Len(blk)
                                              THEN blk[PlaceOf(cb, s) + 1] ELSE cb.data[s]]
             h == SlotAfter(cb, cb.head, Len(blk))
             c == cb.currentSize + Len(blk)
  <2>1. new = [cb EXCEPT !.data = d, !.head = h, !.currentSize = c]
    BY DEF PutBlock
  <2> HIDE DEF d, h, c, new
  <2>2. cb = [size |-> cb.size, currentSize |-> cb.currentSize,
              head |-> cb.head, tail |-> cb.tail, data |-> cb.data]
    BY DEF WellFormed
  <2> QED
    BY <2>1, <2>2
<1>d. \A s \in 0 .. cb.size - 1 :
        new.data[s] = IF PlaceOf(cb, s) < Len(blk) THEN blk[PlaceOf(cb, s) + 1] ELSE cb.data[s]
  <2>1. cb.data \in [0 .. cb.size - 1 -> Byte]
    BY Fields
  <2>2. DOMAIN cb.data = 0 .. cb.size - 1
    BY <2>1
  <2> QED
    BY <2>2 DEF PutBlock, WellFormed
<1>e. new.data \in [0 .. cb.size - 1 -> Byte]
  <2>1. cb.data \in [0 .. cb.size - 1 -> Byte]
    BY Fields
  <2>2. ASSUME NEW s \in 0 .. cb.size - 1, PlaceOf(cb, s) < Len(blk)
        PROVE  blk[PlaceOf(cb, s) + 1] \in Byte
    <3>1. PlaceOf(cb, s) + 1 \in 1 .. Len(blk)
      BY <1>a, <2>2 DEF PlaceOf
    <3> QED
      BY <3>1, ElementOfSeq
  <2>3. new.data = [s \in 0 .. cb.size - 1 |->
                      IF PlaceOf(cb, s) < Len(blk) THEN blk[PlaceOf(cb, s) + 1] ELSE cb.data[s]]
    BY <2>1 DEF PutBlock, WellFormed
  <2> QED
    BY <2>1, <2>2, <2>3
<1> HIDE DEF new
<1>1. WellFormed(new, Byte)
  <2>1. new.head \in 0 .. cb.size - 1
    <3>1. Len(blk) \in 0 .. cb.size
      BY <1>a
    <3> QED
      BY <1>a, <1>b, <3>1, Slots
  <2>2. new.head = SlotAfter(cb, cb.tail, n + Len(blk))
    BY <1>a, <1>b, SlotsAdd
  <2>3. SlotAfter(new, new.tail, new.currentSize) = SlotAfter(cb, cb.tail, n + Len(blk))
    BY <1>b DEF SlotAfter
  <2>4. new.currentSize \in 0 .. new.size
    BY <1>a, <1>b
  <2> QED
    BY <1>a, <1>b, <1>c, <1>e, <2>1, <2>2, <2>3, <2>4 DEF WellFormed
<1>2. Contents(new) = Contents(cb) \o blk
  <2>1. /\ Contents(new) \in Seq(Byte) /\ Len(Contents(new)) = new.currentSize
        /\ \A k \in 1 .. new.currentSize : Contents(new)[k] = new.data[SlotAfter(new, new.tail, k - 1)]
    BY <1>1, ContentsIsSeq
  <2>2. /\ Contents(cb) \in Seq(Byte) /\ Len(Contents(cb)) = n
        /\ \A k \in 1 .. n : Contents(cb)[k] = cb.data[SlotAfter(cb, cb.tail, k - 1)]
    BY ContentsIsSeq
  <2>3. /\ Contents(cb) \o blk \in Seq(Byte)
        /\ Len(Contents(cb) \o blk) = n + Len(blk)
        /\ \A k \in 1 .. n + Len(blk) : (Contents(cb) \o blk)[k] =
             IF k <= n THEN Contents(cb)[k] ELSE blk[k - n]
    <3>1. /\ Contents(cb) \o blk \in Seq(Byte)
          /\ Len(Contents(cb) \o blk) = Len(Contents(cb)) + Len(blk)
          /\ \A k \in 1 .. Len(Contents(cb)) + Len(blk) : (Contents(cb) \o blk)[k] =
               IF k <= Len(Contents(cb)) THEN Contents(cb)[k] ELSE blk[k - Len(Contents(cb))]
      BY <2>2, ConcatProperties
    <3> QED
      BY <2>2, <3>1
  <2>4. ASSUME NEW k \in 1 .. n + Len(blk)
        PROVE  Contents(new)[k] = (Contents(cb) \o blk)[k]
    <3> DEFINE s == SlotAfter(cb, cb.tail, k - 1)
    <3>0. k - 1 \in 0 .. cb.size - 1 /\ k - 1 \in 0 .. cb.size
      BY <1>a
    <3>1. s \in 0 .. cb.size - 1
      BY <1>a, <3>0, Slots
    <3>2. SlotAfter(new, new.tail, k - 1) = s
      BY <1>b DEF SlotAfter
    <3>3. PlaceOf(cb, s) = IF k - 1 < n THEN k - 1 - n + cb.size ELSE k - 1 - n
      BY <1>a, <3>0, Places
    <3> HIDE DEF s
    <3>4. Contents(new)[k] = IF PlaceOf(cb, s) < Len(blk) THEN blk[PlaceOf(cb, s) + 1] ELSE cb.data[s]
      BY <1>b, <1>d, <2>1, <3>1, <3>2
    <3>5. CASE k <= n
      <4>1. PlaceOf(cb, s) = k - 1 - n + cb.size /\ ~(k - 1 - n + cb.size < Len(blk))
        BY <1>a, <3>3, <3>5
      <4>2. Contents(cb)[k] = cb.data[s]
        BY <1>a, <2>2, <3>5 DEF s
      <4> QED
        BY <2>3, <3>4, <3>5, <4>1, <4>2
    <3>6. CASE k > n
      <4>1. PlaceOf(cb, s) = k - 1 - n /\ k - 1 - n < Len(blk) /\ k - 1 - n + 1 = k - n
        BY <1>a, <3>3, <3>6
      <4>2. ~(k <= n)
        BY <1>a, <3>6
      <4>3. (Contents(cb) \o blk)[k] = blk[k - n]
        BY <2>3, <4>2
      <4> QED
        BY <3>4, <4>1, <4>3
    <3>7. k <= n \/ k > n
      BY <1>a
    <3> QED
      BY <3>5, <3>6, <3>7
  <2> QED
    BY <1>b, <2>1, <2>3, <2>4, SeqEqual
<1> QED
  BY <1>1, <1>2, <1>b DEF new

(* CircularBufferPut with room is the put of a block of one byte. *)
LEMMA PutAppends ==
  ASSUME NEW Byte, NEW cb, WellFormed(cb, Byte), NEW c \in Byte, cb.currentSize < cb.size
  PROVE  /\ WellFormed(CircularBufferPut(cb, c), Byte)
         /\ Contents(CircularBufferPut(cb, c)) = Contents(cb) \o <<c>>
         /\ CircularBufferPut(cb, c).size = cb.size
<1>1. CircularBufferPut(cb, c) = PutBlock(cb, <<c>>)
  <2>1. [cb.data EXCEPT ![cb.head] = c] =
          [s \in DOMAIN cb.data |-> IF PlaceOf(cb, s) < 1 THEN <<c>>[PlaceOf(cb, s) + 1] ELSE cb.data[s]]
    <3>1. \A s \in 0 .. cb.size - 1 : /\ PlaceOf(cb, s) < 1 <=> s = cb.head
                                      /\ PlaceOf(cb, cb.head) = 0
      BY Fields DEF PlaceOf
    <3> QED
      BY <3>1, Fields
  <2>2. NextSlot(cb, cb.head) = SlotAfter(cb, cb.head, 1)
    BY Fields, NextIsOneAfter
  <2>3. Len(<<c>>) = 1
    OBVIOUS
  <2> QED
    BY <2>1, <2>2, <2>3 DEF CircularBufferPut, PutBlock
<1>2. <<c>> \in Seq(Byte) /\ Len(<<c>>) = 1
  OBVIOUS
<1>3. 1 <= cb.size - cb.currentSize
  BY Fields
<1>4. /\ WellFormed(PutBlock(cb, <<c>>), Byte)
      /\ Contents(PutBlock(cb, <<c>>)) = Contents(cb) \o <<c>>
      /\ PutBlock(cb, <<c>>).size = cb.size
  BY <1>2, <1>3, PutBlockAppends
<1> QED
  BY <1>1, <1>4, Zenon

(* CircularBufferGet takes the head of the queue. *)
LEMMA GetTakesHead ==
  ASSUME NEW Byte, NEW cb, WellFormed(cb, Byte), cb.currentSize # 0
  PROVE  /\ WellFormed(CircularBufferGet(cb), Byte)
         /\ CircularBufferPeek(cb) \in Byte
         /\ Contents(cb) = <<CircularBufferPeek(cb)>> \o Contents(CircularBufferGet(cb))
         /\ CircularBufferGet(cb).size = cb.size
<1> DEFINE new == CircularBufferGet(cb)
           n   == cb.currentSize
<1>a. /\ cb.size \in Nat \ {0} /\ n \in 1 .. cb.size
      /\ cb.head \in 0 .. cb.size - 1 /\ cb.tail \in 0 .. cb.size - 1
      /\ cb.head = SlotAfter(cb, cb.tail, n)
  BY Fields
<1>b. /\ new.size = cb.size /\ new.head = cb.head /\ new.data = cb.data
      /\ new.currentSize = n - 1 /\ new.tail = NextSlot(cb, cb.tail)
  BY DEF WellFormed, CircularBufferGet
<1>c. new = [size |-> new.size, currentSize |-> new.currentSize,
             head |-> new.head, tail |-> new.tail, data |-> new.data]
  BY DEF WellFormed, CircularBufferGet
<1>d. cb.data \in [0 .. cb.size - 1 -> Byte]
  BY Fields
<1> HIDE DEF new
<1>1. new.tail = SlotAfter(cb, cb.tail, 1) /\ new.tail \in 0 .. cb.size - 1
  BY <1>a, <1>b, NextIsOneAfter, Slots
<1>2. ASSUME NEW k \in Nat, k + 1 <= cb.size
      PROVE  SlotAfter(new, new.tail, k) = SlotAfter(cb, cb.tail, k + 1)
  <2>1. SlotAfter(new, new.tail, k) = SlotAfter(cb, new.tail, k)
    BY <1>b DEF SlotAfter
  <2>2. 1 \in Nat /\ 1 + k <= cb.size /\ 1 + k = k + 1
    BY <1>a, <1>2
  <2> QED
    BY <1>1, <1>a, <2>1, <2>2, SlotsAdd
<1>3. WellFormed(new, Byte)
  <2>1. n - 1 \in Nat /\ (n - 1) + 1 = n /\ n <= cb.size
    BY <1>a
  <2>2. new.head = SlotAfter(new, new.tail, new.currentSize)
    BY <1>a, <1>b, <1>2, <2>1
  <2>3. new.currentSize \in 0 .. new.size
    BY <1>a, <1>b
  <2> QED
    BY <1>1, <1>a, <1>b, <1>c, <1>d, <2>2, <2>3 DEF WellFormed
<1>4. CircularBufferPeek(cb) \in Byte
  BY <1>a, <1>d DEF CircularBufferPeek
<1>5. Contents(cb) = <<CircularBufferPeek(cb)>> \o Contents(new)
  <2>1. /\ Contents(new) \in Seq(Byte) /\ Len(Contents(new)) = n - 1
        /\ \A k \in 1 .. n - 1 : Contents(new)[k] = cb.data[SlotAfter(new, new.tail, k - 1)]
    BY <1>3, <1>b, ContentsIsSeq
  <2>2. /\ Contents(cb) \in Seq(Byte) /\ Len(Contents(cb)) = n
        /\ \A k \in 1 .. n : Contents(cb)[k] = cb.data[SlotAfter(cb, cb.tail, k - 1)]
    BY ContentsIsSeq
  <2> DEFINE one == <<CircularBufferPeek(cb)>>
  <2>3. one \in Seq(Byte) /\ Len(one) = 1 /\ one[1] = cb.data[cb.tail]
    BY <1>4 DEF CircularBufferPeek
  <2> HIDE DEF one
  <2>4. /\ one \o Contents(new) \in Seq(Byte)
        /\ Len(one \o Contents(new)) = n
        /\ \A k \in 1 .. n : (one \o Contents(new))[k] = IF k <= 1 THEN one[k] ELSE Contents(new)[k - 1]
    <3>1. /\ one \o Contents(new) \in Seq(Byte)
          /\ Len(one \o Contents(new)) = Len(one) + Len(Contents(new))
          /\ \A k \in 1 .. Len(one) + Len(Contents(new)) : (one \o Contents(new))[k] =
               IF k <= Len(one) THEN one[k] ELSE Contents(new)[k - Len(one)]
      BY <2>1, <2>3, ConcatProperties
    <3>2. 1 + (n - 1) = n
      BY <1>a
    <3> QED
      BY <2>1, <2>3, <3>1, <3>2
  <2>5. ASSUME NEW k \in 1 .. n
        PROVE  Contents(cb)[k] = (one \o Contents(new))[k]
    <3>1. CASE k = 1
      <4>1. SlotAfter(cb, cb.tail, 0) = cb.tail /\ 1 - 1 = 0
        BY <1>a DEF SlotAfter
      <4> QED
        BY <2>2, <2>3, <2>4, <3>1, <4>1
    <3>2. CASE k > 1
      <4>1. /\ k - 1 \in 1 .. n - 1 /\ (k - 1) - 1 \in Nat
            /\ ((k - 1) - 1) + 1 = k - 1 /\ k - 1 <= cb.size /\ ~(k <= 1)
        BY <1>a, <3>2
      <4>2. Contents(new)[k - 1] = cb.data[SlotAfter(cb, cb.tail, k - 1)]
        BY <1>2, <2>1, <4>1
      <4> QED
        BY <2>2, <2>4, <4>1, <4>2
    <3>3. k = 1 \/ k > 1
      BY <1>a
    <3> QED
      BY <3>1, <3>2, <3>3
  <2>6. Contents(cb) = one \o Contents(new)
    BY <2>2, <2>4, <2>5, SeqEqual
  <2> QED
    BY <2>6 DEF one
<1> QED
  BY <1>3, <1>4, <1>5, <1>b DEF new

-------------------------------------------------------------------------------
(***************************************************************************)
(* The invariant of the types and of the receive ring.                     *)
(***************************************************************************)

(* A line that is being logged has a length. *)
Logging == {"wait", "header", "body", "put", "arm", "unlock"}

LenInv == \A t \in Threads : pc[t] \in Logging => len[t] \in LineLens

(* The receive ring holds the unread bytes, from its tail to its head.     *)
RxRingInv ==
  ~lapped => /\ Len(unread) <= RxSize
             /\ rx.head = SlotAfter(rx, rx.tail, Len(unread))

TypeInv == TypeOK /\ LenInv /\ RxCountBehind /\ RxRingInv /\ RxInOrder

-------------------------------------------------------------------------------
(***************************************************************************)
(* The threads' part of TypeOK.                                            *)
(***************************************************************************)

(* Every byte of a line, or of a printf, is a byte of the transmit side.   *)
LEMMA LineBytes ==
  ASSUME NEW t \in Threads, NEW n \in LineLens \cup {1}, NEW i \in 1 .. n
  PROVE  <<t, n, i>> \in TxByte /\ i \in 1 .. LineMax
  BY LinesAssumption DEF TxByte

LEMMA LineLength ==
  ASSUME NEW n \in LineLens
  PROVE  n \in Nat /\ 2 <= n /\ n <= LineMax /\ 1 \in 1 .. n
<1>1. n \in 2 .. LineMax /\ LineMax \in Nat
  BY LinesAssumption
<1> QED
  BY <1>1

LEMMA BlankIsNoByte == Blank \notin TxByte /\ Blank \notin RxByte
  BY DEF Blank, TxByte, RxByte

LEMMA InitTypes == Init => TypeInv
<1> SUFFICES ASSUME Init PROVE TypeInv
  OBVIOUS
<1>1. ThreadsTypeOK /\ LenInv
  BY FlagsAssumption DEF Init, ThreadsTypeOK, LenInv, PcValues, Logging
<1>2. TxTypeOK
  <2>1. WellFormed(tx, TxByte \cup {Blank})
    BY SizesAssumption, InitIsEmpty DEF Init
  <2> QED
    BY <2>1 DEF Init, TxTypeOK
<1>3. RxTypeOK
  <2>1. 0 \in 0 .. RxSize - 1 /\ 0 \in 0 .. CommandMax - 1 /\ 0 \in 0 .. RxMod - 1 /\ 0 \in 0 .. RxSize
    BY SizesAssumption, CommandAssumption DEF RxMod
  <2>2. rx \in [size : {RxSize}, currentSize : 0 .. RxSize, head : 0 .. RxSize - 1,
               tail : 0 .. RxSize - 1, data : [0 .. RxSize - 1 -> RxByte \cup {Blank}]]
    BY <2>1 DEF Init, CircularBufferInit
  <2>3. unread \in Seq(RxByte)
    BY EmptySeq DEF Init
  <2> QED
    BY <2>1, <2>2, <2>3 DEF Init, RxTypeOK
<1>4. RxCountBehind /\ RxRingInv /\ RxInOrder
  BY SizesAssumption, ThreadsAssumption
  DEF Init, RxCountBehind, RxRingInv, RxInOrder, CircularBufferInit, SlotAfter, Threads
<1> QED
  BY <1>1, <1>2, <1>3, <1>4 DEF TypeInv, TypeOK

(* logger_protect, called by a task or by the idle task's command.         *)
LEMMA ProtectTypes ==
  ASSUME ThreadsTypeOK, LenInv, NEW t \in Threads, NEW n \in LineLens, logger_protect(t, n),
         UNCHANGED lineBuf
  PROVE  ThreadsTypeOK' /\ LenInv' /\ pc' = [pc EXCEPT ![t] = pc'[t]] /\ pc'[t] \in {"header", "wait"}
<1>1. PICK p \in {"header", "wait"} : pc' = [pc EXCEPT ![t] = p]
  BY DEF logger_protect
<1>2. mutex' \in Threads \cup {NoThread}
  BY DEF logger_protect, ThreadsTypeOK
<1>3. len' = [len EXCEPT ![t] = n] /\ UNCHANGED multiThread
  BY DEF logger_protect
<1> QED
  BY <1>1, <1>2, <1>3 DEF ThreadsTypeOK, LenInv, PcValues, Logging

(* What a thread does with the line it logs.                               *)
LEMMA ProceedTypes ==
  ASSUME ThreadsTypeOK, LenInv, NEW t \in Threads, Proceed(t)
  PROVE  ThreadsTypeOK' /\ LenInv'
<1> USE DEF ThreadsTypeOK, LenInv, PcValues, Logging
<1>1. CASE ProtectGranted(t)
  BY <1>1 DEF ProtectGranted
<1>2. CASE ProtectTimeout(t)
  BY <1>2 DEF ProtectTimeout, mtxVars
<1>3. CASE FormatHeader(t)
  <2>1. <<t, len[t], 1>> \in TxByte
    <3>1. len[t] \in LineLens
      BY <1>3 DEF FormatHeader
    <3>2. 1 \in 1 .. len[t]
      BY <3>1, LineLength
    <3> QED
      BY <3>1, <3>2, LineBytes
  <2> QED
    BY <1>3, <2>1 DEF FormatHeader, mtxVars
<1>4. CASE FormatBody(t)
  <2>1. \A i \in 2 .. len[t] : <<t, len[t], i>> \in TxByte
    <3>1. len[t] \in LineLens /\ \A i \in 2 .. len[t] : i \in 1 .. len[t]
      BY <1>4, LinesAssumption DEF FormatBody
    <3> QED
      BY <3>1, LineBytes
  <2>2. lineBuf' \in [1 .. LineMax -> TxByte \cup {Blank}]
    BY <1>4, <2>1 DEF FormatBody
  <2>3. PICK next \in {"put", "unlock"} : pc' = [pc EXCEPT ![t] = next]
    BY <1>4 DEF FormatBody
  <2> QED
    BY <1>4, <2>2, <2>3 DEF FormatBody, mtxVars
<1>5. CASE PutLine(t)
  <2>1. PICK next \in {"arm", "unlock"} : pc' = [pc EXCEPT ![t] = next]
    BY <1>5 DEF PutLine
  <2> QED
    BY <1>5, <2>1 DEF PutLine, mtxVars
<1>6. CASE EnableTransmit(t)
  <2>1. PICK next \in {"run", "unlock"} :
          pc' = [pc EXCEPT ![t] = next] /\ (next = "unlock" => pc[t] = "arm")
    BY <1>6 DEF EnableTransmit
  <2> QED
    BY <1>6, <2>1 DEF EnableTransmit, mtxVars
<1>7. CASE logger_unprotect(t)
  <2>1. CASE pc' = [pc EXCEPT ![t] = "halted"] /\ UNCHANGED <<mutex, len>>
    BY <1>7, <2>1 DEF logger_unprotect
  <2>2. CASE /\ mutex' = IF multiThread THEN NoThread ELSE mutex
             /\ pc' = [pc EXCEPT ![t] = "run"]
             /\ len' = [len EXCEPT ![t] = 0]
    BY <1>7, <2>2 DEF logger_unprotect
  <2> QED
    BY <1>7, <2>1, <2>2 DEF logger_unprotect
<1> QED
  BY <1>1, <1>2, <1>3, <1>4, <1>5, <1>6, <1>7 DEF Proceed

(* Only the other steps touch neither the threads' lines nor their mutex.  *)
LEMMA ThreadsStep ==
  ASSUME ThreadsTypeOK, LenInv, Next
  PROVE  ThreadsTypeOK' /\ LenInv'
<1>0. Idle \in Threads
  BY DEF Threads
<1>1. ASSUME NEW t \in Threads, PrintLog(t) PROVE ThreadsTypeOK' /\ LenInv'
  BY <1>1, ProtectTypes DEF PrintLog
<1>2. ASSUME NEW t \in Threads, PutChar(t) PROVE ThreadsTypeOK' /\ LenInv'
  BY <1>2 DEF PutChar, ThreadsTypeOK, LenInv, PcValues, Logging, mtxVars
<1>3. ASSUME NEW t \in Threads, Proceed(t) PROVE ThreadsTypeOK' /\ LenInv'
  BY <1>3, ProceedTypes
<1>4. ASSUME NEW p \in {"run", "rxload", "rxstore", "rxtake"}, pc' = [pc EXCEPT ![Idle] = p],
             UNCHANGED <<mtxVars, len, lineBuf>>
      PROVE  ThreadsTypeOK' /\ LenInv'
  BY <1>4, <1>0 DEF ThreadsTypeOK, LenInv, PcValues, Logging, mtxVars
<1>5. CASE IdleTest \/ IdleLoad \/ IdleStore
  BY <1>4, <1>5 DEF IdleTest, IdleLoad, IdleStore
<1>6. CASE IdleTake
  <2>1. CASE pc' = [pc EXCEPT ![Idle] = "run"] /\ UNCHANGED <<mtxVars, len>>
    BY <1>4, <1>6, <2>1 DEF IdleTake
  <2>2. CASE \E n \in LineLens : logger_protect(Idle, n)
    BY <1>0, <1>6, <2>2, ProtectTypes DEF IdleTake
  <2> QED
    BY <1>6, <2>1, <2>2 DEF IdleTake, cmd_process
<1>7. CASE logger_set_multi_thread_run
  BY <1>7 DEF logger_set_multi_thread_run, ThreadsTypeOK, LenInv
<1>8. CASE USART1_IRQHandler \/ UartShiftOut \/ UartReceive
  BY <1>8 DEF USART1_IRQHandler, UartShiftOut, UartReceive, ThreadsTypeOK, LenInv, mtxVars
<1> QED
  BY <1>1, <1>2, <1>3, <1>5, <1>6, <1>7, <1>8 DEF Next, IdleHook

-------------------------------------------------------------------------------
(***************************************************************************)
(* The transmit side.                                                      *)
(***************************************************************************)

TxData == TxByte \cup {Blank}

(* The bytes of the shared buffer as a block for the ring. *)
LEMMA BufferedLineIsBlock ==
  ASSUME ThreadsTypeOK, LenInv, NEW t \in Threads, pc[t] = "put"
  PROVE  BufferedLine(t) \in Seq(TxData) /\ Len(BufferedLine(t)) = len[t] /\ len[t] \in LineLens
<1>1. len[t] \in LineLens
  BY DEF LenInv, Logging
<1>2. len[t] \in Nat /\ len[t] <= LineMax
  BY <1>1, LineLength
<1>3. \A i \in 1 .. len[t] : lineBuf[i] \in TxData
  BY <1>2, LinesAssumption DEF ThreadsTypeOK, TxData
<1>4. BufferedLine(t) \in [1 .. len[t] -> TxData]
  BY <1>3 DEF BufferedLine
<1>5. BufferedLine(t) \in Seq(TxData) /\ DOMAIN BufferedLine(t) = 1 .. len[t]
  BY <1>2, <1>4
<1> QED
  BY <1>1, <1>2, <1>5, LenProperties

(* What the steps do to the queue of bytes in the ring. *)
LEMMA PutLineEffect ==
  ASSUME ThreadsTypeOK, LenInv, TxTypeOK, NEW t \in Threads, PutLine(t)
  PROVE  /\ TxTypeOK'
         /\ \/ Contents(tx)' = Contents(tx) \o BufferedLine(t) /\ pc'[t] = "arm"
            \/ UNCHANGED tx
<1>1. /\ BufferedLine(t) \in Seq(TxData) /\ Len(BufferedLine(t)) = len[t]
      /\ WellFormed(tx, TxData)
  BY BufferedLineIsBlock DEF PutLine, TxTypeOK, TxData
<1>2. CASE len[t] <= tx.size - tx.currentSize
  <2>1. tx' = PutBlock(tx, BufferedLine(t)) /\ pc'[t] = "arm"
    BY <1>2 DEF PutLine, ThreadsTypeOK
  <2>2. /\ WellFormed(PutBlock(tx, BufferedLine(t)), TxData)
        /\ Contents(PutBlock(tx, BufferedLine(t))) = Contents(tx) \o BufferedLine(t)
    BY <1>1, <1>2, PutBlockAppends
  <2>3. Contents(tx)' = Contents(tx')
    BY DEF Contents, SlotAfter
  <2>4. TxTypeOK'
    BY <2>1, <2>2 DEF TxTypeOK, TxData, PutLine
  <2> QED
    BY <2>1, <2>2, <2>3, <2>4
<1>3. CASE ~(len[t] <= tx.size - tx.currentSize)
  BY <1>3 DEF PutLine, TxTypeOK
<1> QED
  BY <1>2, <1>3

LEMMA PutCharEffect ==
  ASSUME TxTypeOK, NEW t \in Threads, PutChar(t)
  PROVE  /\ TxTypeOK'
         /\ \/ Contents(tx)' = Contents(tx) \o <<<<t, 1, 1>>>>
            \/ UNCHANGED tx
<1>1. <<t, 1, 1>> \in TxData /\ WellFormed(tx, TxData)
  BY LineBytes DEF TxTypeOK, TxData
<1>2. CASE tx.currentSize < tx.size
  <2>1. /\ WellFormed(CircularBufferPut(tx, <<t, 1, 1>>), TxData)
        /\ Contents(CircularBufferPut(tx, <<t, 1, 1>>)) = Contents(tx) \o <<<<t, 1, 1>>>>
    BY <1>1, <1>2, PutAppends
  <2>2. Contents(tx)' = Contents(tx')
    BY DEF Contents, SlotAfter
  <2> QED
    BY <2>1, <2>2 DEF PutChar, TxTypeOK, TxData
<1>3. CASE ~(tx.currentSize < tx.size)
  BY <1>3 DEF PutChar, CircularBufferPut, TxTypeOK
<1> QED
  BY <1>2, <1>3

LEMMA TransmitEffect ==
  ASSUME TxTypeOK, TransmitByte
  PROVE  /\ TxTypeOK'
         /\ \/ /\ dr = Blank /\ tx.currentSize # 0 /\ UNCHANGED txie
               /\ Contents(tx) = <<dr'>> \o Contents(tx)'
            \/ UNCHANGED <<tx, dr>> /\ (txie' = txie \/ tx.currentSize = 0)
<1>1. WellFormed(tx, TxData)
  BY DEF TxTypeOK, TxData
<1>2. CASE dr = Blank /\ txie /\ ~CircularBufferIsEmpty(tx)
  <2>1. /\ tx.currentSize # 0 /\ dr' = CircularBufferPeek(tx) /\ tx' = CircularBufferGet(tx)
        /\ UNCHANGED txie
    BY <1>2 DEF TransmitByte, CircularBufferIsEmpty
  <2>2. /\ WellFormed(CircularBufferGet(tx), TxData) /\ CircularBufferPeek(tx) \in TxData
        /\ Contents(tx) = <<CircularBufferPeek(tx)>> \o Contents(CircularBufferGet(tx))
    BY <1>1, <2>1, GetTakesHead
  <2>3. Contents(tx)' = Contents(tx')
    BY DEF Contents, SlotAfter
  <2> QED
    BY <1>2, <2>1, <2>2, <2>3 DEF TxTypeOK, TxData
<1>3. CASE ~(dr = Blank /\ txie /\ ~CircularBufferIsEmpty(tx))
  BY <1>3 DEF TransmitByte, TxTypeOK, CircularBufferIsEmpty, txVars
<1> QED
  BY <1>2, <1>3

LEMMA TxStep ==
  ASSUME ThreadsTypeOK, LenInv, TxTypeOK, Next
  PROVE  TxTypeOK'
<1>1. ASSUME UNCHANGED txVars PROVE TxTypeOK'
  BY <1>1 DEF txVars, TxTypeOK
<1>2. ASSUME NEW t \in Threads, Proceed(t) PROVE TxTypeOK'
  <2>1. CASE PutLine(t)
    BY <2>1, PutLineEffect
  <2>2. CASE EnableTransmit(t)
    BY <2>2 DEF EnableTransmit, TxTypeOK
  <2> QED
    BY <1>1, <1>2, <2>1, <2>2
    DEF Proceed, ProtectGranted, ProtectTimeout, FormatHeader, FormatBody, logger_unprotect
<1>3. ASSUME NEW t \in Threads, PutChar(t) PROVE TxTypeOK'
  BY <1>3, PutCharEffect
<1>4. ASSUME NEW t \in Threads, PrintLog(t) PROVE TxTypeOK'
  BY <1>1, <1>4 DEF PrintLog
<1>5. CASE USART1_IRQHandler
  BY <1>5, TransmitEffect DEF USART1_IRQHandler
<1>6. CASE UartShiftOut
  BY <1>6 DEF UartShiftOut, TxTypeOK
<1>7. CASE IdleHook \/ logger_set_multi_thread_run \/ UartReceive
  BY <1>1, <1>7 DEF IdleHook, IdleTest, IdleLoad, IdleStore, IdleTake, logger_set_multi_thread_run,
     UartReceive
<1> QED
  BY <1>2, <1>3, <1>4, <1>5, <1>6, <1>7 DEF Next

-------------------------------------------------------------------------------
(***************************************************************************)
(* The receive side: the interrupt's puts race with the idle task's get.   *)
(***************************************************************************)

RxParts == RxTypeOK /\ RxCountBehind /\ RxRingInv /\ RxInOrder

LEMMA RxFields ==
  ASSUME RxTypeOK
  PROVE  /\ rx.size = RxSize /\ RxSize \in Nat \ {0} /\ rx.currentSize \in 0 .. RxSize
         /\ rx.head \in 0 .. RxSize - 1 /\ rx.tail \in 0 .. RxSize - 1
         /\ rx.data \in [0 .. RxSize - 1 -> RxByte \cup {Blank}]
         /\ Len(unread) \in Nat /\ unread \in Seq(RxByte)
  BY SizesAssumption DEF RxTypeOK

(* Steps of the transmit side, and what the idle task does outside         *)
(* CircularBufferGet.                                                      *)
LEMMA RxFrame ==
  ASSUME RxParts, UNCHANGED rxVars,
         pc'[Idle] = pc[Idle] \/ pc'[Idle] \notin {"rxload", "rxstore", "rxtake"}
  PROVE  RxParts'
<1>1. RxTypeOK' /\ RxRingInv' /\ RxInOrder'
  BY DEF RxParts, rxVars, RxTypeOK, RxRingInv, RxInOrder, SlotAfter
<1>2. RxCountBehind'
  <2>1. ~lapped => rx.currentSize <= Len(unread)
    BY RxFields DEF RxParts, RxCountBehind
  <2> QED
    BY <2>1, RxFields DEF RxParts, rxVars, RxCountBehind
<1> QED
  BY <1>1, <1>2 DEF RxParts

(* The place a byte is stored in is none of the unread bytes'.             *)
LEMMA StoreKeepsUnread ==
  ASSUME NEW cb, cb.size \in Nat \ {0}, NEW t \in 0 .. cb.size - 1,
         NEW n \in Nat, n < cb.size, NEW i \in 1 .. n
  PROVE  SlotAfter(cb, t, i - 1) # SlotAfter(cb, t, n)
  BY DEF SlotAfter

LEMMA ReceiveStep ==
  ASSUME RxParts, ReceiveByte, UNCHANGED pc
  PROVE  RxParts'
<1> DEFINE stored == rxdr # Blank /\ rx.currentSize < rx.size
           over   == stored /\ Len(unread) >= rx.size
<1>a. RxTypeOK /\ RxCountBehind /\ RxRingInv /\ RxInOrder
  BY DEF RxParts
<1>b. /\ rx' = IF stored THEN CircularBufferPut(rx, rxdr) ELSE rx
      /\ rxdr' = Blank /\ lapped' = (lapped \/ over)
      /\ unread' = IF lapped' THEN << >> ELSE IF stored THEN Append(unread, rxdr) ELSE unread
      /\ UNCHANGED <<rxReg, cmdIndex, rxSeq>>
  BY DEF ReceiveByte
<1>1. CASE ~stored
  <2>1. rx' = rx /\ lapped' = lapped /\ (~lapped => unread' = unread) /\ (lapped => unread' = << >>)
    BY <1>1, <1>a, <1>b DEF RxTypeOK
  <2>2. RxTypeOK'
    BY <1>a, <1>b, <2>1, EmptySeq DEF RxTypeOK
  <2> QED
    BY <1>a, <1>b, <2>1, <2>2
    DEF RxParts, RxCountBehind, RxRingInv, RxInOrder, SlotAfter
<1>2. CASE stored
  <2>1. /\ rxdr \in RxByte
        /\ rx'.size = RxSize /\ rx'.tail = rx.tail
        /\ rx'.currentSize = rx.currentSize + 1
        /\ rx'.head = NextSlot(rx, rx.head)
        /\ rx'.data = [rx.data EXCEPT ![rx.head] = rxdr]
    BY <1>2, <1>a, <1>b, RxFields DEF RxTypeOK, CircularBufferPut
  <2>2. RxTypeOK'
    <3>1. rx' = [rx EXCEPT !.data = [rx.data EXCEPT ![rx.head] = rxdr],
                           !.head = NextSlot(rx, rx.head),
                           !.currentSize = rx.currentSize + 1]
      BY <1>2, <1>b DEF CircularBufferPut
    <3>2. rx.currentSize + 1 \in 0 .. RxSize
      BY <1>a, <1>2, RxFields
    <3>3. NextSlot(rx, rx.head) \in 0 .. RxSize - 1
      BY <1>a, RxFields DEF NextSlot
    <3>4. [rx.data EXCEPT ![rx.head] = rxdr] \in [0 .. RxSize - 1 -> RxByte \cup {Blank}]
      BY <1>a, <2>1, RxFields
    <3>5. rx' \in [size : {RxSize}, currentSize : 0 .. RxSize, head : 0 .. RxSize - 1,
                   tail : 0 .. RxSize - 1, data : [0 .. RxSize - 1 -> RxByte \cup {Blank}]]
      BY <1>a, <3>1, <3>2, <3>3, <3>4 DEF RxTypeOK
    <3>6. unread' \in Seq(RxByte)
      BY <1>a, <1>b, <2>1, EmptySeq, AppendProperties, RxFields
    <3> QED
      BY <1>a, <1>b, <3>5, <3>6 DEF RxTypeOK
  <2>3. CASE lapped'
    <3>1. pc[Idle] = "rxstore" => rxReg \in 1 .. rx.currentSize + 1
      BY <1>a, RxFields DEF RxCountBehind
    <3>2. rx.currentSize + 1 # 0
      BY <1>a, RxFields
    <3>3. RxCountBehind'
      BY <1>b, <2>1, <2>3, <3>1, <3>2 DEF RxCountBehind
    <3> QED
      BY <2>2, <2>3, <3>3 DEF RxParts, RxRingInv, RxInOrder
  <2>4. CASE ~lapped'
    <3>0. ~lapped /\ ~over
      <4> HIDE DEF over, stored
      <4> QED
        BY <1>b, <2>4
    <3>1. ~lapped /\ Len(unread) < RxSize /\ unread' = Append(unread, rxdr)
      BY <1>2, <1>a, <1>b, <2>4, <3>0, RxFields
    <3>2. /\ Len(unread') = Len(unread) + 1 /\ unread'[Len(unread) + 1] = rxdr
          /\ \A i \in 1 .. Len(unread) : unread'[i] = unread[i]
      BY <1>a, <2>1, <3>1, AppendProperties, RxFields
    <3>3. RxCountBehind'
      BY <1>a, <2>1, <3>1, <3>2, <1>b, RxFields DEF RxCountBehind
    <3>4. rx.head = SlotAfter(rx, rx.tail, Len(unread))
      BY <1>a, <3>1 DEF RxRingInv
    <3>5. RxRingInv'
      <4>1. rx'.head = SlotAfter(rx, rx.tail, Len(unread) + 1)
        <5>1. rx'.head = SlotAfter(rx, rx.head, 1)
          BY <1>a, <2>1, RxFields, NextIsOneAfter
        <5>2. Len(unread) + 1 <= rx.size
          BY <1>a, <3>1, RxFields
        <5> QED
          BY <1>a, <3>4, <5>1, <5>2, RxFields, SlotsAdd
      <4>2. SlotAfter(rx', rx'.tail, Len(unread)') = SlotAfter(rx, rx.tail, Len(unread) + 1)
        BY <1>a, <2>1, <3>2, RxFields DEF SlotAfter
      <4>3. Len(unread)' <= RxSize
        BY <1>a, <3>1, <3>2, RxFields
      <4>4. SlotAfter(rx, rx.tail, Len(unread))' = SlotAfter(rx', rx'.tail, Len(unread)')
        BY DEF SlotAfter
      <4> QED
        BY <4>1, <4>2, <4>3, <4>4 DEF RxRingInv
    <3>6. RxInOrder'
      <4> SUFFICES ASSUME NEW i \in 1 .. Len(unread) + 1
                   PROVE  rx'.data[SlotAfter(rx', rx'.tail, i - 1)] = unread'[i]
        BY <3>2 DEF RxInOrder, SlotAfter
      <4>1. SlotAfter(rx', rx'.tail, i - 1) = SlotAfter(rx, rx.tail, i - 1)
        BY <1>a, <2>1, RxFields DEF SlotAfter
      <4>2. CASE i = Len(unread) + 1
        <5>1. i - 1 = Len(unread)
          BY <1>a, <4>2, RxFields
        <5>2. rx'.data[rx.head] = rxdr
          BY <1>a, <2>1, RxFields
        <5> QED
          BY <3>2, <3>4, <4>1, <4>2, <5>1, <5>2
      <4>3. CASE i \in 1 .. Len(unread)
        <5>1. SlotAfter(rx, rx.tail, i - 1) # rx.head
          BY <1>a, <3>1, <3>4, <4>3, RxFields, StoreKeepsUnread
        <5>2. SlotAfter(rx, rx.tail, i - 1) \in 0 .. RxSize - 1
          BY <1>a, <3>1, <4>3, RxFields DEF SlotAfter
        <5>3. rx'.data[SlotAfter(rx, rx.tail, i - 1)] = rx.data[SlotAfter(rx, rx.tail, i - 1)]
          BY <1>a, <2>1, <5>1, <5>2, RxFields
        <5>4. rx.data[SlotAfter(rx, rx.tail, i - 1)] = unread[i]
          BY <1>a, <3>1, <4>3 DEF RxInOrder
        <5> QED
          BY <3>2, <4>1, <4>3, <5>3, <5>4
      <4>4. i \in 1 .. Len(unread) \/ i = Len(unread) + 1
        BY <1>a, RxFields
      <4> QED
        BY <4>2, <4>3, <4>4
    <3> QED
      BY <2>2, <3>3, <3>5, <3>6 DEF RxParts
  <2> QED
    BY <2>3, <2>4
<1> QED
  BY <1>1, <1>2

(* IdleLoad and IdleStore write the count back less one: it falls behind,  *)
(* never ahead.                                                            *)
LEMMA IdleStoreStep ==
  ASSUME RxParts, IdleStore, pc \in [Threads -> PcValues]
  PROVE  RxParts'
<1>a. RxTypeOK /\ RxCountBehind /\ RxRingInv /\ RxInOrder /\ Idle \in Threads
  BY DEF RxParts, Threads
<1>b. /\ rx' = [rx EXCEPT !.currentSize = rxReg - 1] /\ rxReg' = 0
      /\ pc[Idle] = "rxstore" /\ pc'[Idle] = "rxtake"
      /\ UNCHANGED <<rxdr, cmdIndex, rxSeq, unread, lapped>>
  BY <1>a DEF IdleStore
<1>1. rxReg \in 1 .. rx.currentSize
  BY <1>a, <1>b DEF RxCountBehind
<1>2. /\ rx'.currentSize = rxReg - 1 /\ rx'.size = rx.size /\ rx'.head = rx.head
      /\ rx'.tail = rx.tail /\ rx'.data = rx.data
  BY <1>a, <1>b DEF RxTypeOK
<1>3. RxTypeOK'
  <2>1. rxReg - 1 \in 0 .. RxSize /\ 0 \in 0 .. RxSize
    BY <1>a, <1>1, RxFields
  <2> QED
    BY <1>a, <1>b, <2>1 DEF RxTypeOK
<1>4. RxCountBehind'
  <2>1. ~lapped => rx.currentSize <= Len(unread)
    BY <1>a, <1>b, RxFields DEF RxCountBehind
  <2>2. ~lapped => rxReg - 1 <= Len(unread) - 1
    BY <1>a, <1>1, <2>1, RxFields
  <2> QED
    BY <1>b, <1>2, <2>2 DEF RxCountBehind
<1>5. RxRingInv' /\ RxInOrder'
  BY <1>a, <1>b, <1>2 DEF RxRingInv, RxInOrder, SlotAfter
<1> QED
  BY <1>3, <1>4, <1>5 DEF RxParts

(* Taking a byte moves the tail past the oldest unread byte.               *)
LEMMA IdleTakeStep ==
  ASSUME RxParts, ThreadsTypeOK, IdleTake
  PROVE  RxParts'
<1>a. RxTypeOK /\ RxCountBehind /\ RxRingInv /\ RxInOrder /\ Idle \in Threads
  BY DEF RxParts, Threads
<1>b. /\ pc[Idle] = "rxtake"
      /\ rx' = [rx EXCEPT !.tail = NextSlot(rx, rx.tail)]
      /\ unread' = IF unread = << >> THEN << >> ELSE Tail(unread)
      /\ UNCHANGED <<rxdr, rxReg, rxSeq, lapped>>
      /\ cmd_process(CircularBufferPeek(rx))
  BY DEF IdleTake
<1>1. pc'[Idle] \in {"run", "header", "wait"}
  BY <1>a, <1>b DEF cmd_process, logger_protect, ThreadsTypeOK
<1>2. cmdIndex' \in 0 .. CommandMax - 1
  <2> DEFINE c     == CircularBufferPeek(rx)
             index == IF c[2] = "char" THEN cmdIndex + 1 ELSE cmdIndex
             done  == c[2] = "newline" \/ index >= CommandMax
  <2>1. cmdIndex' = IF done THEN 0 ELSE index
    BY <1>b DEF cmd_process
  <2>2. index \in Nat /\ CommandMax \in Nat \ {0}
    BY <1>a, CommandAssumption DEF RxTypeOK
  <2> HIDE DEF index
  <2>3. ~done => index < CommandMax
    BY <2>2
  <2> QED
    BY <2>1, <2>2, <2>3
<1>3. NextSlot(rx, rx.tail) \in 0 .. RxSize - 1
  BY <1>a, RxFields DEF NextSlot
<1>4. /\ rx'.tail = NextSlot(rx, rx.tail) /\ rx'.size = rx.size /\ rx'.head = rx.head
      /\ rx'.currentSize = rx.currentSize /\ rx'.data = rx.data
  BY <1>a, <1>b DEF RxTypeOK
<1>5. RxTypeOK'
  <2>1. unread' \in Seq(RxByte)
    BY <1>a, <1>b, EmptySeq, HeadTailProperties, RxFields
  <2>2. rx' \in [size : {RxSize}, currentSize : 0 .. RxSize, head : 0 .. RxSize - 1,
                 tail : 0 .. RxSize - 1, data : [0 .. RxSize - 1 -> RxByte \cup {Blank}]]
    BY <1>a, <1>b, <1>3 DEF RxTypeOK
  <2> QED
    BY <1>a, <1>b, <1>2, <2>1, <2>2 DEF RxTypeOK
<1>6. CASE lapped
  BY <1>b, <1>1, <1>5, <1>6 DEF RxParts, RxCountBehind, RxRingInv, RxInOrder
<1>7. CASE ~lapped
  <2>1. rx.currentSize <= Len(unread) - 1 /\ Len(unread) <= RxSize
    BY <1>a, <1>b, <1>7, RxFields DEF RxCountBehind, RxRingInv
  <2>2. unread # << >> /\ Len(unread) >= 1
    BY <1>a, <2>1, RxFields, EmptySeq
  <2>3. /\ unread' = Tail(unread) /\ Len(unread)' = Len(unread) - 1
        /\ \A i \in 1 .. Len(unread) - 1 : unread'[i] = unread[i + 1]
    BY <1>a, <1>b, <2>2, RxFields, HeadTailProperties
  <2>4. RxCountBehind'
    <3>1. rx'.currentSize <= Len(unread)' /\ Len(unread)' - 0 = Len(unread)'
      BY <1>a, <1>4, <2>1, <2>3, RxFields
    <3> QED
      BY <1>1, <3>1 DEF RxCountBehind
  <2>5. ASSUME NEW k \in Nat, k + 1 <= RxSize
        PROVE  SlotAfter(rx', rx'.tail, k) = SlotAfter(rx, rx.tail, k + 1)
    <3>1. rx'.tail = SlotAfter(rx, rx.tail, 1)
      BY <1>a, <1>4, RxFields, NextIsOneAfter
    <3>2. SlotAfter(rx', rx'.tail, k) = SlotAfter(rx, rx'.tail, k)
      BY <1>4 DEF SlotAfter
    <3>3. 1 + k <= rx.size /\ 1 + k = k + 1 /\ 1 \in Nat
      BY <1>a, <2>5, RxFields
    <3> QED
      BY <1>a, <3>1, <3>2, <3>3, RxFields, SlotsAdd
  <2>6. RxRingInv'
    <3>1. Len(unread) - 1 \in Nat /\ (Len(unread) - 1) + 1 = Len(unread)
      BY <1>a, <2>2, RxFields
    <3>2. rx.head = SlotAfter(rx, rx.tail, Len(unread))
      BY <1>a, <1>7 DEF RxRingInv
    <3>3. rx'.head = SlotAfter(rx', rx'.tail, Len(unread)')
      BY <1>4, <2>1, <2>3, <2>5, <3>1, <3>2
    <3>4. Len(unread)' <= RxSize
      BY <1>a, <2>1, <2>3, RxFields
    <3>5. SlotAfter(rx, rx.tail, Len(unread))' = SlotAfter(rx', rx'.tail, Len(unread)')
      BY DEF SlotAfter
    <3> QED
      BY <3>3, <3>4, <3>5 DEF RxRingInv
  <2>7. RxInOrder'
    <3> SUFFICES ASSUME NEW i \in 1 .. Len(unread) - 1
                 PROVE  rx'.data[SlotAfter(rx', rx'.tail, i - 1)] = unread'[i]
      BY <2>3 DEF RxInOrder, SlotAfter
    <3>1. /\ i - 1 \in Nat /\ (i - 1) + 1 = i /\ i <= RxSize
          /\ i + 1 \in 1 .. Len(unread) /\ (i + 1) - 1 = i
      BY <1>a, <2>1, RxFields
    <3>2. SlotAfter(rx', rx'.tail, i - 1) = SlotAfter(rx, rx.tail, (i + 1) - 1)
      BY <2>5, <3>1
    <3>3. rx.data[SlotAfter(rx, rx.tail, (i + 1) - 1)] = unread[i + 1]
      BY <1>a, <1>7, <3>1 DEF RxInOrder
    <3> QED
      BY <1>4, <2>3, <3>2, <3>3
  <2> QED
    BY <1>5, <2>4, <2>6, <2>7 DEF RxParts
<1> QED
  BY <1>6, <1>7

LEMMA RxStep ==
  ASSUME ThreadsTypeOK, RxParts, Next
  PROVE  RxParts'
<1>a. Idle \in Threads /\ Idle \notin Tasks /\ pc \in [Threads -> PcValues]
  BY ThreadsAssumption DEF Threads, ThreadsTypeOK
<1>1. ASSUME NEW t \in Threads, PrintLog(t) PROVE RxParts'
  <2>1. t # Idle
    BY <1>1, <1>a DEF PrintLog
  <2> QED
    BY <1>1, <1>a, <2>1, RxFrame DEF PrintLog, logger_protect
<1>2. ASSUME NEW t \in Threads, PutChar(t) PROVE RxParts'
  <2>1. t # Idle
    BY <1>2, <1>a DEF PutChar
  <2> QED
    BY <1>2, <1>a, <2>1, RxFrame DEF PutChar
<1>3. ASSUME NEW t \in Threads, Proceed(t) PROVE RxParts'
  <2>1. UNCHANGED rxVars
    BY <1>3 DEF Proceed, ProtectGranted, ProtectTimeout, FormatHeader, FormatBody, PutLine,
       EnableTransmit, logger_unprotect
  <2>2. pc'[Idle] = pc[Idle] \/ pc'[Idle] \notin {"rxload", "rxstore", "rxtake"}
    BY <1>3, <1>a DEF Proceed, ProtectGranted, ProtectTimeout, FormatHeader, FormatBody, PutLine,
       EnableTransmit, logger_unprotect
  <2> QED
    BY <2>1, <2>2, RxFrame
<1>4. CASE IdleTest
  BY <1>4, <1>a DEF IdleTest, rxVars, RxParts, RxTypeOK, RxCountBehind, RxRingInv, RxInOrder,
     SlotAfter, CircularBufferIsEmpty
<1>5. CASE IdleLoad
  <2>1. rx.currentSize # 0 /\ rx.currentSize \in 0 .. RxSize
    BY <1>5, RxFields DEF IdleLoad, RxParts, RxCountBehind
  <2>2. RxCountBehind'
    BY <1>5, <1>a, <2>1 DEF IdleLoad, RxParts, RxCountBehind
  <2> QED
    BY <1>5, <2>1, <2>2 DEF IdleLoad, RxParts, RxTypeOK, RxRingInv, RxInOrder, SlotAfter
<1>6. CASE IdleStore
  BY <1>6, <1>a, IdleStoreStep
<1>7. CASE IdleTake
  BY <1>7, IdleTakeStep
<1>8. CASE logger_set_multi_thread_run \/ UartShiftOut
  BY <1>8, RxFrame DEF logger_set_multi_thread_run, UartShiftOut
<1>9. CASE USART1_IRQHandler
  BY <1>9, ReceiveStep DEF USART1_IRQHandler
<1>10. CASE UartReceive
  <2>1. PICK kind \in RxKinds : rxdr' = <<rxSeq, kind>>
    BY <1>10 DEF UartReceive
  <2>2. rxSeq \in 0 .. RxMod - 1 /\ RxMod \in Nat \ {0}
    BY SizesAssumption DEF RxParts, RxTypeOK, RxMod
  <2>3. rxSeq' \in 0 .. RxMod - 1
    <3>1. \A a \in Nat, m \in Nat \ {0} : a % m \in 0 .. m - 1
      OBVIOUS
    <3>2. rxSeq' = (rxSeq + 1) % RxMod /\ rxSeq + 1 \in Nat
      BY <1>10, <2>2 DEF UartReceive
    <3> QED
      BY <2>2, <3>1, <3>2
  <2>4. rxdr' \in RxByte
    BY <2>1, <2>2 DEF RxByte
  <2>5. RxTypeOK'
    BY <1>10, <2>3, <2>4 DEF UartReceive, RxParts, RxTypeOK
  <2> QED
    BY <1>10, <2>5 DEF UartReceive, RxParts, RxCountBehind, RxRingInv, RxInOrder, SlotAfter
<1> QED
  BY <1>1, <1>2, <1>3, <1>4, <1>5, <1>6, <1>7, <1>8, <1>9, <1>10 DEF Next, IdleHook

-------------------------------------------------------------------------------
(***************************************************************************)
(* The theorems that hold however the logger is started.                   *)
(***************************************************************************)

LEMMA TypeStep == TypeInv /\ [Next]_vars => TypeInv'
<1> SUFFICES ASSUME TypeInv, [Next]_vars PROVE TypeInv'
  OBVIOUS
<1>1. CASE Next
  <2>1. ThreadsTypeOK /\ LenInv /\ TxTypeOK /\ RxParts
    BY DEF TypeInv, TypeOK, RxParts
  <2>2. ThreadsTypeOK' /\ LenInv' /\ TxTypeOK' /\ RxParts'
    BY <1>1, <2>1, ThreadsStep, TxStep, RxStep
  <2> QED
    BY <2>2 DEF TypeInv, TypeOK, RxParts
<1>2. CASE UNCHANGED vars
  BY <1>2 DEF vars, mtxVars, txVars, rxVars, TypeInv, TypeOK, ThreadsTypeOK, TxTypeOK, RxTypeOK,
     LenInv, RxCountBehind, RxRingInv, RxInOrder, SlotAfter
<1> QED
  BY <1>1, <1>2

LEMMA TypeInvariance == Spec => []TypeInv
  BY InitTypes, TypeStep, PTL DEF Spec

(* The variables keep their declared shape and both rings stay inside      *)
(* their storage, whatever their sizes and however calls interleave.       *)
THEOREM TypeCorrect == Spec => []TypeOK
<1>1. TypeInv => TypeOK
  BY DEF TypeInv
<1> QED
  BY <1>1, TypeInvariance, PTL

(* The race on currentSize never reorders or repeats received bytes.       *)
THEOREM ReceivesInOrder == Spec => []RxInOrder
<1>1. TypeInv => RxInOrder
  BY DEF TypeInv
<1> QED
  BY <1>1, TypeInvariance, PTL

(* The racing count never wraps below zero, and stays behind the bytes     *)
(* stored until one of them has been stored over an unread one.            *)
THEOREM CountStaysBehind == Spec => []RxCountBehind
<1>1. TypeInv => RxCountBehind
  BY DEF TypeInv
<1> QED
  BY <1>1, TypeInvariance, PTL

-------------------------------------------------------------------------------
(***************************************************************************)
(* The mutex, the shared line buffer and the transmit interrupt.           *)
(***************************************************************************)

AlwaysLocked == InitMultiThread = {TRUE}

Holding == {"header", "body", "put", "arm", "unlock"}

(* The threads between logger_protect and logger_unprotect own the mutex.  *)
MutexInv ==
  /\ multiThread
  /\ \A t \in Threads : pc[t] \in Holding <=> mutex = t
  /\ NoForeignGive

(* The owner's line is in the buffer as far as it is formatted.            *)
BufInv ==
  \A t \in Threads :
    /\ pc[t] = "body" => lineBuf[1] = <<t, len[t], 1>>
    /\ pc[t] = "put" => \A i \in 1 .. len[t] : lineBuf[i] = <<t, len[t], i>>

NoBlankQueued == Contents(tx) \in Seq(TxByte)

LockInv == MutexInv /\ BufInv /\ TransmitArmed /\ NoBlankQueued

LEMMA InitLocked == AlwaysLocked /\ Init => LockInv
<1> SUFFICES ASSUME AlwaysLocked, Init PROVE LockInv
  OBVIOUS
<1>1. MutexInv /\ BufInv
  BY ThreadsAssumption
  DEF Init, AlwaysLocked, MutexInv, BufInv, Holding, NoForeignGive
<1>2. TransmitArmed
  BY DEF Init, TransmitArmed, CircularBufferInit
<1>3. Contents(tx) = << >>
  BY SizesAssumption, InitIsEmpty DEF Init
<1> QED
  BY <1>1, <1>2, <1>3, EmptySeq DEF LockInv, NoBlankQueued

(* Two threads never hold the mutex, so the buffer has one writer.         *)
LEMMA MutexStep ==
  ASSUME TypeInv, MutexInv, Next
  PROVE  MutexInv'
<1>a. ThreadsTypeOK /\ Idle \in Threads /\ NoThread \notin Threads
  BY ThreadsAssumption DEF TypeInv, TypeOK, Threads
<1> USE DEF MutexInv, Holding, NoForeignGive
<1>1. ASSUME NEW t \in Threads, NEW n, logger_protect(t, n), pc[t] \in {"run", "rxtake"}
      PROVE  MutexInv'
  BY <1>a, <1>1 DEF logger_protect, ThreadsTypeOK
<1>2. ASSUME NEW t \in Threads, NEW p \in PcValues \ {"halted"},
             pc' = [pc EXCEPT ![t] = p], pc[t] \in Holding <=> p \in Holding, UNCHANGED mtxVars
      PROVE  MutexInv'
  BY <1>a, <1>2 DEF ThreadsTypeOK, mtxVars
<1>3. ASSUME NEW t \in Threads, PrintLog(t) PROVE MutexInv'
  BY <1>1, <1>3 DEF PrintLog
<1>4. ASSUME NEW t \in Threads, PutChar(t) PROVE MutexInv'
  BY <1>2, <1>4 DEF PutChar, PcValues
<1>5. ASSUME NEW t \in Threads, Proceed(t) PROVE MutexInv'
  <2>1. CASE ProtectGranted(t)
    BY <1>a, <2>1 DEF ProtectGranted, ThreadsTypeOK
  <2>2. CASE ProtectTimeout(t) \/ FormatHeader(t)
    BY <1>2, <2>2 DEF ProtectTimeout, FormatHeader, PcValues
  <2>3. CASE FormatBody(t)
    BY <1>2, <2>3 DEF FormatBody, PcValues
  <2>4. CASE PutLine(t)
    BY <1>2, <2>4 DEF PutLine, PcValues
  <2>5. CASE EnableTransmit(t)
    BY <1>2, <2>5 DEF EnableTransmit, PcValues
  <2>6. CASE logger_unprotect(t)
    BY <1>a, <2>6 DEF logger_unprotect, ThreadsTypeOK
  <2> QED
    BY <1>5, <2>1, <2>2, <2>3, <2>4, <2>5, <2>6 DEF Proceed
<1>6. CASE IdleTest \/ IdleLoad \/ IdleStore
  BY <1>2, <1>6, <1>a DEF IdleTest, IdleLoad, IdleStore, PcValues
<1>7. CASE IdleTake
  <2>1. CASE pc' = [pc EXCEPT ![Idle] = "run"] /\ UNCHANGED <<mtxVars, len>>
    BY <1>2, <1>7, <1>a, <2>1 DEF IdleTake, PcValues
  <2>2. CASE \E n \in LineLens : logger_protect(Idle, n)
    BY <1>1, <1>7, <1>a, <2>2 DEF IdleTake
  <2> QED
    BY <1>7, <2>1, <2>2 DEF IdleTake, cmd_process
<1>8. CASE logger_set_multi_thread_run
  BY <1>8 DEF logger_set_multi_thread_run
<1>9. CASE USART1_IRQHandler \/ UartShiftOut \/ UartReceive
  BY <1>9 DEF USART1_IRQHandler, UartShiftOut, UartReceive, mtxVars
<1> QED
  BY <1>3, <1>4, <1>5, <1>6, <1>7, <1>8, <1>9 DEF Next, IdleHook

LEMMA BufStep ==
  ASSUME TypeInv, MutexInv, BufInv, Next
  PROVE  BufInv'
<1>a. ThreadsTypeOK /\ LenInv /\ Idle \in Threads
  BY DEF TypeInv, TypeOK, Threads
<1>b. \A t, u \in Threads : pc[t] \in Holding /\ pc[u] \in Holding => t = u
  BY DEF MutexInv
<1> USE DEF BufInv, Holding
(* A step that formats nothing, and of one thread at most. *)
<1>1. ASSUME NEW t \in Threads, NEW p \in PcValues \ {"body", "put"}, UNCHANGED lineBuf,
             pc' = [pc EXCEPT ![t] = p], \A u \in Threads \ {t} : len'[u] = len[u]
      PROVE  BufInv'
  BY <1>a, <1>1 DEF ThreadsTypeOK
<1>2. ASSUME NEW t \in Threads, NEW n, logger_protect(t, n), UNCHANGED lineBuf PROVE BufInv'
  BY <1>1, <1>2, <1>a DEF logger_protect, ThreadsTypeOK, PcValues
<1>3. ASSUME NEW t \in Threads, PrintLog(t) PROVE BufInv'
  BY <1>2, <1>3 DEF PrintLog
<1>4. ASSUME NEW t \in Threads, PutChar(t) PROVE BufInv'
  BY <1>1, <1>4 DEF PutChar, PcValues
<1>5. ASSUME NEW t \in Threads, Proceed(t) PROVE BufInv'
  <2>1. CASE ProtectGranted(t)
    BY <1>1, <2>1 DEF ProtectGranted, PcValues
  <2>2. CASE ProtectTimeout(t)
    BY <1>1, <1>a, <2>2 DEF ProtectTimeout, PcValues, ThreadsTypeOK
  <2>3. CASE FormatHeader(t)
    <3>1. \A u \in Threads : u # t => pc'[u] \notin {"body", "put"}
      BY <1>a, <1>b, <2>3 DEF FormatHeader, ThreadsTypeOK
    <3>2. pc'[t] = "body" /\ lineBuf'[1] = <<t, len'[t], 1>>
      BY <1>a, <2>3, LinesAssumption DEF FormatHeader, ThreadsTypeOK
    <3> QED
      BY <3>1, <3>2
  <2>4. CASE FormatBody(t)
    <3>1. \A u \in Threads : u # t => pc'[u] \notin {"body", "put"}
      BY <1>a, <1>b, <2>4 DEF FormatBody, ThreadsTypeOK
    <3>2. pc'[t] # "body" /\ len' = len
      BY <1>a, <2>4 DEF FormatBody, ThreadsTypeOK
    <3>3. len[t] \in LineLens /\ lineBuf[1] = <<t, len[t], 1>>
      BY <1>a, <2>4 DEF FormatBody, LenInv, Logging
    <3>4. \A i \in 1 .. len[t] : i \in 1 .. LineMax /\ (i = 1 \/ i \in 2 .. len[t])
      <4>1. len[t] \in Nat /\ len[t] <= LineMax /\ LineMax \in Nat
        BY <3>3, LineLength, LinesAssumption
      <4> QED
        BY <4>1
    <3>5. \A i \in 1 .. len[t] : lineBuf'[i] = <<t, len[t], i>>
      BY <2>4, <3>3, <3>4 DEF FormatBody
    <3> QED
      BY <3>1, <3>2, <3>5
  <2>5. CASE PutLine(t)
    BY <1>1, <2>5 DEF PutLine, PcValues
  <2>6. CASE EnableTransmit(t)
    BY <1>1, <2>6 DEF EnableTransmit, PcValues
  <2>7. CASE logger_unprotect(t)
    <3>1. CASE pc' = [pc EXCEPT ![t] = "halted"] /\ UNCHANGED <<mutex, len>>
      BY <1>1, <1>a, <2>7, <3>1 DEF logger_unprotect, PcValues
    <3>2. CASE pc' = [pc EXCEPT ![t] = "run"] /\ len' = [len EXCEPT ![t] = 0]
      BY <1>1, <1>a, <2>7, <3>2 DEF logger_unprotect, PcValues, ThreadsTypeOK
    <3> QED
      BY <2>7, <3>1, <3>2 DEF logger_unprotect
  <2> QED
    BY <1>5, <2>1, <2>2, <2>3, <2>4, <2>5, <2>6, <2>7 DEF Proceed
<1>6. CASE IdleTest \/ IdleLoad \/ IdleStore
  BY <1>1, <1>6, <1>a DEF IdleTest, IdleLoad, IdleStore, PcValues
<1>7. CASE IdleTake
  <2>1. CASE pc' = [pc EXCEPT ![Idle] = "run"] /\ UNCHANGED <<mtxVars, len>>
    BY <1>1, <1>7, <1>a, <2>1 DEF IdleTake, PcValues
  <2>2. CASE \E n \in LineLens : logger_protect(Idle, n)
    BY <1>2, <1>7, <1>a, <2>2 DEF IdleTake
  <2> QED
    BY <1>7, <2>1, <2>2 DEF IdleTake, cmd_process
<1>8. CASE logger_set_multi_thread_run \/ USART1_IRQHandler \/ UartShiftOut \/ UartReceive
  BY <1>8 DEF logger_set_multi_thread_run, USART1_IRQHandler, UartShiftOut, UartReceive
<1> QED
  BY <1>3, <1>4, <1>5, <1>6, <1>7, <1>8 DEF Next, IdleHook

(* The block that is put is the line that was formatted.                   *)
LEMMA BufIsLine == BufInv => LineWhole
<1> SUFFICES ASSUME BufInv, NEW t \in Threads, pc[t] = "put" PROVE BufferedLine(t) = Line(t, len[t])
  BY DEF LineWhole
<1> QED
  BY DEF BufInv, BufferedLine, Line

(* The enable after the put makes up for a disable before it.              *)
LEMMA ArmedStep ==
  ASSUME TypeInv, MutexInv, TransmitArmed, Next
  PROVE  TransmitArmed'
<1>a. ThreadsTypeOK /\ TxTypeOK
  BY DEF TypeInv, TypeOK
<1> USE DEF TransmitArmed
<1>1. ASSUME NEW t \in Threads, pc[t] \notin {"arm", "armchar"}, UNCHANGED <<tx, txie>>,
             NEW p, pc' = [pc EXCEPT ![t] = p]
      PROVE  TransmitArmed'
  BY <1>1, <1>a DEF ThreadsTypeOK
<1>2. ASSUME NEW t \in Threads, pc'[t] \in {"arm", "armchar"} PROVE TransmitArmed'
  BY <1>2
<1>3. ASSUME NEW t \in Threads, PrintLog(t) PROVE TransmitArmed'
  BY <1>1, <1>3 DEF PrintLog, logger_protect, txVars
<1>4. ASSUME NEW t \in Threads, PutChar(t) PROVE TransmitArmed'
  BY <1>2, <1>4, <1>a DEF PutChar, ThreadsTypeOK
<1>5. ASSUME NEW t \in Threads, Proceed(t) PROVE TransmitArmed'
  <2>1. CASE ProtectGranted(t) \/ ProtectTimeout(t) \/ FormatHeader(t)
    BY <1>1, <2>1 DEF ProtectGranted, ProtectTimeout, FormatHeader, txVars
  <2>2. CASE FormatBody(t)
    BY <1>1, <2>2 DEF FormatBody, txVars
  <2>3. CASE PutLine(t)
    BY <1>1, <1>2, <2>3, <1>a DEF PutLine, ThreadsTypeOK
  <2>4. CASE EnableTransmit(t)
    BY <2>4 DEF EnableTransmit
  <2>5. CASE logger_unprotect(t)
    <3>1. pc' = [pc EXCEPT ![t] = "run"]
      BY <2>5 DEF logger_unprotect, MutexInv, Holding
    <3> QED
      BY <1>1, <2>5, <3>1 DEF logger_unprotect, txVars
  <2> QED
    BY <1>5, <2>1, <2>2, <2>3, <2>4, <2>5 DEF Proceed
<1>6. CASE IdleTest \/ IdleLoad \/ IdleStore \/ IdleTake
  <2>1. Idle \in Threads
    BY DEF Threads
  <2> QED
    BY <1>1, <1>6, <2>1 DEF IdleTest, IdleLoad, IdleStore, IdleTake, cmd_process, logger_protect, txVars
<1>7. CASE logger_set_multi_thread_run \/ UartReceive \/ UartShiftOut
  BY <1>7 DEF logger_set_multi_thread_run, UartReceive, UartShiftOut, txVars
<1>8. CASE USART1_IRQHandler
  <2>1. UNCHANGED pc /\ TransmitByte
    BY <1>8 DEF USART1_IRQHandler
  <2>2. tx.currentSize \in Nat /\ (tx'.currentSize # 0 => tx.currentSize # 0)
    BY <1>a, <2>1, Fields DEF TransmitByte, CircularBufferGet, CircularBufferIsEmpty, TxTypeOK, txVars
  <2> QED
    BY <2>1, <2>2 DEF TransmitByte, CircularBufferIsEmpty, txVars
<1> QED
  BY <1>3, <1>4, <1>5, <1>6, <1>7, <1>8 DEF Next, IdleHook

-------------------------------------------------------------------------------
(***************************************************************************)
(* The transmit path implements the byte pipe.                             *)
(***************************************************************************)

(* The data register ahead of the ring.                                    *)
Register == IF dr = Blank THEN << >> ELSE <<dr>>

LEMMA LineIsBytes ==
  ASSUME NEW t \in Threads, NEW n \in LineLens
  PROVE  Line(t, n) \in Seq(TxByte)
<1>1. n \in Nat
  BY LineLength
<1>2. \A i \in 1 .. n : <<t, n, i>> \in TxByte
  BY LineBytes
<1>3. Line(t, n) \in [1 .. n -> TxByte]
  BY <1>2 DEF Line
<1> QED
  BY <1>1, <1>3

LEMMA RegisterIsBytes ==
  ASSUME TxTypeOK
  PROVE  Register \in Seq(TxByte)
  BY EmptySeq DEF TxTypeOK, Register

(* Every step of the logger is a step of the pipe or leaves it alone.      *)
LEMMA PipeStep ==
  ASSUME TypeInv, LockInv, Next
  PROVE  NoBlankQueued' /\ (Pipe!Next \/ UNCHANGED TxPipe)
<1>a. /\ ThreadsTypeOK /\ LenInv /\ TxTypeOK /\ LineWhole
      /\ Contents(tx) \in Seq(TxByte) /\ Register \in Seq(TxByte)
  BY BufIsLine, RegisterIsBytes DEF TypeInv, TypeOK, LockInv, NoBlankQueued
<1>b. TxPipe = Register \o Contents(tx)
  BY DEF TxPipe, Register
<1>c. TxPipe' = Register' \o Contents(tx)'
  BY DEF TxPipe, Register
<1>1. ASSUME UNCHANGED <<tx, dr>> PROVE NoBlankQueued' /\ UNCHANGED TxPipe
  <2>1. Contents(tx)' = Contents(tx) /\ Register' = Register
    BY <1>1 DEF Contents, SlotAfter, Register
  <2> QED
    BY <1>a, <1>b, <1>c, <2>1 DEF NoBlankQueued
<1>2. ASSUME NEW b \in Seq(TxByte), \E t \in Threads, n \in LineLens \cup {1} : b = Line(t, n),
             Contents(tx)' = Contents(tx) \o b, UNCHANGED dr
      PROVE  NoBlankQueued' /\ Pipe!Next
  <2>1. Register' = Register
    BY <1>2 DEF Register
  <2>2. TxPipe' = TxPipe \o b
    <3> DEFINE r == Register
               c == Contents(tx)
    <3>0. r \in Seq(TxByte) /\ c \in Seq(TxByte) /\ b \in Seq(TxByte)
      BY <1>a, <1>2, Zenon
    <3> HIDE DEF r, c
    <3>2. (r \o c) \o b = r \o (c \o b)
      BY ONLY <3>0, ConcatAssociative
    <3>1. (Register \o Contents(tx)) \o b = Register \o (Contents(tx) \o b)
      BY <3>2, Zenon DEF r, c
    <3> QED
      BY <1>b, <1>c, <1>2, <2>1, <3>1
  <2>3. NoBlankQueued'
    BY <1>a, <1>2, ConcatProperties DEF NoBlankQueued
  <2>4. b \in {Line(t, n) : t \in Threads, n \in LineLens \cup {1}}
    BY <1>2
  <2>5. \E block \in {Line(t, n) : t \in Threads, n \in LineLens \cup {1}} : Pipe!Accept(block)
    <3>1. Pipe!Accept(b)
      BY <2>2 DEF Pipe!Accept
    <3> QED
      BY <2>4, <3>1
  <2> QED
    BY <2>3, <2>5 DEF Pipe!Next
<1>3. ASSUME NEW t \in Threads, PutLine(t) PROVE NoBlankQueued' /\ (Pipe!Next \/ UNCHANGED TxPipe)
  <2>1. UNCHANGED dr /\ pc[t] = "put"
    BY <1>3 DEF PutLine
  <2>2. BufferedLine(t) = Line(t, len[t]) /\ len[t] \in LineLens
    BY <1>a, <2>1, BufferedLineIsBlock DEF LineWhole
  <2>3. Line(t, len[t]) \in Seq(TxByte)
    BY <2>2, LineIsBytes
  <2>4. CASE Contents(tx)' = Contents(tx) \o BufferedLine(t)
    BY <1>2, <2>1, <2>2, <2>3, <2>4
  <2>5. CASE UNCHANGED tx
    BY <1>1, <2>1, <2>5
  <2> QED
    BY <1>3, <1>a, <2>4, <2>5, PutLineEffect
<1>4. ASSUME NEW t \in Threads, PutChar(t) PROVE NoBlankQueued' /\ (Pipe!Next \/ UNCHANGED TxPipe)
  <2>1. UNCHANGED dr
    BY <1>4 DEF PutChar
  <2>2. CASE Contents(tx)' = Contents(tx) \o <<<<t, 1, 1>>>>
    <3>1. <<<<t, 1, 1>>>> = Line(t, 1)
      BY DEF Line
    <3>2. <<<<t, 1, 1>>>> \in Seq(TxByte)
      BY LineBytes
    <3> QED
      BY <1>2, <2>1, <2>2, <3>1, <3>2
  <2>3. CASE UNCHANGED tx
    BY <1>1, <2>1, <2>3
  <2> QED
    BY <1>4, <1>a, <2>2, <2>3, PutCharEffect
<1>5. CASE USART1_IRQHandler
  <2>1. CASE dr = Blank /\ Contents(tx) = <<dr'>> \o Contents(tx)' /\ tx.currentSize # 0
    <3>1. TxTypeOK' /\ Contents(tx)' \in Seq(TxData)
      <4>1. TxTypeOK'
        BY <1>5, <1>a, TransmitEffect DEF USART1_IRQHandler
      <4>2. WellFormed(tx', TxData)
        BY <4>1 DEF TxTypeOK, TxData, WellFormed, SlotAfter
      <4>3. Contents(tx') = Contents(tx)'
        BY DEF Contents, SlotAfter
      <4> QED
        BY <4>1, <4>2, <4>3, ContentsIsSeq
    <3>2. dr' \in TxData /\ <<dr'>> \in Seq(TxData) /\ Len(<<dr'>>) = 1
      BY <3>1 DEF TxTypeOK, TxData
    <3>3. /\ Len(Contents(tx)) = 1 + Len(Contents(tx)')
          /\ \A i \in 1 .. Len(Contents(tx)) :
               Contents(tx)[i] = IF i <= 1 THEN <<dr'>>[i] ELSE Contents(tx)'[i - 1]
      BY <2>1, <3>1, <3>2, ConcatProperties
    <3>4. Len(Contents(tx)') \in Nat
      BY <3>1, LenProperties
    <3>5. dr' \in TxByte
      <4>1. 1 \in 1 .. Len(Contents(tx)) /\ Contents(tx)[1] = dr'
        BY <3>3, <3>4
      <4> QED
        BY <1>a, <4>1, ElementOfSeq
    <3>6. dr' # Blank
      BY <3>5, BlankIsNoByte
    <3>7. Contents(tx)' \in Seq(TxByte)
      <4>1. \A i \in 1 .. Len(Contents(tx)') : Contents(tx)'[i] \in TxByte
        <5>1. ASSUME NEW i \in 1 .. Len(Contents(tx)') PROVE Contents(tx)'[i] \in TxByte
          <6>1. i + 1 \in 1 .. Len(Contents(tx)) /\ ~(i + 1 <= 1) /\ (i + 1) - 1 = i
            BY <3>3, <3>4
          <6>2. Contents(tx)[i + 1] = Contents(tx)'[i]
            BY <3>3, <6>1
          <6>3. Contents(tx)[i + 1] \in TxByte
            BY <1>a, <6>1, ElementOfSeq
          <6> QED
            BY <6>2, <6>3
        <5> QED
          BY <5>1
      <4>2. Contents(tx)' \in [1 .. Len(Contents(tx)') -> TxData]
        BY <3>1, LenProperties
      <4>3. Contents(tx)' \in [1 .. Len(Contents(tx)') -> TxByte]
        BY <4>1, <4>2
      <4> QED
        BY <3>4, <4>3
    <3>8. Register = << >> /\ Register' = <<dr'>>
      BY <2>1, <3>6 DEF Register
    <3>9. TxPipe' = TxPipe
      BY <1>a, <1>b, <1>c, <2>1, <3>8, ConcatEmptySeq
    <3> QED
      BY <3>7, <3>9 DEF NoBlankQueued
  <2>2. CASE UNCHANGED <<tx, dr>>
    BY <1>1, <2>2
  <2> QED
    BY <1>5, <1>a, <2>1, <2>2, TransmitEffect DEF USART1_IRQHandler
<1>6. CASE UartShiftOut
  <2>1. Contents(tx)' = Contents(tx) /\ Register = <<dr>> /\ Register' = << >> /\ dr \in TxByte
    BY <1>6, <1>a DEF UartShiftOut, Contents, SlotAfter, Register, TxTypeOK
  <2>2. TxPipe # << >> /\ TxPipe' = Tail(TxPipe)
    <3>1. <<dr>> \in Seq(TxByte) /\ <<dr>> # << >> /\ Len(<<dr>>) = 1
      BY <2>1
    <3>2. /\ TxPipe \in Seq(TxByte) /\ Len(TxPipe) = 1 + Len(Contents(tx))
          /\ \A i \in 1 .. 1 + Len(Contents(tx)) :
               TxPipe[i] = IF i <= 1 THEN <<dr>>[i] ELSE Contents(tx)[i - 1]
      BY <1>a, <1>b, <2>1, <3>1, ConcatProperties
    <3>3. Len(Contents(tx)) \in Nat
      BY <1>a, LenProperties
    <3>4. TxPipe # << >>
      BY <3>2, <3>3, EmptySeq
    <3>5. /\ Tail(TxPipe) \in Seq(TxByte) /\ Len(Tail(TxPipe)) = Len(Contents(tx))
          /\ \A i \in 1 .. Len(Tail(TxPipe)) : Tail(TxPipe)[i] = TxPipe[i + 1]
      <4>1. (1 + Len(Contents(tx))) - 1 = Len(Contents(tx))
        BY <3>3
      <4> QED
        BY <3>2, <3>4, <4>1, HeadTailProperties
    <3>6. ASSUME NEW i \in 1 .. Len(Contents(tx)) PROVE Tail(TxPipe)[i] = Contents(tx)[i]
      <4>1. i + 1 \in 1 .. 1 + Len(Contents(tx)) /\ ~(i + 1 <= 1) /\ (i + 1) - 1 = i
        BY <3>3
      <4> QED
        BY <3>2, <3>5, <4>1
    <3>7. Tail(TxPipe) = Contents(tx)
      BY <1>a, <3>5, <3>6, SeqEqual
    <3>8. TxPipe' = Contents(tx)
      BY <1>a, <1>c, <2>1, ConcatEmptySeq
    <3> QED
      BY <3>4, <3>7, <3>8
  <2>3. NoBlankQueued'
    BY <1>a, <2>1 DEF NoBlankQueued
  <2> QED
    BY <2>2, <2>3 DEF Pipe!Next, Pipe!Emit
<1>7. ASSUME ~ (\E t \in Threads : PutLine(t) \/ PutChar(t)), ~USART1_IRQHandler, ~UartShiftOut
      PROVE  UNCHANGED <<tx, dr>>
  BY <1>7 DEF Next, PrintLog, Proceed, ProtectGranted, ProtectTimeout, FormatHeader, FormatBody,
     EnableTransmit, logger_unprotect, IdleHook, IdleTest, IdleLoad, IdleStore, IdleTake,
     logger_set_multi_thread_run, UartReceive, txVars
<1> QED
  BY <1>1, <1>3, <1>4, <1>5, <1>6, <1>7

LEMMA LockStep == TypeInv /\ LockInv /\ [Next]_vars => LockInv' /\ [Pipe!Next]_TxPipe
<1> SUFFICES ASSUME TypeInv, LockInv, [Next]_vars PROVE LockInv' /\ [Pipe!Next]_TxPipe
  OBVIOUS
<1>1. CASE Next
  <2>1. MutexInv' /\ BufInv' /\ TransmitArmed'
    BY <1>1, MutexStep, BufStep, ArmedStep DEF LockInv
  <2> QED
    BY <1>1, <2>1, PipeStep DEF LockInv
<1>2. CASE UNCHANGED vars
  BY <1>2 DEF vars, mtxVars, txVars, LockInv, MutexInv, BufInv, TransmitArmed, NoBlankQueued,
     NoForeignGive, Contents, SlotAfter, TxPipe
<1> QED
  BY <1>1, <1>2

LEMMA LockInvariance ==
  ASSUME AlwaysLocked
  PROVE  Spec => []LockInv
<1>1. Init => LockInv
  BY InitLocked
<1> QED
  BY <1>1, LockStep, TypeInvariance, PTL DEF Spec

(* With the mutex, a line reaches logger_dev_tx_buffer as it was formatted.*)
THEOREM LinesAreWhole ==
  ASSUME AlwaysLocked
  PROVE  Spec => []LineWhole
<1>1. LockInv => LineWhole
  BY BufIsLine DEF LockInv
<1> QED
  BY <1>1, LockInvariance, PTL

(* No thread gives the mutex another one holds.                            *)
THEOREM MutexGivenByOwner ==
  ASSUME AlwaysLocked
  PROVE  Spec => []NoForeignGive
<1>1. LockInv => NoForeignGive
  BY DEF LockInv, MutexInv
<1> QED
  BY <1>1, LockInvariance, PTL

(* Bytes never wait in the ring with the transmit interrupt off, except    *)
(* while a thread is about to enable it.                                   *)
THEOREM InterruptIsArmed ==
  ASSUME AlwaysLocked
  PROVE  Spec => []TransmitArmed
<1>1. LockInv => TransmitArmed
  BY DEF LockInv
<1> QED
  BY <1>1, LockInvariance, PTL

(* The safety half of TransmitIsPipe: from print_log to the line, the      *)
(* bytes of whole lines leave once each and in order.                      *)
THEOREM ImplementsPipe ==
  ASSUME AlwaysLocked
  PROVE  Spec => Pipe!Spec
<1>1. Init => Pipe!Init
  <2> SUFFICES ASSUME Init PROVE TxPipe = << >>
    BY DEF Pipe!Init
  <2>1. Contents(tx) = << >>
    BY SizesAssumption, InitIsEmpty DEF Init
  <2> QED
    BY <2>1 DEF Init, TxPipe
<1>2. TypeInv /\ LockInv /\ [Next]_vars => [Pipe!Next]_TxPipe
  BY LockStep
<1> QED
  BY <1>1, <1>2, TypeInvariance, LockInvariance, PTL DEF Spec, Pipe!Spec
=============================================================================
