----------------------------- MODULE SdCard_proofs ------------------------------
(* What SdCard keeps, for every number of blocks and contents, every longest  *)
(* transfer and every timeout of one tick at least (SdAssumption).             *)
EXTENDS SdCard, TLAPS

(* The shape of the state. *)
SdTypeOK ==
  /\ SPI_RUN_MODE \in {"POLL", "DMA"}
  /\ booted \in {"none", "sdcard", "done"}
  /\ stream3 \in {"none", "SDIO_TX", "SPI5_RX"}
  /\ card \in {"tran", "data", "rcv", "prg"}
  /\ media \in [Blocks -> Data] /\ buf \in Data
  /\ req \in Requests /\ xfer \in Requests
  /\ stage \in {"idle", "wait", "failed"} /\ tick \in Nat
  /\ ret \in {"none", "HAL_OK", "HAL_ERROR", "HAL_TIMEOUT"}
  /\ dma \in {"off", "rx", "tx"} 
  /\ several \in BOOLEAN /\ unanswered \in BOOLEAN /\ damaged \in BOOLEAN

(* The stream runs only within a call. *)
StreamInv == stage = "idle" => dma = "off"

(* Nothing is asked of the card before the drivers are up. *)
BootInv == booted # "done" => stage = "idle" /\ ret = "none" /\ card = "tran"

(* The data of the call has arrived, or the data phase failed. *)
Moved == /\ req.op = "read" => damaged \/ buf = media[req.block]
         /\ req.op = "write" => (damaged \/ media[req.block] = req.data) /\ stream3 = "SDIO_TX"

(* While a call waits the card is at its command, and past the data phase     *)
(* only with the data moved or that phase failed.                             *)
WaitInv ==
  stage = "wait" =>
    /\ xfer = req
    /\ card = "data" => req.op = "read" /\ dma = "rx"
    /\ card = "rcv" => req.op = "write" /\ dma = "tx"
    /\ card = "prg" => req.op = "write"
    /\ card \in {"tran", "prg"} => Moved

OkInv == stage = "idle" /\ ret = "HAL_OK" => card = "tran" /\ Moved

(* With the stream its own the card waits for a block only while a call       *)
(* feeds it, before the first tick.                                           *)
ReceiveInv ==
  /\ card = "rcv" /\ xfer.count > 1 => several
  /\ card = "rcv" /\ stream3 = "SDIO_TX" /\ ~several /\ ~unanswered =>
       stage = "wait" /\ tick = 0

SdInv == SdTypeOK /\ StreamInv /\ BootInv /\ WaitInv /\ OkInv /\ ReceiveInv

-------------------------------------------------------------------------------
(* The board starts with nothing moving.                                      *)
LEMMA SdInvInit == SdInit => SdInv
<1> SUFFICES ASSUME SdInit PROVE SdInv
  OBVIOUS
<1> QED
  BY DEF SdInit, SdInv, SdTypeOK, StreamInv, BootInv, WaitInv, OkInv, ReceiveInv

(* No step of the driver or of the card breaks it.                            *)
LEMMA SdInvNext ==
  ASSUME SdInv, [SdNext]_sdVars
  PROVE  SdInv'
<1> USE DEF SdInv
<1>0. Timeout \in Nat /\ Timeout > 0
  BY SdAssumption
<1>1. CASE sdcard_driver_init
  BY <1>1 DEF sdcard_driver_init, SdTypeOK, StreamInv, BootInv, WaitInv, OkInv, ReceiveInv,
              Moved, cardVars, history
<1>2. CASE spi_driver_init
  BY <1>2 DEF spi_driver_init, SdTypeOK, StreamInv, BootInv, WaitInv, OkInv, ReceiveInv,
              Moved, cardVars, history
<1>3. ASSUME NEW r \in Requests, Start(r) PROVE SdInv'
  <2>1. r.op \in {"read", "write"}
    BY DEF Requests
  <2>2. CASE Taken(r) /\ stage' = "wait" /\ unanswered' = unanswered
             /\ dma' = (IF r.op = "read" THEN "rx" ELSE "tx")
    BY <1>3, <2>1, <2>2 DEF Start, Taken, SdTypeOK, StreamInv, BootInv, WaitInv, OkInv,
                            ReceiveInv, boardVars
  <2>3. CASE /\ stage' = "failed" /\ dma' = (IF r.op = "read" THEN "rx" ELSE dma)
             /\ Taken(r) /\ unanswered' = (unanswered \/ r.op = "write")
    BY <1>3, <2>1, <2>3 DEF Start, Taken, SdTypeOK, StreamInv, BootInv, WaitInv, OkInv,
                            ReceiveInv, boardVars
  <2>4. CASE /\ stage' = "failed" /\ dma' = (IF r.op = "read" THEN "rx" ELSE dma)
             /\ UNCHANGED <<card, xfer, several, unanswered>>
    BY <1>3, <2>4 DEF Start, SdTypeOK, StreamInv, BootInv, WaitInv, OkInv, ReceiveInv,
                      boardVars
  <2> QED
    BY <1>3, <2>2, <2>3, <2>4 DEF Start
<1>4. CASE Failed
  BY <1>4 DEF Failed, Finish, SdTypeOK, StreamInv, BootInv, WaitInv, OkInv, ReceiveInv,
              boardVars, cardVars,
              history
<1>5. CASE Poll
  BY <1>0, <1>5 DEF Poll, Finish, TxMoves, SdTypeOK, StreamInv, BootInv, WaitInv, OkInv,
                    ReceiveInv, Moved, boardVars, cardVars, history
<1>6. CASE CardReads
  <2>1. /\ buf' \in Data /\ damaged' \in BOOLEAN
        /\ dma = "rx" => damaged' \/ buf' = media[xfer.block]
        /\ damaged => damaged'
    BY <1>6, Zenon DEF CardReads, SdTypeOK, Requests
  <2> QED
    BY <1>6, <2>1 DEF CardReads, SdTypeOK, StreamInv, BootInv, WaitInv, OkInv, ReceiveInv,
                      Moved, boardVars
<1>7. CASE CardWrites
  <2>1. xfer.block \in Blocks /\ xfer.data \in Data /\ xfer.count \in Nat
    BY SdAssumption DEF SdTypeOK, Requests
  <2>2. PICK bad \in BOOLEAN :
          /\ damaged' = (damaged \/ bad)
          /\ media' = IF bad THEN media ELSE [media EXCEPT ![xfer.block] = xfer.data]
          /\ card' = IF xfer.count > 1 THEN card ELSE IF bad THEN "tran" ELSE "prg"
    BY <1>7 DEF CardWrites
  <2>3. /\ media' \in [Blocks -> Data]
        /\ damaged' \/ media'[xfer.block] = xfer.data
        /\ damaged' \in BOOLEAN /\ (damaged => damaged')
        /\ card' \in {card, "tran", "prg"} /\ (card' # card => ~(xfer.count > 1))
        /\ card' # card \/ xfer.count > 1 \/ card' \in {"tran", "prg"}
    BY <2>1, <2>2 DEF SdTypeOK
  <2> QED
    BY <1>7, <2>1, <2>3 DEF CardWrites, TxMoves, SdTypeOK, StreamInv, BootInv, WaitInv, OkInv,
                            ReceiveInv, Moved, boardVars
<1>8. CASE CardProgrammed
  BY <1>8 DEF CardProgrammed, SdTypeOK, StreamInv, BootInv, WaitInv, OkInv, ReceiveInv,
              Moved, boardVars, history
<1>9. CASE UNCHANGED sdVars
  BY <1>9 DEF sdVars, boardVars, cardVars, history, SdTypeOK, StreamInv, BootInv, WaitInv, OkInv,
              ReceiveInv, Moved
<1> QED
  BY <1>1, <1>2, <1>3, <1>4, <1>5, <1>6, <1>7, <1>8, <1>9 DEF SdNext

(* So it always holds.                                                        *)
LEMMA SdAlways == SdSpec => []SdInv
<1>1. SdInv /\ [SdNext]_sdVars => SdInv'
  BY SdInvNext
<1> QED
  BY SdInvInit, <1>1, PTL DEF SdSpec

-------------------------------------------------------------------------------
(* sdcard_read_disk and sdcard_write_disk return HAL_OK only with the card    *)
(* ready and the data moved, or after a data phase that failed, whose errors  *)
(* the driver does not see; and no write returns it once SPI5 has taken the   *)
(* stream.                                                                    *)
THEOREM OkHasMoved == SdSpec => []SdTruthful
<1>1. SdInv => SdTruthful
  BY DEF SdInv, OkInv, Moved, SdTruthful
<1> QED
  BY <1>1, SdAlways, PTL

(* The abort at the end of each call stops the stream: neither the caller's   *)
(* buffer nor the card changes between calls, whatever timed out.             *)
THEOREM BuffersAreOwned == SdSpec => BufferOwned
<1>1. SdInv /\ [SdNext]_sdVars => [stage = "idle" => buf' = buf /\ media' = media]_sdVars
  BY DEF SdInv, StreamInv, SdNext, sdVars, boardVars, cardVars, sdcard_driver_init,
         spi_driver_init, Start, Failed, Poll, CardReads, CardWrites, TxMoves, CardProgrammed
<1> QED
  BY <1>1, SdAlways, PTL DEF SdSpec, BufferOwned

(* The card is left waiting for data between calls only by a transfer of      *)
(* several blocks, a write whose command was not answered, or a stream that   *)
(* serves SPI5.                                                               *)
THEOREM CardIsBack == SdSpec => []CardComesBack
<1>1. SdInv => CardComesBack
  BY DEF SdInv, SdTypeOK, ReceiveInv, CardComesBack
<1> QED
  BY <1>1, SdAlways, PTL
===============================================================================
