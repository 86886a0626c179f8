-------------------------------- MODULE SdCard ---------------------------------
(***************************************************************************)
(* The SD card under the log file, Drivers/Src/drv_sdio_dma.c, as FatFs    *)
(* calls it (disk_interface.c), with the DMA stream it shares: the         *)
(* transmit stream of the card and the receive stream of the serial flash  *)
(* are both DMA2_Stream3, and driver_init sets up the card first and then  *)
(* the flash (drv_spi.c), whose HAL_DMA_Init gives the stream the requests *)
(* of SPI5.                                                                *)
(*                                                                         *)
(* The interrupts of the card and of its streams are not enabled: a call   *)
(* starts the DMA and polls the state of the card.  No interrupt means no  *)
(* stop command, which a transfer of several blocks needs, and nobody who  *)
(* looks at the errors of the data phase, DCRCFAIL, RXOVERR and TXUNDERR.  *)
(* The card (external) takes a transfer only in its transfer state.        *)
(***************************************************************************)
EXTENDS Naturals

CONSTANTS
  Blocks,      \* the blocks of the card
  Data,        \* what a block holds
  MaxBlocks,   \* most blocks FatFs asks for in a call
  Timeout      \* SDMMC_READ_WRITE_TIMEOUT

ASSUME SdAssumption == MaxBlocks \in Nat \ {0} /\ Timeout \in Nat \ {0}

VARIABLES
  SPI_RUN_MODE,   \* the build: "POLL" or "DMA"
  booted,         \* how far driver_init has come
  stream3,        \* whose requests DMA2_Stream3 serves
  card, media,    \* the state of the card, and its blocks
  xfer,           \* the call whose command the card took last
  req,            \* the call: operation, block, number of blocks, data
  stage, tick, ret,   \* where it is, its ticks and what it returned
  dma,            \* the stream the call has started: "rx", "tx" or "off"
  buf,            \* the buffer of the reader
  several,        \* history: a transfer of several blocks was started
  unanswered,     \* history: the response to the command of a write was lost
  damaged         \* history: the data phase of the call has failed

boardVars == <<SPI_RUN_MODE, booted, stream3>>
cardVars == <<card, media, xfer>>
history == <<several, unanswered, damaged>>
sdVars == <<boardVars, cardVars, req, stage, tick, ret, dma, buf, history>>

Requests == [op : {"read", "write"}, block : Blocks, count : 1 .. MaxBlocks, data : Data]

(* sdcard_driver_init, with the card in place. *)
sdcard_driver_init ==
  /\ booted = "none" /\ booted' = "sdcard"
  /\ stream3' = "SDIO_TX"
  /\ UNCHANGED <<SPI_RUN_MODE, cardVars, req, stage, tick, ret, dma, buf, history>>

(* spi_driver_init, which wq25_driver_init calls. *)
spi_driver_init ==
  /\ booted = "sdcard" /\ booted' = "done"
  /\ stream3' \in {stream3} \cup (IF SPI_RUN_MODE = "DMA" THEN {"SPI5_RX"} ELSE {})
  /\ UNCHANGED <<SPI_RUN_MODE, cardVars, req, stage, tick, ret, dma, buf, history>>

-------------------------------------------------------------------------------
(* The card takes the command of a call. *)
Taken(r) ==
  /\ card = "tran"
  /\ card' = IF r.op = "read" THEN "data" ELSE "rcv"
  /\ xfer' = r
  /\ several' = (several \/ r.count > 1)

(* Mutant: a write does not start its stream. *)
Start_NoWriteStream(r) ==
  /\ booted = "done" /\ stage = "idle"
  /\ req' = r /\ tick' = 0 /\ ret' = "none" /\ damaged' = FALSE
  /\ dma' = IF r.op = "read" THEN "rx" ELSE "off"
  /\ \/ Taken(r) /\ stage' = "wait" /\ UNCHANGED unanswered
     \/ stage' = "failed" /\ UNCHANGED <<card, xfer, several, unanswered>>
  /\ UNCHANGED <<boardVars, media, buf>>

(* sdcard_read_disk and sdcard_write_disk.  A read starts its stream before*)
(* the command and a write after it.  The card refuses the command outside *)
(* "tran"; if it takes it and its response is lost, the call fails too.    *)
Start(r) ==
  /\ booted = "done" /\ stage = "idle"
  /\ req' = r /\ tick' = 0 /\ ret' = "none" /\ damaged' = FALSE
  /\ \/ /\ Taken(r) /\ stage' = "wait"
        /\ dma' = IF r.op = "read" THEN "rx" ELSE "tx"
        /\ UNCHANGED unanswered
     \/ /\ stage' = "failed"
        /\ dma' = IF r.op = "read" THEN "rx" ELSE dma
        /\ \/ Taken(r) /\ unanswered' = (unanswered \/ r.op = "write")
           \/ UNCHANGED <<card, xfer, several, unanswered>>
  /\ UNCHANGED <<boardVars, media, buf>>

(* Mutant: the stream is not aborted. *)
Finish_NoAbort(s) == stage' = "idle" /\ ret' = s /\ UNCHANGED dma

(* State and lock are made ready again, the stream is aborted. *)
Finish(s) == stage' = "idle" /\ ret' = s /\ dma' = "off"

Failed ==
  /\ stage = "failed"
  /\ Finish("HAL_ERROR")
  /\ UNCHANGED <<boardVars, cardVars, req, tick, buf, history>>

(* The stream moves a block from memory within a tick. *)
TxMoves == card = "rcv" /\ dma = "tx" /\ stream3 = "SDIO_TX"

(* Mutant: the timeout is not reported. *)
Poll_Forgiving ==
  /\ stage = "wait"
  /\ \/ /\ tick < Timeout /\ ~TxMoves
        /\ tick' = tick + 1
        /\ UNCHANGED <<stage, ret, dma>>
     \/ /\ card = "tran" \/ tick >= Timeout
        /\ Finish("HAL_OK")
        /\ UNCHANGED tick
  /\ UNCHANGED <<boardVars, cardVars, req, buf, history>>

(* A status command that fails gives the state 0, which is not "tran". *)
Poll ==
  /\ stage = "wait"
  /\ \/ /\ tick < Timeout /\ ~TxMoves
        /\ tick' = tick + 1
        /\ UNCHANGED <<stage, ret, dma>>
     \/ /\ card = "tran" \/ tick >= Timeout
        /\ Finish(IF tick >= Timeout THEN "HAL_TIMEOUT" ELSE "HAL_OK")
        /\ UNCHANGED tick
  /\ UNCHANGED <<boardVars, cardVars, req, buf, history>>

-------------------------------------------------------------------------------
(* The card.  With several blocks it goes on until it is told to stop.     *)

(* A block that arrives with a bad CRC, or whose words overrun the FIFO. *)
CardReads ==
  /\ card = "data"
  /\ card' = IF xfer.count > 1 THEN card ELSE "tran"
  /\ \E bad \in BOOLEAN :
       /\ damaged' = (damaged \/ bad)
       /\ buf' \in IF dma # "rx" THEN {buf} ELSE IF bad THEN Data ELSE {media[xfer.block]}
  /\ UNCHANGED <<boardVars, media, xfer, req, stage, tick, ret, dma, several, unanswered>>

(* The card drops a block whose CRC is bad, as an underrun makes it. *)
CardWrites ==
  /\ TxMoves
  /\ \E bad \in BOOLEAN :
       /\ damaged' = (damaged \/ bad)
       /\ media' = IF bad THEN media ELSE [media EXCEPT ![xfer.block] = xfer.data]
       /\ card' = IF xfer.count > 1 THEN card ELSE IF bad THEN "tran" ELSE "prg"
  /\ UNCHANGED <<boardVars, xfer, req, stage, tick, ret, dma, buf, several, unanswered>>

CardProgrammed ==
  /\ card = "prg" /\ card' = "tran"
  /\ UNCHANGED <<boardVars, media, xfer, req, stage, tick, ret, dma, buf, history>>

SdInit ==
  /\ SPI_RUN_MODE \in {"POLL", "DMA"}
  /\ booted = "none" /\ stream3 = "none"
  /\ card = "tran" /\ media \in [Blocks -> Data]
  /\ req \in Requests /\ xfer = req /\ stage = "idle" /\ tick = 0 /\ ret = "none"
  /\ dma = "off" /\ buf \in Data
  /\ several = FALSE /\ unanswered = FALSE /\ damaged = FALSE

SdNext ==
  \/ sdcard_driver_init \/ spi_driver_init
  \/ \E r \in Requests : Start(r)
  \/ Failed \/ Poll
  \/ CardReads \/ CardWrites \/ CardProgrammed

SdSpec == SdInit /\ [][SdNext]_sdVars

-------------------------------------------------------------------------------
(* A call that returns HAL_OK has gone through its data phase: the card is *)
(* ready for the next command and, unless that phase failed, of which the  *)
(* driver learns nothing, the buffer holds the block or the card the data. *)
(* Once the stream serves SPI5, as in the build of the repository, no      *)
(* write returns it.                                                       *)
SdTruthful ==
  stage = "idle" /\ ret = "HAL_OK" =>
    /\ card = "tran"
    /\ req.op = "read" => damaged \/ buf = media[req.block]
    /\ req.op = "write" => damaged \/ media[req.block] = req.data
    /\ req.op = "write" => stream3 = "SDIO_TX"

(* Between calls nothing moves: a transfer that timed out or whose command *)
(* was not answered cannot reach a buffer its caller has reused, nor the   *)
(* card, any more.                                                         *)
BufferOwned == [][stage = "idle" => buf' = buf /\ media' = media]_sdVars

(* While the stream is the card's own, transfers are of one block and the  *)
(* commands of writes are answered, the card always comes back, whatever   *)
(* timed out.  A card left in "rcv" takes no command again: one write is   *)
(* enough when the stream serves SPI5, or when its response is lost.       *)
CardComesBack ==
  stage = "idle" /\ card = "rcv" => several \/ unanswered \/ stream3 # "SDIO_TX"
===============================================================================
