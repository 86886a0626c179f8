------------------------------ MODULE MCFatfsLog -------------------------------
(* The log file, and the SD card under FatFs.  To the log file the card is   *)
(* an error of FatFs or none (DiskFails): a behaviour exercises one of them  *)
(* ("part") and leaves the other at its initial state.                       *)
EXTENDS FatfsLog, SdCard

VARIABLE part

MCInit ==
  /\ Init /\ SdInit
  /\ part \in {"log", "card"}
  /\ part = "log" => /\ SPI_RUN_MODE = "DMA"
                     /\ req = CHOOSE r \in Requests : TRUE
                     /\ \A b \in Blocks : media[b] = req.data
                     /\ buf = req.data

MCNext ==
  /\ UNCHANGED part
  /\ \/ part = "log" /\ Next /\ UNCHANGED sdVars
     \/ part = "card" /\ SdNext /\ UNCHANGED vars
===============================================================================
