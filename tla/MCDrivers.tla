------------------------------- MODULE MCDrivers -------------------------------
(* The drivers that run to their end in the task that calls them: the        *)
(* parameter store in the flash of the MCU, the serial flash, and the I2C    *)
(* bus.  They share nothing and no call of one is made within a call of      *)
(* another, so that a behaviour exercises one of them ("part") and leaves    *)
(* the others at their initial state.                                        *)
EXTENDS FlashStore, SpiFlash, SoftI2c

VARIABLE part

(* A device that answers and an address nobody has; two register numbers;    *)
(* one word and two.                                                         *)
OneDevice == <<1, 0>>
TwoAddrs == {<<1, 0>>, <<0, 1>>}
TwoMems == {<< <<0, 1, 1>> >>, << <<1, 0, 0>> >>}
ShortPayloads == {<< <<0, 0, 1>> >>, << <<1, 0, 1>>, <<0, 1, 1>> >>, << <<1, 1, 1>>, <<0, 0, 0>> >>}

(* Where a driver starts when another one is exercised. *)
StoreAtRest == header = [p \in Pages |-> "erased"]
SerialAtRest ==
  /\ mem = [s \in Sectors |-> NoData]
  /\ call.sector = CHOOSE s \in Sectors : TRUE
BusAtRest == req = CHOOSE r \in Request : TRUE

MCInit ==
  /\ Init /\ FlashInit /\ I2cInit
  /\ part \in {"store", "serial", "bus"}
  /\ part = "store" \/ StoreAtRest
  /\ part = "serial" \/ SerialAtRest
  /\ part = "bus" \/ BusAtRest

MCNext ==
  /\ UNCHANGED part
  /\ \/ part = "store" /\ Next /\ UNCHANGED <<flashVars, i2cVars>>
     \/ part = "serial" /\ FlashNext /\ UNCHANGED <<vars, i2cVars>>
     \/ part = "bus" /\ I2cNext /\ UNCHANGED <<vars, flashVars>>
===============================================================================
