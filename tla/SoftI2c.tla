-------------------------------- MODULE SoftI2c --------------------------------
(***************************************************************************)
(* The I2C bus driven with two pins, UsrParts/soft_i2c/drv_soft_i2c.c: the *)
(* bus of the port expander (drv_i2c_pcf8574.c) and of the light sensor    *)
(* (drv_i2c_ap3216.c).  In each build a single task uses it once the       *)
(* drivers are up, one transfer at a time.                                 *)
(*                                                                         *)
(* SDA is open drain: low when the pin is an output at 0 or the device     *)
(* pulls.  One action is one operation on a pin, and the device (external) *)
(* reacts to the edge in the same step.  A transfer is the list of the     *)
(* functions it still has to run, "todo".  A wait loop is its exit: SDA    *)
(* cannot change while it spins, for a device drives on a clock edge.      *)
(* Delays are left out.  A word has W bits, a byte in the code.            *)
(***************************************************************************)
EXTENDS Naturals, Sequences

CONSTANTS
  W,          \* bits of a word (8 in the code)
  Device,     \* the address that answers, W - 1 bits
  Addrs,      \* the addresses callers use
  Mems,       \* the register numbers callers use, high word first
  Payloads,   \* what callers write, sequences of words
  ReadMax     \* longest read; callers never read 0 words

Bit == {0, 1}
Word == [1 .. W -> Bit]
Address == [1 .. W - 1 -> Bit]

(* No caller writes an empty payload. *)
ASSUME I2cAssumption ==
  /\ W \in Nat \ {0, 1}
  /\ Device \in Address /\ Addrs \subseteq Address
  /\ Mems \subseteq Seq(Word) /\ Payloads \subseteq Seq(Word) \ {<< >>}
  /\ ReadMax \in Nat

VARIABLES
  scl,          \* the level of SCL, only driven by the master
  out,          \* the SDA pin is an output (i2c_sda_config_out)
  odr,          \* the output register of the SDA pin
  is_i2c_init,
  req,          \* the arguments of the call
  todo,         \* the functions the call has yet to run
  step, index,  \* the pin operation and the bit within the first of them
  value,        \* the bits i2c_read_byte has read
  rdata,        \* what the call has read
  result,       \* what it returned; "none" before
  slave,        \* the device
  hung          \* a reset of the MCU left the device pulling SDA

pinVars == <<scl, out, odr>>
callVars == <<req, todo, step, index, value, rdata, result>>
i2cVars == <<pinVars, is_i2c_init, callVars, slave, hung>>

-------------------------------------------------------------------------------
(* The device: what it does at an edge.                                    *)

SlaveIdle == [mode |-> "idle", bits |-> << >>, addressed |-> FALSE, ack |-> FALSE,
              pull |-> FALSE, got |-> << >>, gave |-> << >>]

Started(s) == [s EXCEPT !.mode = "recv", !.bits = << >>, !.addressed = FALSE,
                        !.ack = FALSE, !.pull = FALSE]

Released(s) == [s EXCEPT !.mode = "idle", !.ack = FALSE, !.pull = FALSE]

(* SCL rises: a bit is sampled, or the master's answer to a word it read. *)
Rise(s, level) ==
  IF s.mode = "recv" /\ ~s.ack /\ Len(s.bits) < W
    THEN [s EXCEPT !.bits = Append(@, level)]
  ELSE IF s.mode = "send" /\ s.ack /\ level = 1
    THEN Released(s)
  ELSE s

SendWord(s, w) ==
  [s EXCEPT !.mode = "send", !.addressed = TRUE, !.ack = FALSE, !.bits = w,
            !.pull = (w[1] = 0), !.gave = Append(@, w)]

IsRead(s) == ~s.addressed /\ s.bits[W] = 1

Addressed(s) == s.addressed \/ \A i \in 1 .. W - 1 : s.bits[i] = Device[i]

(* SCL falls.  A complete word may be acknowledged, if it is for the device.*)
Fall(s) ==
  IF s.mode = "recv" /\ s.ack THEN
    IF IsRead(s) THEN {SendWord(s, w) : w \in Word}
    ELSE {[s EXCEPT !.addressed = TRUE, !.ack = FALSE, !.pull = FALSE, !.bits = << >>]}
  ELSE IF s.mode = "recv" /\ Len(s.bits) = W THEN
    {Released(s)} \cup
    (IF Addressed(s)
       THEN {[s EXCEPT !.ack = TRUE, !.pull = TRUE,
                       !.got = IF s.addressed THEN Append(@, s.bits) ELSE @]}
       ELSE {})
  ELSE IF s.mode = "send" /\ s.ack THEN {SendWord(s, w) : w \in Word}
  ELSE IF s.mode = "send" THEN
    {[s EXCEPT !.bits = Tail(@), !.ack = (Len(s.bits) = 1),
               !.pull = (Len(s.bits) > 1 /\ s.bits[2] = 0)]}
  ELSE {s}

React(s, scl0, sda0, scl1, sda1) ==
  IF scl0 = 0 /\ scl1 = 1 THEN {Rise(s, sda1)}
  ELSE IF scl0 = 1 /\ scl1 = 0 THEN Fall(s)
  ELSE IF scl0 = 1 /\ sda0 # sda1 THEN {IF sda1 = 0 THEN Started(s) ELSE Released(s)}
  ELSE {s}

-------------------------------------------------------------------------------
(* The pins.                                                               *)

Level(o, d, s) == IF (o /\ d = 0) \/ s.pull THEN 0 ELSE 1
SDA == Level(out, odr, slave)

Pins(scl1, out1, odr1) ==
  /\ scl' = scl1 /\ out' = out1 /\ odr' = odr1
  /\ slave' \in React(slave, scl, SDA, scl1, Level(out1, odr1, slave))

I2C_SCL_H == Pins(1, out, odr)
I2C_SCL_L == Pins(0, out, odr)
I2C_SDA(b) == Pins(scl, out, b)
i2c_sda_config_in == Pins(scl, FALSE, odr)
i2c_sda_config_out == Pins(scl, TRUE, odr)
NoPin == UNCHANGED <<pinVars, slave>>

At(fn, s) == todo # << >> /\ todo[1].fn = fn /\ step = s

NextStep == step' = step + 1 /\ UNCHANGED <<todo, index>>
Done == todo' = Tail(todo) /\ step' = 0 /\ index' = 0
(* The loop over the bits of a word. *)
NextBit == IF index + 1 < W THEN step' = 1 /\ index' = index + 1 /\ UNCHANGED todo
                            ELSE Done
Same == UNCHANGED <<is_i2c_init, req, hung>>
Keep == Same /\ UNCHANGED <<value, rdata, result>>

-------------------------------------------------------------------------------
(* The functions, a pin operation a step.                                  *)

i2c_idle_check ==
  \/ At("check", 0) /\ i2c_sda_config_in /\ NextStep /\ Keep
  \/ At("check", 1) /\ SDA = 1 /\ NoPin /\ Done /\ Keep
  \/ /\ At("check", 1) /\ SDA = 0 /\ NoPin
     /\ todo' = << >> /\ step' = 0 /\ index' = 0 /\ result' = "I2C_ERROR"
     /\ Same /\ UNCHANGED <<value, rdata>>

(* Mutant: the start of a repeated start leaves SDA as it is. *)
i2c_start_NoRelease ==
  \/ At("start", 0) /\ i2c_sda_config_out /\ NextStep /\ Keep
  \/ At("start", 1) /\ NoPin /\ NextStep /\ Keep
  \/ At("start", 2) /\ I2C_SCL_H /\ NextStep /\ Keep
  \/ At("start", 3) /\ I2C_SDA(0) /\ NextStep /\ Keep
  \/ At("start", 4) /\ I2C_SCL_L /\ Done /\ Keep

i2c_start ==
  \/ At("start", 0) /\ i2c_sda_config_out /\ NextStep /\ Keep
  \/ At("start", 1) /\ I2C_SDA(1) /\ NextStep /\ Keep
  \/ At("start", 2) /\ I2C_SCL_H /\ NextStep /\ Keep
  \/ At("start", 3) /\ I2C_SDA(0) /\ NextStep /\ Keep
  \/ At("start", 4) /\ I2C_SCL_L /\ Done /\ Keep

i2c_send_byte ==
  \/ At("send", 0) /\ i2c_sda_config_out /\ NextStep /\ Keep
  \/ At("send", 1) /\ I2C_SDA(todo[1].word[index + 1]) /\ NextStep /\ Keep
  \/ At("send", 2) /\ I2C_SCL_H /\ NextStep /\ Keep
  \/ At("send", 3) /\ I2C_SCL_L /\ NextBit /\ Keep

Stop == [fn |-> "stop"]

(* Mutant: the caller fails without a stop. *)
i2c_wait_ack_NoStop ==
  \/ At("ack", 0) /\ i2c_sda_config_in /\ NextStep /\ Keep
  \/ At("ack", 1) /\ SDA = 0 /\ NoPin /\ NextStep /\ Keep
  \/ /\ At("ack", 1) /\ SDA = 1 /\ NoPin
     /\ todo' = << >> /\ step' = 0 /\ index' = 0 /\ result' = "I2C_ERROR"
     /\ Same /\ UNCHANGED <<value, rdata>>
  \/ At("ack", 2) /\ I2C_SCL_H /\ NextStep /\ Keep
  \/ At("ack", 3) /\ I2C_SCL_L /\ Done /\ Keep

(* Without the acknowledgement the caller sends the stop and fails. *)
i2c_wait_ack ==
  \/ At("ack", 0) /\ i2c_sda_config_in /\ NextStep /\ Keep
  \/ At("ack", 1) /\ SDA = 0 /\ NoPin /\ NextStep /\ Keep
  \/ /\ At("ack", 1) /\ SDA = 1 /\ NoPin
     /\ todo' = <<Stop>> /\ step' = 0 /\ index' = 0 /\ result' = "I2C_ERROR"
     /\ Same /\ UNCHANGED <<value, rdata>>
  \/ At("ack", 2) /\ I2C_SCL_H /\ NextStep /\ Keep
  \/ At("ack", 3) /\ I2C_SCL_L /\ Done /\ Keep

(* Mutant: the last bit is taken without lowering the clock. *)
i2c_read_byte_HighClock ==
  \/ At("read", 0) /\ i2c_sda_config_in /\ NextStep /\ Keep
  \/ At("read", 1) /\ I2C_SCL_H /\ NextStep /\ Keep
  \/ /\ At("read", 2) /\ NoPin
     /\ value' = Append(value, SDA)
     /\ NextStep /\ Same /\ UNCHANGED <<rdata, result>>
  \/ At("read", 3) /\ index + 1 < W /\ I2C_SCL_L /\ NextBit /\ Keep
  \/ /\ At("read", 3) /\ index + 1 = W /\ NoPin /\ NextBit
     /\ rdata' = Append(rdata, value) /\ value' = << >>
     /\ Same /\ UNCHANGED result

i2c_read_byte ==
  \/ At("read", 0) /\ i2c_sda_config_in /\ NextStep /\ Keep
  \/ At("read", 1) /\ I2C_SCL_H /\ NextStep /\ Keep
  \/ /\ At("read", 2) /\ NoPin
     /\ value' = Append(value, SDA)
     /\ NextStep /\ Same /\ UNCHANGED <<rdata, result>>
  \/ At("read", 3) /\ index + 1 < W /\ I2C_SCL_L /\ NextBit /\ Keep
  \/ /\ At("read", 3) /\ index + 1 = W /\ I2C_SCL_L /\ NextBit
     /\ rdata' = Append(rdata, value) /\ value' = << >>
     /\ Same /\ UNCHANGED result

(* i2c_send_ack and i2c_send_nack, "reply" with the bit they send. *)
i2c_send_reply ==
  \/ At("reply", 0) /\ i2c_sda_config_out /\ NextStep /\ Keep
  \/ At("reply", 1) /\ I2C_SDA(todo[1].bit) /\ NextStep /\ Keep
  \/ At("reply", 2) /\ I2C_SCL_H /\ NextStep /\ Keep
  \/ At("reply", 3) /\ I2C_SCL_L /\ Done /\ Keep

i2c_stop ==
  \/ At("stop", 0) /\ i2c_sda_config_out /\ NextStep /\ Keep
  \/ At("stop", 1) /\ I2C_SDA(0) /\ NextStep /\ Keep
  \/ At("stop", 2) /\ I2C_SCL_H /\ NextStep /\ Keep
  \/ /\ At("stop", 3) /\ I2C_SDA(1) /\ Done
     /\ result' = IF result = "none" THEN "I2C_OK" ELSE result
     /\ Same /\ UNCHANGED <<value, rdata>>

-------------------------------------------------------------------------------
(* The calls.                                                              *)

Idle == todo = << >>

Start == [fn |-> "start"]
Sent(word) == <<[fn |-> "send", word |-> word], [fn |-> "ack"]>>
SentAll(words) ==
  [i \in 1 .. 2 * Len(words) |-> Sent(words[(i + 1) \div 2])[2 - (i % 2)]]
AddrWord(addr, rw) == [i \in 1 .. W |-> IF i = W THEN rw ELSE addr[i]]
ReadAll(size) == [i \in 1 .. 2 * size |->
                    IF i % 2 = 1 THEN [fn |-> "read"]
                    ELSE [fn |-> "reply", bit |-> IF i = 2 * size THEN 1 ELSE 0]]

Request ==
  [op : {"write"}, addr : Addrs, mem : Mems \cup {<< >>}, data : Payloads, size : {0}]
    \cup [op : {"read"}, addr : Addrs, mem : Mems \cup {<< >>}, data : {<< >>}, size : 1 .. ReadMax]

(* i2c_write_device and i2c_write_memory: the register number, then data. *)
WriteTodo(r) ==
  <<[fn |-> "check"], Start>> \o Sent(AddrWord(r.addr, 0)) \o SentAll(r.mem)
    \o SentAll(r.data) \o <<Stop>>

(* i2c_read_device starts with the address to read; i2c_read_memory writes *)
(* the register number first, and starts again.                            *)
ReadTodo(r) ==
  <<[fn |-> "check"], Start>>
    \o (IF r.mem = << >> THEN << >>
        ELSE Sent(AddrWord(r.addr, 0)) \o SentAll(r.mem) \o <<Start>>)
    \o Sent(AddrWord(r.addr, 1)) \o ReadAll(r.size) \o <<Stop>>

Call(r) ==
  /\ Idle
  /\ req' = r
  /\ todo' = IF ~is_i2c_init THEN << >> ELSE IF r.op = "write" THEN WriteTodo(r) ELSE ReadTodo(r)
  /\ result' = IF is_i2c_init THEN "none" ELSE "I2C_ERROR"
  /\ step' = 0 /\ index' = 0 /\ value' = << >> /\ rdata' = << >>
  /\ slave' = [slave EXCEPT !.got = << >>, !.gave = << >>]
  /\ UNCHANGED <<pinVars, is_i2c_init, hung>>

(* SDA is raised before the pin becomes an output; a second initialisation *)
(* changes nothing.                                                        *)
i2c_soft_init ==
  \/ /\ Idle /\ ~is_i2c_init
     /\ is_i2c_init' = TRUE /\ result' = "none"
     /\ todo' = <<[fn |-> "init"]>> /\ step' = 0 /\ index' = 0
     /\ UNCHANGED <<pinVars, slave, req, value, rdata, hung>>
  \/ At("init", 0) /\ I2C_SDA(1) /\ NextStep /\ Keep
  \/ At("init", 1) /\ i2c_sda_config_out /\ Done /\ Keep

i2c_soft_deinit ==
  /\ Idle /\ is_i2c_init
  /\ is_i2c_init' = FALSE /\ result' = "none"
  /\ UNCHANGED <<pinVars, slave, req, todo, step, index, value, rdata, hung>>

(* The MCU restarts and the pins float, both lines rising in either order; *)
(* the device keeps its state, and its hold of SDA.                        *)
Reset ==
  /\ scl' = 1 /\ out' = FALSE /\ odr' = 0
  /\ \E mid \in {<<1, SDA>>, <<scl, Level(FALSE, 0, slave)>>} :
       \E s \in React(slave, scl, SDA, mid[1], mid[2]) :
         slave' \in React(s, mid[1], mid[2], 1, Level(FALSE, 0, s))
  /\ hung' = slave'.pull
  /\ is_i2c_init' = FALSE /\ todo' = << >> /\ step' = 0 /\ index' = 0
  /\ value' = << >> /\ rdata' = << >> /\ result' = "none"
  /\ UNCHANGED req

I2cInit ==
  /\ scl = 1 /\ out = FALSE /\ odr = 0
  /\ is_i2c_init = FALSE
  /\ req \in Request
  /\ todo = << >> /\ step = 0 /\ index = 0 /\ value = << >> /\ rdata = << >>
  /\ result = "none"
  /\ slave = SlaveIdle
  /\ hung = FALSE

I2cNext ==
  \/ i2c_idle_check \/ i2c_start \/ i2c_send_byte \/ i2c_wait_ack
  \/ i2c_read_byte \/ i2c_send_reply \/ i2c_stop
  \/ \E r \in Request : Call(r)
  \/ i2c_soft_init \/ i2c_soft_deinit \/ Reset

I2cSpec == I2cInit /\ [][I2cNext]_i2cVars

-------------------------------------------------------------------------------
Called == Idle /\ result # "none"

(* While SCL is high SDA moves only in the start and in the stop of a      *)
(* transfer, so that no bit, no acknowledgement and no change of the pin's *)
(* direction is taken by the device for a start or a stop.                 *)
BusRules ==
  [][scl = 1 /\ scl' = 1 /\ SDA' # SDA /\ todo # << >>
       => todo[1].fn \in {"start", "stop"} \/ Reset]_i2cVars

(* A call that returns I2C_OK has delivered every word of the register     *)
(* number and of the data, in order and once, or has read the words the    *)
(* device sent; a write that failed delivered fewer, and a call never      *)
(* delivers anything else, even one cut by a restart.                      *)
Delivered ==
  /\ \E n \in 0 .. Len(req.mem \o req.data) :
       slave.got = SubSeq(req.mem \o req.data, 1, n)
  /\ Called => /\ result = "I2C_OK" => slave.got = req.mem \o req.data
               /\ result = "I2C_OK" => rdata = slave.gave /\ Len(rdata) = req.size
               /\ result = "I2C_ERROR" /\ req.op = "write"
                    => Len(slave.got) < Len(req.mem \o req.data)

(* When a call has returned, with or without an error, both lines are high *)
(* and the device waits for a start.  The one way to lose the bus is a     *)
(* restart of the MCU while the device pulls SDA: i2c_soft_init gives no   *)
(* clock, every later call fails its idle check and the device gets        *)
(* nothing.                                                                *)
BusReleased ==
  /\ Called /\ ~hung => scl = 1 /\ SDA = 1
  /\ Called /\ result = "I2C_OK" => slave.mode = "idle"
  /\ hung => slave.pull /\ scl = 1 /\ result # "I2C_OK"
  /\ hung /\ Called => slave.got = << >>
===============================================================================
