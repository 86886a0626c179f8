---------------------------- MODULE SoftI2c_proofs -----------------------------
(* BusRules, Delivered and BusReleased, for every width of a word of at least *)
(* two bits, every list of register numbers and payloads, and whatever the    *)
(* device answers.                                                            *)
EXTENDS SoftI2c, SequenceTheorems, TLAPS

(* The functions between the first start and the stop of a transfer. *)
Inner == {"start", "send", "ack", "read", "reply"}

Function ==
  [fn : {"check", "start", "ack", "read", "stop", "init"}]
    \cup [fn : {"send"}, word : Word] \cup [fn : {"reply"}, bit : Bit]

(* The call ends with the stop, or is the initialisation; the check comes     *)
(* first and a start follows it.                                              *)
Shape(s) ==
  /\ s \in Seq(Function)
  /\ \A i \in 1 .. Len(s) : i > 1 => s[i].fn \in Inner \cup {"stop"}
  /\ \A i \in 1 .. Len(s) : s[i].fn \in {"stop", "init"} <=> i = Len(s)
  /\ s # << >> /\ s[1].fn = "check" => Len(s) > 1 /\ s[2].fn = "start"

(* Where SCL is low: until the pin has been given its level and direction.    *)
ClockLow(fn) ==
  \/ fn \in {"send", "reply", "ack"} /\ step \in {0, 1, 2}
  \/ fn = "read" /\ step \in {0, 1}

Resting == todo = << >> \/ (todo # << >> /\ todo[1].fn \in {"check", "init"})

BusInv ==
  /\ scl \in Bit
  /\ Shape(todo)
  /\ todo # << >> => (ClockLow(todo[1].fn) => scl = 0)
  /\ Resting /\ out => odr = 1
  /\ At("init", 1) => odr = 1

-------------------------------------------------------------------------------
(* The lists that calls begin with.                                           *)

(* A word that is sent is a byte and an acknowledgement.                      *)
LEMMA SentFunctions ==
  ASSUME NEW w \in Word
  PROVE  Sent(w) \in Seq(Function) /\ Len(Sent(w)) = 2
         /\ \A i \in 1 .. 2 : Sent(w)[i] \in Function /\ Sent(w)[i].fn \in Inner
BY DEF Sent, Function, Inner

(* Any number of words is made of those ...                                   *)
LEMMA SentAllFunctions ==
  ASSUME NEW ws \in Seq(Word)
  PROVE  SentAll(ws) \in Seq(Function)
         /\ \A i \in 1 .. Len(SentAll(ws)) : SentAll(ws)[i].fn \in Inner
<1> DEFINE n == 2 * Len(ws)
<1>1. n \in Nat
  OBVIOUS
<1>2. ASSUME NEW i \in 1 .. n
      PROVE  SentAll(ws)[i] \in Function /\ SentAll(ws)[i].fn \in Inner
  <2>1. (i + 1) \div 2 \in 1 .. Len(ws) /\ 2 - (i % 2) \in 1 .. 2
    OBVIOUS
  <2>2. ws[(i + 1) \div 2] \in Word
    BY <2>1
  <2> QED
    BY <2>1, <2>2, SentFunctions DEF SentAll
<1>3. SentAll(ws) = [i \in 1 .. n |-> SentAll(ws)[i]]
  BY DEF SentAll
<1>4. SentAll(ws) \in Seq(Function) /\ Len(SentAll(ws)) = n
  BY <1>1, <1>2, <1>3
<1> QED
  BY <1>2, <1>4

(* ... and a read of bytes and replies.                                       *)
LEMMA ReadAllFunctions ==
  ASSUME NEW size \in Nat
  PROVE  ReadAll(size) \in Seq(Function)
         /\ \A i \in 1 .. Len(ReadAll(size)) : ReadAll(size)[i].fn \in Inner
<1> DEFINE n == 2 * size
<1>1. n \in Nat
  OBVIOUS
<1>2. ASSUME NEW i \in 1 .. n
      PROVE  ReadAll(size)[i] \in Function /\ ReadAll(size)[i].fn \in Inner
  BY DEF ReadAll, Function, Inner, Bit
<1>3. ReadAll(size) = [i \in 1 .. n |-> ReadAll(size)[i]]
  BY DEF ReadAll
<1>4. ReadAll(size) \in Seq(Function) /\ Len(ReadAll(size)) = n
  BY <1>1, <1>2, <1>3
<1> QED
  BY <1>2, <1>4

(* Functions of the middle of a transfer join to longer middles;              *)
LEMMA InnerGrows ==
  ASSUME NEW s \in Seq(Function), \A i \in 1 .. Len(s) : s[i].fn \in Inner,
         NEW t \in Seq(Function), \A i \in 1 .. Len(t) : t[i].fn \in Inner
  PROVE  s \o t \in Seq(Function) /\ \A i \in 1 .. Len(s \o t) : (s \o t)[i].fn \in Inner
<1>1. s \o t \in Seq(Function) /\ Len(s \o t) = Len(s) + Len(t)
  OBVIOUS
<1>2. \A i \in 1 .. Len(s) + Len(t) : (s \o t)[i] = IF i <= Len(s) THEN s[i] ELSE t[i - Len(s)]
  OBVIOUS
<1> QED
  BY <1>1, <1>2

(* The head of a call: the check, a start, and functions of the transfer.     *)
Begun(s) == /\ s \in Seq(Function) /\ Len(s) > 1
            /\ s[1].fn = "check" /\ s[2].fn = "start"
            /\ \A i \in 2 .. Len(s) : s[i].fn \in Inner

(* a beginning that is followed by a middle is a beginning;                   *)
LEMMA BegunGrows ==
  ASSUME NEW s, Begun(s), NEW t \in Seq(Function),
         \A i \in 1 .. Len(t) : t[i].fn \in Inner
  PROVE  Begun(s \o t)
<1>1. s \o t \in Seq(Function) /\ Len(s \o t) = Len(s) + Len(t)
  BY DEF Begun
<1>2. \A i \in 1 .. Len(s) + Len(t) : (s \o t)[i] = IF i <= Len(s) THEN s[i] ELSE t[i - Len(s)]
  BY DEF Begun
<1> QED
  BY <1>1, <1>2 DEF Begun

(* and one that is followed by the stop is a call.                            *)
LEMMA BegunStops ==
  ASSUME NEW s, Begun(s)
  PROVE  Shape(s \o <<Stop>>) /\ (s \o <<Stop>>)[1].fn = "check"
<1>1. <<Stop>> \in Seq(Function) /\ Len(<<Stop>>) = 1 /\ <<Stop>>[1].fn = "stop"
  BY DEF Stop, Function
<1> DEFINE t == <<Stop>>
<1> HIDE DEF t
<1>2. s \o t \in Seq(Function) /\ Len(s \o t) = Len(s) + 1
  BY <1>1 DEF Begun, t
<1>3. \A i \in 1 .. Len(s) : (s \o t)[i] = s[i]
  BY <1>1 DEF Begun, t
<1>4. (s \o t)[Len(s) + 1].fn = "stop"
  BY <1>1 DEF Begun, t
<1>5. Shape(s \o t) /\ (s \o t)[1].fn = "check"
  BY <1>2, <1>3, <1>4 DEF Begun, Shape, Inner
<1> QED
  BY <1>5 DEF t

(* The address and the direction are a word.                                  *)
LEMMA AddrIsWord ==
  ASSUME NEW a \in Address, NEW b \in Bit
  PROVE  AddrWord(a, b) \in Word
BY I2cAssumption DEF AddrWord, Address, Word, Bit

(* The check and the start are a beginning.                                   *)
LEMMA BegunOpens ==
  Begun(<<[fn |-> "check"], Start>>) /\ <<Start>> \in Seq(Function)
    /\ Len(<<Start>>) = 1 /\ <<Start>>[1].fn \in Inner
BY DEF Begun, Start, Function, Inner

(* What callers ask for is made of words.                                     *)
LEMMA RequestFields ==
  ASSUME NEW r \in Request
  PROVE  /\ r.op \in {"write", "read"} /\ r.addr \in Address /\ r.mem \in Seq(Word)
         /\ r.op = "write" => r.data \in Seq(Word)
         /\ r.op = "read" => r.size \in Nat
<1>1. r.op \in {"write", "read"} /\ r.addr \in Addrs /\ r.mem \in Mems \cup {<< >>}
  BY DEF Request
<1>2. /\ r.op = "write" => r.data \in Payloads
      /\ r.op = "read" => r.size \in 1 .. ReadMax
  BY DEF Request
<1>3. << >> \in Seq(Word)
  OBVIOUS
<1>4. Addrs \subseteq Address /\ Mems \subseteq Seq(Word) /\ Payloads \subseteq Seq(Word)
      /\ ReadMax \in Nat
  BY I2cAssumption
<1>5. r.addr \in Address /\ r.mem \in Seq(Word)
  BY <1>1, <1>3, <1>4
<1>6. r.op = "write" => r.data \in Seq(Word)
  BY <1>2, <1>4
<1>7. r.op = "read" => r.size \in Nat
  BY <1>2, <1>4
<1> QED
  BY <1>1, <1>5, <1>6, <1>7

(* Hence a write has the shape of a call ...                                  *)
LEMMA WriteShape ==
  ASSUME NEW r \in Request, r.op = "write"
  PROVE  Shape(WriteTodo(r)) /\ WriteTodo(r)[1].fn = "check"
<1>1. r.addr \in Address /\ r.mem \in Seq(Word) /\ r.data \in Seq(Word)
  BY RequestFields
<1> DEFINE a == <<[fn |-> "check"], Start>>
           b == Sent(AddrWord(r.addr, 0))
           c == SentAll(r.mem)
           d == SentAll(r.data)
<1>2. Begun(a)
  BY BegunOpens
<1>3. AddrWord(r.addr, 0) \in Word
  BY <1>1, AddrIsWord DEF Bit
<1>4. b \in Seq(Function) /\ \A i \in 1 .. Len(b) : b[i].fn \in Inner
  BY <1>3, SentFunctions
<1>5. c \in Seq(Function) /\ \A i \in 1 .. Len(c) : c[i].fn \in Inner
  BY <1>1, SentAllFunctions
<1>6. d \in Seq(Function) /\ \A i \in 1 .. Len(d) : d[i].fn \in Inner
  BY <1>1, SentAllFunctions
<1>7. WriteTodo(r) = a \o b \o c \o d \o <<Stop>>
  BY DEF WriteTodo
<1> HIDE DEF a, b, c, d
<1>8. Begun(a \o b)
  BY <1>2, <1>4, BegunGrows
<1>9. Begun(a \o b \o c)
  BY <1>8, <1>5, BegunGrows
<1>10. Begun(a \o b \o c \o d)
  BY <1>9, <1>6, BegunGrows
<1> QED
  BY <1>7, <1>10, BegunStops

(* ... and so has a read.                                                     *)
LEMMA ReadShape ==
  ASSUME NEW r \in Request, r.op = "read"
  PROVE  Shape(ReadTodo(r)) /\ ReadTodo(r)[1].fn = "check"
<1>1. r.addr \in Address /\ r.mem \in Seq(Word) /\ r.size \in Nat
  BY RequestFields
<1> DEFINE a == <<[fn |-> "check"], Start>>
           b == Sent(AddrWord(r.addr, 0))
           c == SentAll(r.mem)
           e == Sent(AddrWord(r.addr, 1))
           f == ReadAll(r.size)
           g == IF r.mem = << >> THEN << >> ELSE b \o c \o <<Start>>
<1>2. Begun(a)
  BY BegunOpens
<1>3. AddrWord(r.addr, 0) \in Word /\ AddrWord(r.addr, 1) \in Word
  BY <1>1, AddrIsWord DEF Bit
<1>4. /\ b \in Seq(Function) /\ \A i \in 1 .. Len(b) : b[i].fn \in Inner
      /\ e \in Seq(Function) /\ \A i \in 1 .. Len(e) : e[i].fn \in Inner
  BY <1>3, SentFunctions
<1>5. c \in Seq(Function) /\ \A i \in 1 .. Len(c) : c[i].fn \in Inner
  BY <1>1, SentAllFunctions
<1>6. f \in Seq(Function) /\ \A i \in 1 .. Len(f) : f[i].fn \in Inner
  BY <1>1, ReadAllFunctions
<1>7. ReadTodo(r) = a \o g \o e \o f \o <<Stop>>
  BY DEF ReadTodo
<1>8. g = << >> \/ g = b \o c \o <<Start>>
  OBVIOUS
<1> HIDE DEF a, b, c, e, f, g
<1>9. b \o c \in Seq(Function) /\ \A i \in 1 .. Len(b \o c) : (b \o c)[i].fn \in Inner
  BY <1>4, <1>5, InnerGrows
<1>10. g \in Seq(Function) /\ \A i \in 1 .. Len(g) : g[i].fn \in Inner
  <2>1. CASE g = << >>
    BY <2>1
  <2>2. CASE g = b \o c \o <<Start>>
    <3>1. <<Start>> \in Seq(Function) /\ \A i \in 1 .. Len(<<Start>>) : <<Start>>[i].fn \in Inner
      BY BegunOpens
    <3> QED
      BY <2>2, <3>1, <1>9, InnerGrows
  <2> QED
    BY <1>8, <2>1, <2>2
<1>11. Begun(a \o g)
  BY <1>2, <1>10, BegunGrows
<1>12. Begun(a \o g \o e)
  BY <1>11, <1>4, BegunGrows
<1>13. Begun(a \o g \o e \o f)
  BY <1>12, <1>6, BegunGrows
<1> QED
  BY <1>7, <1>13, BegunStops

-------------------------------------------------------------------------------
(* A function that is over leaves a list of the same shape.                   *)
LEMMA TailShape ==
  ASSUME Shape(todo), todo # << >>
  PROVE  /\ Shape(Tail(todo))
         /\ todo[1].fn \in {"stop", "init"} => Tail(todo) = << >>
         /\ todo[1].fn \notin {"stop", "init"} =>
              Tail(todo) # << >> /\ Tail(todo)[1].fn \in Inner \cup {"stop"}
         /\ todo[1].fn = "check" => Tail(todo)[1].fn = "start"
<1> DEFINE t == Tail(todo)
           n == Len(todo)
<1>1. todo \in Seq(Function) /\ n \in Nat /\ n > 0
  BY DEF Shape
<1>2. t \in Seq(Function) /\ Len(t) = n - 1 /\ \A i \in 1 .. n - 1 : t[i] = todo[i + 1]
  BY <1>1
<1>3. /\ \A i \in 1 .. n : i > 1 => todo[i].fn \in Inner \cup {"stop"}
      /\ \A i \in 1 .. n : todo[i].fn \in {"stop", "init"} <=> i = n
      /\ todo[1].fn = "check" => n > 1 /\ todo[2].fn = "start"
  BY DEF Shape
<1> HIDE DEF t, n
<1>4. \A i \in 1 .. n - 1 : t[i].fn \in Inner \cup {"stop"}
  BY <1>1, <1>2, <1>3
<1>5. \A i \in 1 .. n - 1 : t[i].fn \in {"stop", "init"} <=> i = n - 1
  BY <1>1, <1>2, <1>3
<1>6. Shape(t)
  BY <1>1, <1>2, <1>4, <1>5 DEF Shape, Inner
<1>7. todo[1].fn \in {"stop", "init"} <=> n = 1
  BY <1>1, <1>3
<1>8. n = 1 <=> t = << >>
  BY <1>1, <1>2
<1>9. n > 1 => t[1] = todo[2] /\ t[1].fn \in Inner \cup {"stop"}
  BY <1>1, <1>2, <1>4
<1> QED
  BY <1>1, <1>3, <1>6, <1>7, <1>8, <1>9 DEF t

(* A step that moves neither line is not seen by the device.                  *)
LEMMA QuietReact ==
  ASSUME NEW s, NEW c \in {0, 1}, NEW d \in {0, 1}
  PROVE  React(s, c, d, c, d) = {s}
BY DEF React
-------------------------------------------------------------------------------
(* The functions, one after the other, keep the invariant.                    *)

(* A function that ends leaves the lines as the next one needs them.          *)
LEMMA DoneKeeps ==
  ASSUME BusInv, todo # << >>, Done, scl' \in Bit,
         todo[1].fn \in {"stop", "init"} => odr' = 1,
         todo[1].fn \notin {"check", "stop", "init"} => scl' = 0
  PROVE  BusInv'
<1>1. Shape(todo)
  BY DEF BusInv
<1>2. Shape(todo') /\ step' = 0 /\ todo' = Tail(todo)
  BY <1>1, TailShape DEF Done
<1>3. CASE todo[1].fn \in {"stop", "init"}
  <2>1. todo' = << >>
    BY <1>1, <1>2, <1>3, TailShape
  <2> QED
    BY <1>2, <1>3, <2>1 DEF BusInv, Resting, At
<1>4. CASE todo[1].fn \notin {"stop", "init"}
  <2>1. /\ todo' # << >> /\ todo'[1].fn \in Inner \cup {"stop"}
        /\ todo[1].fn = "check" => todo'[1].fn = "start"
    BY <1>1, <1>2, <1>4, TailShape
  <2> QED
    BY <1>2, <1>4, <2>1 DEF BusInv, Resting, At, ClockLow, Inner
<1> QED
  BY <1>3, <1>4

(* A pin operation within a function leaves the rest of the call alone.       *)
LEMMA StepKeeps ==
  ASSUME BusInv, todo # << >>, NextStep, step \in {0, 1, 2, 3}, scl' \in Bit,
         ClockLow(todo[1].fn)' => scl' = 0,
         todo[1].fn = "check" /\ out' => odr' = 1,
         todo[1].fn = "init" => odr' = 1
  PROVE  BusInv'
BY DEF BusInv, NextStep, Resting, At

(* A call that fails its check, or an acknowledgement that does not come.     *)
LEMMA StopShape == Shape(<< >>) /\ Shape(<<Stop>>)
BY DEF Shape, Stop, Function, Inner

(* i2c_idle_check turns to the start or gives up.                             *)
LEMMA CheckKeeps == ASSUME BusInv, i2c_idle_check PROVE BusInv'
<1> USE DEF Bit
<1>1. CASE At("check", 0) /\ i2c_sda_config_in /\ NextStep
  BY <1>1, StepKeeps DEF At, i2c_sda_config_in, Pins, BusInv, ClockLow, NextStep
<1>2. CASE At("check", 1) /\ NoPin /\ Done
  BY <1>2, DoneKeeps DEF At, NoPin, pinVars, BusInv
<1>3. CASE At("check", 1) /\ NoPin /\ todo' = << >>
  BY <1>3, StopShape DEF At, NoPin, pinVars, BusInv, Resting
<1> QED
  BY <1>1, <1>2, <1>3 DEF i2c_idle_check

(* i2c_start ends with the clock low.                                         *)
LEMMA StartKeeps == ASSUME BusInv, i2c_start PROVE BusInv'
<1> USE DEF Bit
<1>1. ASSUME NEW k \in {0, 1, 2, 3}, At("start", k), NextStep, scl' \in Bit PROVE BusInv'
  BY <1>1, StepKeeps DEF At, ClockLow, NextStep
<1>2. CASE At("start", 4) /\ I2C_SCL_L /\ Done
  BY <1>2, DoneKeeps DEF At, I2C_SCL_L, Pins
<1> QED
  BY <1>1, <1>2 DEF i2c_start, i2c_sda_config_out, I2C_SDA, I2C_SCL_H, Pins, BusInv

(* i2c_send_byte changes the data while the clock is low.                     *)
LEMMA SendKeeps == ASSUME BusInv, i2c_send_byte PROVE BusInv'
<1> USE DEF Bit
<1>1. ASSUME NEW k \in {0, 1}, At("send", k), NextStep, scl' = scl PROVE BusInv'
  BY <1>1, StepKeeps DEF At, ClockLow, NextStep, BusInv
<1>2. CASE At("send", 2) /\ I2C_SCL_H /\ NextStep
  BY <1>2, StepKeeps DEF At, ClockLow, NextStep, BusInv, I2C_SCL_H, Pins
<1>3. CASE At("send", 3) /\ I2C_SCL_L /\ NextBit
  <2>1. CASE Done
    BY <1>3, <2>1, DoneKeeps DEF At, I2C_SCL_L, Pins
  <2>2. CASE UNCHANGED todo
    BY <1>3, <2>2 DEF At, I2C_SCL_L, Pins, BusInv, Resting
  <2> QED
    BY <1>3, <2>1, <2>2 DEF NextBit
<1> QED
  BY <1>1, <1>2, <1>3 DEF i2c_send_byte, i2c_sda_config_out, I2C_SDA, Pins

(* i2c_wait_ack turns the pin while the clock is low, or goes to the stop.    *)
LEMMA AckKeeps == ASSUME BusInv, i2c_wait_ack PROVE BusInv'
<1> USE DEF Bit
<1>1. ASSUME NEW k \in {0, 1}, At("ack", k), NextStep, scl' = scl PROVE BusInv'
  BY <1>1, StepKeeps DEF At, ClockLow, NextStep, BusInv
<1>2. CASE At("ack", 1) /\ NoPin /\ todo' = <<Stop>>
  BY <1>2, StopShape DEF At, NoPin, pinVars, BusInv, Resting, ClockLow, Stop
<1>3. CASE At("ack", 2) /\ I2C_SCL_H /\ NextStep
  BY <1>3, StepKeeps DEF At, ClockLow, NextStep, BusInv, I2C_SCL_H, Pins
<1>4. CASE At("ack", 3) /\ I2C_SCL_L /\ Done
  BY <1>4, DoneKeeps DEF At, I2C_SCL_L, Pins
<1> QED
  BY <1>1, <1>2, <1>3, <1>4 DEF i2c_wait_ack, i2c_sda_config_in, NoPin, pinVars, Pins

(* i2c_read_byte leaves the pin an input and the clock low.                   *)
LEMMA ReadKeeps == ASSUME BusInv, i2c_read_byte PROVE BusInv'
<1> USE DEF Bit
<1>1. CASE At("read", 0) /\ i2c_sda_config_in /\ NextStep
  BY <1>1, StepKeeps DEF At, ClockLow, NextStep, BusInv, i2c_sda_config_in, Pins
<1>2. ASSUME NEW k \in {1, 2}, At("read", k), NextStep, scl' \in Bit PROVE BusInv'
  BY <1>2, StepKeeps DEF At, ClockLow, NextStep
<1>3. CASE At("read", 3) /\ I2C_SCL_L /\ NextBit
  <2>1. CASE Done
    BY <1>3, <2>1, DoneKeeps DEF At, I2C_SCL_L, Pins
  <2>2. CASE UNCHANGED todo
    BY <1>3, <2>2 DEF At, I2C_SCL_L, Pins, BusInv, Resting
  <2> QED
    BY <1>3, <2>1, <2>2 DEF NextBit
<1> QED
  BY <1>1, <1>2, <1>3 DEF i2c_read_byte, NoPin, pinVars, I2C_SCL_H, Pins, BusInv

(* i2c_send_ack and i2c_send_nack drive the pin while the clock is low.       *)
LEMMA ReplyKeeps == ASSUME BusInv, i2c_send_reply PROVE BusInv'
<1> USE DEF Bit
<1>1. ASSUME NEW k \in {0, 1}, At("reply", k), NextStep, scl' = scl PROVE BusInv'
  BY <1>1, StepKeeps DEF At, ClockLow, NextStep, BusInv
<1>2. CASE At("reply", 2) /\ I2C_SCL_H /\ NextStep
  BY <1>2, StepKeeps DEF At, ClockLow, NextStep, BusInv, I2C_SCL_H, Pins
<1>3. CASE At("reply", 3) /\ I2C_SCL_L /\ Done
  BY <1>3, DoneKeeps DEF At, I2C_SCL_L, Pins
<1> QED
  BY <1>1, <1>2, <1>3 DEF i2c_send_reply, i2c_sda_config_out, I2C_SDA, Pins

(* i2c_stop leaves the pin at 1.                                              *)
LEMMA StopKeeps == ASSUME BusInv, i2c_stop PROVE BusInv'
<1> USE DEF Bit
<1>1. ASSUME NEW k \in {0, 1, 2}, At("stop", k), NextStep, scl' \in Bit PROVE BusInv'
  BY <1>1, StepKeeps DEF At, ClockLow, NextStep
<1>2. CASE At("stop", 3) /\ I2C_SDA(1) /\ Done
  BY <1>2, DoneKeeps DEF At, I2C_SDA, Pins, BusInv
<1> QED
  BY <1>1, <1>2 DEF i2c_stop, i2c_sda_config_out, I2C_SDA, I2C_SCL_H, Pins, BusInv

(* The initialisation raises the pin before it drives it.                     *)
LEMMA SoftInitKeeps == ASSUME BusInv, i2c_soft_init PROVE BusInv'
<1> USE DEF Bit
<1>1. CASE Idle /\ todo' = <<[fn |-> "init"]>> /\ step' = 0 /\ UNCHANGED pinVars
  <2>1. Shape(<<[fn |-> "init"]>>)
    BY DEF Shape, Function, Inner
  <2> QED
    BY <1>1, <2>1 DEF Idle, pinVars, BusInv, Resting, At, ClockLow
<1>2. CASE At("init", 0) /\ I2C_SDA(1) /\ NextStep
  BY <1>2, StepKeeps DEF At, I2C_SDA, Pins, NextStep, ClockLow, BusInv
<1>3. CASE At("init", 1) /\ i2c_sda_config_out /\ Done
  BY <1>3, DoneKeeps DEF At, i2c_sda_config_out, Pins, BusInv
<1> QED
  BY <1>1, <1>2, <1>3 DEF i2c_soft_init

(* A call begins with a list of the right shape.                              *)
LEMMA CallKeeps ==
  ASSUME BusInv, NEW r \in Request, Call(r)
  PROVE  BusInv'
<1>1. Shape(todo')
  BY WriteShape, ReadShape, RequestFields, StopShape DEF Call
<1>2. todo' = << >> \/ todo'[1].fn = "check"
  BY WriteShape, ReadShape, RequestFields DEF Call
<1> QED
  BY <1>1, <1>2 DEF Call, Idle, pinVars, BusInv, Resting, At, ClockLow

(* The lines start released.                                                  *)
LEMMA BusInvInit == I2cInit => BusInv
BY StopShape DEF I2cInit, BusInv, Bit, Resting, At

(* No step of the bus breaks the invariant.                                   *)
LEMMA BusInvNext == ASSUME BusInv, [I2cNext]_i2cVars PROVE BusInv'
<1>1. ASSUME NEW r \in Request, Call(r) PROVE BusInv'
  BY <1>1, CallKeeps
<1>2. CASE i2c_soft_deinit
  BY <1>2 DEF i2c_soft_deinit, Idle, pinVars, BusInv, Resting, At, ClockLow
<1>3. CASE Reset
  BY <1>3, StopShape DEF Reset, BusInv, Bit, Resting, At
<1>4. CASE UNCHANGED i2cVars
  BY <1>4 DEF i2cVars, pinVars, callVars, BusInv, Resting, At, ClockLow
<1> QED
  BY <1>1, <1>2, <1>3, <1>4, CheckKeeps, StartKeeps, SendKeeps, AckKeeps, ReadKeeps,
     ReplyKeeps, StopKeeps, SoftInitKeeps DEF I2cNext

(* So it always holds.                                                        *)
LEMMA BusAlways == I2cSpec => []BusInv
<1>1. BusInv /\ [I2cNext]_i2cVars => BusInv'
  BY BusInvNext
<1> QED
  BY BusInvInit, <1>1, PTL DEF I2cSpec

-------------------------------------------------------------------------------
(* A pin operation that leaves the clock and the level that the master gives  *)
(* SDA leaves SDA alone: the device answers edges only.                       *)
LEMMA QuietPins ==
  ASSUME BusInv, scl = 1, NEW o, NEW d, Pins(1, o, d), (o /\ d = 0) <=> (out /\ odr = 0)
  PROVE  SDA' = SDA
<1>1. Level(o, d, slave) = SDA
  BY DEF SDA, Level
<1>2. React(slave, scl, SDA, 1, Level(o, d, slave)) = {slave}
  BY <1>1 DEF React
<1>3. slave' = slave /\ out' = o /\ odr' = d
  BY <1>2 DEF Pins
<1> QED
  BY <1>1, <1>3 DEF SDA

(* Only the functions that make a start or a stop move SDA under a high clock.*)
LEMMA QuietStep ==
  ASSUME BusInv, I2cNext, scl = 1, scl' = 1, todo # << >>,
         todo[1].fn \notin {"start", "stop"}, ~Reset
  PROVE  SDA' = SDA
<1>1. ~Idle
  BY DEF Idle
<1>2. ASSUME NoPin PROVE SDA' = SDA
  BY <1>2 DEF NoPin, pinVars, SDA, Level
<1>3. CASE i2c_idle_check
  <2>1. ASSUME At("check", 0), i2c_sda_config_in PROVE SDA' = SDA
    <3>1. Pins(1, FALSE, odr)
      BY <2>1 DEF i2c_sda_config_in
    <3>2. (FALSE /\ odr = 0) <=> (out /\ odr = 0)
      BY <2>1 DEF At, BusInv, Resting
    <3> QED
      BY <3>1, <3>2, QuietPins, Zenon
  <2> QED
    BY <1>2, <1>3, <2>1 DEF i2c_idle_check
<1>4. CASE i2c_soft_init
  <2>1. ASSUME At("init", 0), I2C_SDA(1) PROVE SDA' = SDA
    BY <2>1, QuietPins DEF At, I2C_SDA, BusInv, Resting
  <2>2. ASSUME At("init", 1), i2c_sda_config_out PROVE SDA' = SDA
    <3>1. Pins(1, TRUE, odr)
      BY <2>2 DEF i2c_sda_config_out
    <3>2. (TRUE /\ odr = 0) <=> (out /\ odr = 0)
      BY <2>2 DEF At, BusInv, Resting
    <3> QED
      BY <3>1, <3>2, QuietPins, Zenon
  <2> QED
    BY <1>1, <1>4, <2>1, <2>2 DEF i2c_soft_init
<1>5. CASE i2c_send_byte
  BY <1>5 DEF i2c_send_byte, At, I2C_SCL_L, Pins, BusInv, ClockLow
<1>6. CASE i2c_wait_ack
  BY <1>6 DEF i2c_wait_ack, At, I2C_SCL_L, Pins, BusInv, ClockLow
<1>7. CASE i2c_read_byte
  BY <1>2, <1>7 DEF i2c_read_byte, At, I2C_SCL_L, Pins, BusInv, ClockLow
<1>8. CASE i2c_send_reply
  BY <1>8 DEF i2c_send_reply, At, I2C_SCL_L, Pins, BusInv, ClockLow
<1>9. ~i2c_start /\ ~i2c_stop
  BY DEF i2c_start, i2c_stop, At
<1>10. ~i2c_soft_deinit /\ ~\E r \in Request : Call(r)
  BY <1>1 DEF i2c_soft_deinit, Call
<1> QED
  BY <1>3, <1>4, <1>5, <1>6, <1>7, <1>8, <1>9, <1>10 DEF I2cNext

(* No bit, acknowledgement or change of the pin's direction of any transfer   *)
(* moves SDA under a high clock, where the device would see a start or a stop.*)
THEOREM RulesAreKept == I2cSpec => BusRules
<1>1. BusInv /\ [I2cNext]_i2cVars =>
        [scl = 1 /\ scl' = 1 /\ SDA' # SDA /\ todo # << >>
           => todo[1].fn \in {"start", "stop"} \/ Reset]_i2cVars
  BY QuietStep
<1> QED
  BY <1>1, BusAlways, PTL DEF I2cSpec, BusRules

-------------------------------------------------------------------------------
(* The phases of a transfer.                                                 *)

(* What the device is told: the register number and the data. *)
Words(r) == r.mem \o r.data

(* Lists of functions: a word that is sent, a start and a word, words read.   *)
Acked == [fn |-> "ack"]
SendThen(w, rest) == <<[fn |-> "send", word |-> w]>> \o (<<Acked>> \o rest)
StartThen(w, rest) == <<Start>> \o SendThen(w, rest)
ReadThenStop(k) == ReadAll(k) \o <<Stop>>

(* What follows the words of a call. *)
Ending(r) == IF r.op = "write" THEN <<Stop>>
             ELSE StartThen(AddrWord(r.addr, 1), ReadThenStop(r.size))

(* The words a call sends: the kind of each, what follows it and what the     *)
(* device has been delivered before it.                                       *)
OpeningLegs(r) ==
  IF r.op = "read" /\ r.mem = << >> THEN {}
  ELSE {[kind |-> "addr", word |-> AddrWord(r.addr, 0),
         rest |-> SentAll(Words(r)) \o Ending(r), done |-> << >>]}
DataLegs(r) ==
  {[kind |-> "data", word |-> Words(r)[j],
    rest |-> SentAll(SubSeq(Words(r), j + 1, Len(Words(r)))) \o Ending(r),
    done |-> SubSeq(Words(r), 1, j - 1)] : j \in 1 .. Len(Words(r))}
ReadLegs(r) ==
  IF r.op = "read"
    THEN {[kind |-> "addr", word |-> AddrWord(r.addr, 1),
           rest |-> ReadThenStop(r.size), done |-> Words(r)]}
    ELSE {}
Legs(r) == OpeningLegs(r) \cup DataLegs(r) \cup ReadLegs(r)

(* The states of the device. *)
SlaveState ==
  [mode : {"idle", "recv", "send"}, bits : Seq(Bit), addressed : BOOLEAN, ack : BOOLEAN,
   pull : BOOLEAN, got : Seq(Word), gave : Seq(Word)]

(* The device is in the middle of a word: the first is its address.           *)
Listening(s, kind, bits) ==
  /\ s.mode = "recv" /\ ~s.ack /\ ~s.pull /\ s.bits = bits
  /\ s.addressed <=> kind = "data"

(* It holds the acknowledgement of a word, or has not answered to it.         *)
Taken(s, leg) ==
  /\ s.mode = "recv" /\ s.ack /\ s.pull /\ s.bits = leg.word
  /\ s.addressed <=> leg.kind = "data"
  /\ s.got = IF leg.kind = "data" THEN Append(leg.done, leg.word) ELSE leg.done

Refused(s, leg) == s.mode = "idle" /\ ~s.pull /\ s.got = leg.done

(* Nothing has been read and nothing has failed.                              *)
Fresh == /\ rdata = << >> /\ value = << >> /\ slave.gave = << >>
         /\ result = "none" /\ ~hung

(* No call, or a call that only initialises the pins.                         *)
Between ==
  /\ todo = << >> \/ todo = <<[fn |-> "init"]>>
  /\ scl = 1 /\ (hung <=> slave.pull)
  /\ result \in {"none", "I2C_OK", "I2C_ERROR"}
  /\ todo # << >> => result = "none"
  /\ result = "I2C_OK" =>
       /\ slave.mode = "idle" /\ ~hung /\ slave.got = Words(req)
       /\ rdata = slave.gave /\ Len(rdata) = req.size
  /\ result = "I2C_ERROR" =>
       /\ req.op = "write" => Len(slave.got) < Len(Words(req))
       /\ hung => slave.got = << >>

(* i2c_check_bus, before the first start.                                     *)
Checking ==
  /\ \E leg \in Legs(req) :
       /\ leg.kind = "addr" /\ leg.done = << >>
       /\ todo = <<[fn |-> "check"]>> \o StartThen(leg.word, leg.rest)
  /\ scl = 1 /\ (hung <=> slave.pull) /\ slave.got = << >> /\ slave.gave = << >>
  /\ rdata = << >> /\ value = << >> /\ result = "none"
  /\ step = 1 => ~out

(* A start, or a repeated start, and the word of a leg follows.               *)
Starting(leg) ==
  /\ Fresh /\ leg.kind = "addr"
  /\ todo = StartThen(leg.word, leg.rest) /\ step \in 0 .. 4
  /\ ~slave.pull /\ slave.got = leg.done
  /\ step >= 1 => out
  /\ step \in {2, 3} => odr = 1
  /\ step >= 3 => scl = 1
  /\ step = 4 => Listening(slave, "addr", << >>)

(* The bits of a word: the device has taken those the clock has passed.       *)
Sending(leg) ==
  /\ Fresh
  /\ todo = SendThen(leg.word, leg.rest) /\ step \in 0 .. 3 /\ index \in 0 .. W - 1
  /\ scl = IF step = 3 THEN 1 ELSE 0
  /\ step = 0 => index = 0
  /\ step >= 1 => out
  /\ step \in {2, 3} => odr = leg.word[index + 1]
  /\ slave.got = leg.done
  /\ Listening(slave, leg.kind, SubSeq(leg.word, 1, IF step = 3 THEN index + 1 ELSE index))

(* The acknowledgement of a word.                                             *)
Acking(leg) ==
  /\ Fresh
  /\ todo = <<Acked>> \o leg.rest /\ step \in 0 .. 3 /\ index = 0
  /\ scl = IF step = 3 THEN 1 ELSE 0
  /\ step >= 1 => ~out
  /\ Taken(slave, leg) \/ (step < 2 /\ Refused(slave, leg))

(* A word is read, and k with it are still to be read: what the device gives  *)
(* is what has been read, what is being read and the bits it still holds.     *)
Reading(k) ==
  /\ todo = ReadThenStop(k) /\ step \in 0 .. 3 /\ index \in 0 .. W - 1
  /\ Len(rdata) + k = req.size /\ req.op = "read" /\ result = "none" /\ ~hung
  /\ scl = IF step >= 2 THEN 1 ELSE 0
  /\ step = 0 => index = 0
  /\ step >= 1 => ~out
  /\ slave.mode = "send" /\ ~slave.ack /\ slave.bits # << >>
  /\ slave.pull <=> slave.bits[1] = 0
  /\ slave.got = Words(req)
  /\ Len(slave.bits) = W - index
  /\ value \in Seq(Bit) /\ rdata \in Seq(Word)
  /\ Len(value) = IF step = 3 THEN index + 1 ELSE index
  /\ slave.gave = Append(rdata, value \o (IF step = 3 THEN Tail(slave.bits) ELSE slave.bits))

(* The master's acknowledgement of a word read, when k are still to be read.  *)
Replying(k) ==
  /\ todo = <<[fn |-> "reply", bit |-> IF k = 0 THEN 1 ELSE 0]>> \o ReadThenStop(k)
  /\ step \in 0 .. 3 /\ index = 0
  /\ Len(rdata) + k = req.size /\ req.op = "read" /\ result = "none" /\ ~hung
  /\ scl = IF step = 3 THEN 1 ELSE 0
  /\ step >= 1 => out
  /\ step \in {2, 3} => odr = IF k = 0 THEN 1 ELSE 0
  /\ slave.got = Words(req) /\ slave.gave = rdata /\ value = << >>
  /\ ~slave.pull
  /\ IF step = 3 /\ k = 0 THEN slave.mode = "idle" ELSE slave.mode = "send" /\ slave.ack

(* The stop that every call ends with.                                        *)
Stopping ==
  /\ todo = <<Stop>> /\ step \in 0 .. 3 /\ ~hung
  /\ scl = IF step = 3 THEN 1 ELSE 0
  /\ step >= 1 => out
  /\ step \in {2, 3} => odr = 0
  /\ ~slave.pull /\ slave.mode \in {"idle", "recv"}
  /\ \/ result = "none" /\ slave.got = Words(req) /\ rdata = slave.gave /\ Len(rdata) = req.size
     \/ result = "I2C_ERROR" /\ (req.op = "write" => Len(slave.got) < Len(Words(req)))

(* What the device has been delivered is always a prefix of what it is told.  *)
Kept == /\ req \in Request /\ slave \in SlaveState
        /\ \E n \in 0 .. Len(Words(req)) : slave.got = SubSeq(Words(req), 1, n)

(* A transfer is in one of its phases.                                        *)
Phase == \/ Between \/ Checking \/ Stopping
         \/ \E leg \in Legs(req) : Starting(leg) \/ Sending(leg) \/ Acking(leg)
         \/ \E k \in 1 .. req.size : Reading(k)
         \/ \E k \in 0 .. req.size - 1 : Replying(k)

(* With BusInv, the inductive invariant of Delivered and BusReleased.         *)
XferInv == Kept /\ Phase

-------------------------------------------------------------------------------
(* The lists of functions, and the words and replies in them.                *)

(* The elements of two lists that are joined,                                *)
LEMMA JoinedElements ==
  ASSUME NEW S, NEW s \in Seq(S), NEW t \in Seq(S)
  PROVE  /\ s \o t \in Seq(S) /\ Len(s \o t) = Len(s) + Len(t)
         /\ \A i \in 1 .. Len(s) : (s \o t)[i] = s[i]
         /\ \A i \in 1 .. Len(t) : (s \o t)[i + Len(s)] = t[i]
<1>1. s \o t \in Seq(S) /\ Len(s \o t) = Len(s) + Len(t)
  OBVIOUS
<1>2. \A i \in 1 .. Len(s) + Len(t) : (s \o t)[i] = IF i <= Len(s) THEN s[i] ELSE t[i - Len(s)]
  OBVIOUS
<1>3. Len(s) \in Nat /\ Len(t) \in Nat
  OBVIOUS
<1>4. ASSUME NEW i \in 1 .. Len(t) PROVE (s \o t)[i + Len(s)] = t[i]
  <2>1. i + Len(s) \in 1 .. Len(s) + Len(t) /\ ~(i + Len(s) <= Len(s))
        /\ (i + Len(s)) - Len(s) = i
    BY <1>3
  <2> QED
    BY <1>2, <2>1
<1>5. \A i \in 1 .. Len(s) : (s \o t)[i] = s[i]
  BY <1>2, <1>3
<1> QED
  BY <1>1, <1>4, <1>5

(* and the list that has them.                                               *)
LEMMA IsJoined ==
  ASSUME NEW S, NEW s \in Seq(S), NEW t \in Seq(S), NEW u \in Seq(S),
         Len(u) = Len(s) + Len(t),
         \A i \in 1 .. Len(s) : u[i] = s[i],
         \A i \in 1 .. Len(t) : u[i + Len(s)] = t[i]
  PROVE  u = s \o t
<1> DEFINE v == s \o t
<1>1. /\ v \in Seq(S) /\ Len(v) = Len(s) + Len(t)
      /\ \A i \in 1 .. Len(s) : v[i] = s[i]
      /\ \A i \in 1 .. Len(t) : v[i + Len(s)] = t[i]
  BY JoinedElements
<1>2. Len(s) \in Nat /\ Len(t) \in Nat
  OBVIOUS
<1> HIDE DEF v
<1>3. ASSUME NEW i \in 1 .. Len(u) PROVE u[i] = v[i]
  <2>1. CASE i <= Len(s)
    BY <1>1, <1>2, <2>1
  <2>2. CASE i > Len(s)
    <3>1. i - Len(s) \in 1 .. Len(t) /\ (i - Len(s)) + Len(s) = i
      BY <1>2, <2>2
    <3>2. u[(i - Len(s)) + Len(s)] = t[i - Len(s)] /\ v[(i - Len(s)) + Len(s)] = t[i - Len(s)]
      BY <1>1, <3>1
    <3> QED
      BY <3>1, <3>2
  <2> QED
    BY <1>2, <2>1, <2>2
<1>4. u = v
  BY <1>1, <1>3, SeqEqual
<1> QED
  BY <1>4 DEF v

(* What is run next and what remains of a list.                              *)
LEMMA HeadOfList ==
  ASSUME NEW f, NEW rest \in Seq(Function), f \in Function
  PROVE  LET s == <<f>> \o rest IN
         s \in Seq(Function) /\ s # << >> /\ s[1] = f /\ Tail(s) = rest
<1> DEFINE t == <<f>>
           s == t \o rest
<1>1. t \in Seq(Function) /\ Len(t) = 1 /\ t[1] = f
  OBVIOUS
<1> HIDE DEF t
<1>2. /\ s \in Seq(Function) /\ Len(s) = 1 + Len(rest)
      /\ s[1] = t[1]
      /\ \A i \in 1 .. Len(rest) : s[i + 1] = rest[i]
  <2>1. /\ s \in Seq(Function) /\ Len(s) = Len(t) + Len(rest)
        /\ \A i \in 1 .. Len(t) : s[i] = t[i]
        /\ \A i \in 1 .. Len(rest) : s[i + Len(t)] = rest[i]
    <3>1. t \in Seq(Function) /\ rest \in Seq(Function)
      BY <1>1
    <3> QED
      BY <3>1, JoinedElements
  <2> HIDE DEF s
  <2> QED
    BY <1>1, <2>1
<1> HIDE DEF s
<1>3. s # << >> /\ s[1] = f
  BY <1>1, <1>2
<1>4. Tail(s) \in Seq(Function) /\ Len(Tail(s)) = Len(rest)
        /\ \A i \in 1 .. Len(rest) : Tail(s)[i] = rest[i]
  BY <1>2, <1>3, HeadTailProperties
<1>5. Tail(s) = rest
  BY <1>4, SeqEqual
<1> QED
  BY <1>2, <1>3, <1>5 DEF s, t

(* The functions that words are sent with.                                   *)
LEMMA ByName ==
  /\ Acked \in Function /\ Start \in Function /\ Stop \in Function
  /\ [fn |-> "check"] \in Function /\ [fn |-> "read"] \in Function
  /\ [fn |-> "init"] \in Function
  /\ \A w \in Word : [fn |-> "send", word |-> w] \in Function
  /\ \A b \in Bit : [fn |-> "reply", bit |-> b] \in Function
BY DEF Acked, Start, Stop, Function

(* A word to send, and then the rest.                                        *)
LEMMA SendThenList ==
  ASSUME NEW w \in Word, NEW rest \in Seq(Function)
  PROVE  /\ SendThen(w, rest) \in Seq(Function) /\ SendThen(w, rest) # << >>
         /\ SendThen(w, rest)[1] = [fn |-> "send", word |-> w]
         /\ Tail(SendThen(w, rest)) = <<Acked>> \o rest
         /\ <<Acked>> \o rest \in Seq(Function) /\ <<Acked>> \o rest # << >>
         /\ (<<Acked>> \o rest)[1] = Acked /\ Tail(<<Acked>> \o rest) = rest
<1>1. <<Acked>> \o rest \in Seq(Function) /\ <<Acked>> \o rest # << >>
      /\ (<<Acked>> \o rest)[1] = Acked /\ Tail(<<Acked>> \o rest) = rest
  BY ByName, HeadOfList
<1> DEFINE a == <<Acked>> \o rest
           f == [fn |-> "send", word |-> w]
<1>2. f \in Function /\ a \in Seq(Function)
  BY ByName, <1>1
<1> HIDE DEF a, f
<1>3. <<f>> \o a \in Seq(Function) /\ <<f>> \o a # << >>
      /\ (<<f>> \o a)[1] = f /\ Tail(<<f>> \o a) = a
  BY <1>2, HeadOfList
<1> QED
  BY <1>1, <1>3 DEF a, f, SendThen

(* The same after a start.                                                   *)
LEMMA StartThenList ==
  ASSUME NEW w \in Word, NEW rest \in Seq(Function)
  PROVE  /\ StartThen(w, rest) \in Seq(Function) /\ StartThen(w, rest) # << >>
         /\ StartThen(w, rest)[1] = Start
         /\ Tail(StartThen(w, rest)) = SendThen(w, rest)
<1>1. SendThen(w, rest) \in Seq(Function)
  BY SendThenList
<1> QED
  BY <1>1, ByName, HeadOfList DEF StartThen

(* Words are sent in their order.                                            *)
LEMMA SentAllStep ==
  ASSUME NEW ws \in Seq(Word), ws # << >>, NEW rest \in Seq(Function)
  PROVE  SentAll(ws) \o rest = SendThen(ws[1], SentAll(Tail(ws)) \o rest)
<1> DEFINE t == Tail(ws)
           n == Len(ws)
           a == SentAll(ws)
           b == SentAll(t)
           f == [fn |-> "send", word |-> ws[1]]
<1>1. n \in Nat /\ n > 0 /\ ws[1] \in Word
  OBVIOUS
<1>2. t \in Seq(Word) /\ Len(t) = n - 1 /\ \A i \in 1 .. n - 1 : t[i] = ws[i + 1]
  OBVIOUS
<1> HIDE DEF t
<1>3. a \in Seq(Function) /\ b \in Seq(Function)
  BY <1>2, SentAllFunctions
<1>4. Len(a) = 2 * n /\ Len(b) = 2 * (n - 1)
  BY <1>1, <1>2 DEF SentAll
<1>5. \A i \in 1 .. 2 * n : a[i] = Sent(ws[(i + 1) \div 2])[2 - (i % 2)]
  BY DEF SentAll
<1>6. \A i \in 1 .. 2 * (n - 1) : b[i] = Sent(t[(i + 1) \div 2])[2 - (i % 2)]
  BY <1>2 DEF SentAll
<1> HIDE DEF a, b, n
<1>7. a[1] = f /\ a[2] = Acked
  <2>1. (1 + 1) \div 2 = 1 /\ 2 - (1 % 2) = 1 /\ (2 + 1) \div 2 = 1 /\ 2 - (2 % 2) = 2
    OBVIOUS
  <2>2. a[1] = Sent(ws[1])[1] /\ a[2] = Sent(ws[1])[2]
    BY <1>1, <1>5, <2>1
  <2> QED
    BY <2>2 DEF Sent, Acked
<1>8. ASSUME NEW i \in 1 .. 2 * (n - 1) PROVE a[i + 2] = b[i]
  <2>1. (i + 2 + 1) \div 2 = (i + 1) \div 2 + 1 /\ (i + 2) % 2 = i % 2
        /\ (i + 1) \div 2 \in 1 .. n - 1
    BY <1>1
  <2>2. a[i + 2] = Sent(ws[(i + 1) \div 2 + 1])[2 - (i % 2)]
    BY <1>1, <1>5, <2>1
  <2>3. ws[(i + 1) \div 2 + 1] = t[(i + 1) \div 2]
    BY <1>2, <2>1
  <2> QED
    BY <1>6, <2>2, <2>3
<1> DEFINE c == <<f, Acked>>
<1>9. c \in Seq(Function) /\ Len(c) = 2 /\ c[1] = f /\ c[2] = Acked
  BY ByName, <1>1
<1>10. c = <<f>> \o <<Acked>> /\ <<f>> \in Seq(Function) /\ <<Acked>> \in Seq(Function)
  BY ByName, <1>1
<1> HIDE DEF c, f
<1>11. a = c \o b
  <2>1. Len(a) = Len(c) + Len(b)
    BY <1>1, <1>4, <1>9
  <2>2. \A i \in 1 .. Len(c) : a[i] = c[i]
    BY <1>7, <1>9
  <2>3. \A i \in 1 .. Len(b) : a[i + Len(c)] = b[i]
    BY <1>4, <1>8, <1>9
  <2> QED
    BY <1>3, <1>9, <2>1, <2>2, <2>3, IsJoined
<1>12. a \o rest = c \o (b \o rest) /\ b \o rest \in Seq(Function)
  BY <1>3, <1>9, <1>11, ConcatAssociative, ConcatProperties
<1>13. c \o (b \o rest) = <<f>> \o (<<Acked>> \o (b \o rest))
  BY <1>10, <1>12, ConcatAssociative
<1> QED
  BY <1>12, <1>13 DEF a, b, t, f, SendThen

(* No word, nothing to send.                                                 *)
LEMMA SentAllNone ==
  ASSUME NEW rest \in Seq(Function)
  PROVE  SentAll(<< >>) \o rest = rest
<1>1. SentAll(<< >>) \in Seq(Function) /\ Len(SentAll(<< >>)) = 0
  <2>1. << >> \in Seq(Word) /\ Len(<< >>) = 0
    OBVIOUS
  <2> DEFINE ws == << >>
  <2> HIDE DEF ws
  <2>2. ws \in Seq(Word) /\ Len(ws) = 0
    BY <2>1 DEF ws
  <2>3. SentAll(ws) \in Seq(Function)
    BY <2>2, SentAllFunctions
  <2>4. DOMAIN SentAll(ws) = 1 .. 2 * Len(ws)
    BY DEF SentAll
  <2>5. Len(SentAll(ws)) = 0
    BY <2>2, <2>3, <2>4
  <2> QED
    BY <2>3, <2>5 DEF ws
<1>2. SentAll(<< >>) = << >>
  BY <1>1
<1> QED
  BY <1>2, ConcatEmptySeq

(* The register number and the data are sent as one list of words.           *)
LEMMA SentAllJoins ==
  ASSUME NEW u \in Seq(Word), NEW v \in Seq(Word)
  PROVE  SentAll(u) \o SentAll(v) = SentAll(u \o v)
<1> DEFINE a == SentAll(u)
           b == SentAll(v)
           w == u \o v
           c == SentAll(w)
           m == Len(u)
           n == Len(v)
<1>1. m \in Nat /\ n \in Nat
  OBVIOUS
<1>2. /\ w \in Seq(Word) /\ Len(w) = m + n
      /\ \A i \in 1 .. m : w[i] = u[i]
      /\ \A i \in 1 .. n : w[i + m] = v[i]
  BY JoinedElements
<1> HIDE DEF w
<1>3. a \in Seq(Function) /\ b \in Seq(Function) /\ c \in Seq(Function)
  BY <1>2, SentAllFunctions
<1>4. Len(a) = 2 * m /\ Len(b) = 2 * n /\ Len(c) = 2 * (m + n)
  BY <1>1, <1>2 DEF SentAll
<1>5. \A i \in 1 .. 2 * m : a[i] = Sent(u[(i + 1) \div 2])[2 - (i % 2)]
  BY DEF SentAll
<1>6. \A i \in 1 .. 2 * n : b[i] = Sent(v[(i + 1) \div 2])[2 - (i % 2)]
  BY DEF SentAll
<1>7. \A i \in 1 .. 2 * (m + n) : c[i] = Sent(w[(i + 1) \div 2])[2 - (i % 2)]
  BY <1>2 DEF SentAll
<1> HIDE DEF a, b, c, m, n
<1>8. ASSUME NEW i \in 1 .. 2 * m PROVE c[i] = a[i]
  <2>1. (i + 1) \div 2 \in 1 .. m /\ i \in 1 .. 2 * (m + n)
    BY <1>1
  <2>2. w[(i + 1) \div 2] = u[(i + 1) \div 2]
    BY <1>2, <2>1
  <2> QED
    BY <1>5, <1>7, <2>1, <2>2
<1>9. ASSUME NEW i \in 1 .. 2 * n PROVE c[i + 2 * m] = b[i]
  <2>1. (i + 1) \div 2 \in 1 .. n /\ i + 2 * m \in 1 .. 2 * (m + n)
        /\ (i + 2 * m + 1) \div 2 = (i + 1) \div 2 + m /\ (i + 2 * m) % 2 = i % 2
    BY <1>1
  <2>2. w[(i + 1) \div 2 + m] = v[(i + 1) \div 2]
    BY <1>2, <2>1
  <2>3. c[i + 2 * m] = Sent(w[(i + 1) \div 2 + m])[2 - (i % 2)]
    BY <1>7, <2>1
  <2> QED
    BY <1>6, <2>2, <2>3
<1>10. Len(c) = Len(a) + Len(b)
  BY <1>1, <1>4
<1>11. c = a \o b
  <2>1. \A i \in 1 .. Len(a) : c[i] = a[i]
    BY <1>4, <1>8
  <2>2. \A i \in 1 .. Len(b) : c[i + Len(a)] = b[i]
    BY <1>4, <1>9
  <2> QED
    BY <1>3, <1>10, <2>1, <2>2, IsJoined
<1> QED
  BY <1>11 DEF a, b, c, w

(* A read of k words is one of them, its answer and a read of the others.    *)
LEMMA ReadStep ==
  ASSUME NEW k \in Nat
  PROVE  /\ ReadThenStop(k) \in Seq(Function) /\ ReadThenStop(k) # << >>
         /\ k = 0 => ReadThenStop(k) = <<Stop>>
         /\ k > 0 =>
              /\ ReadThenStop(k)[1] = [fn |-> "read"]
              /\ Tail(ReadThenStop(k)) =
                   <<[fn |-> "reply", bit |-> IF k = 1 THEN 1 ELSE 0]>> \o ReadThenStop(k - 1)
<1>0. <<Stop>> \in Seq(Function)
  BY ByName
<1>1. ReadAll(k) \in Seq(Function) /\ Len(ReadAll(k)) = 2 * k
  BY ReadAllFunctions DEF ReadAll
<1>2. ReadThenStop(k) \in Seq(Function) /\ Len(ReadThenStop(k)) = 2 * k + 1
  <2>1. Len(<<Stop>>) = 1
    OBVIOUS
  <2> QED
    BY <1>0, <1>1, <2>1, ConcatProperties DEF ReadThenStop
<1>3. ReadThenStop(k) # << >>
  BY <1>2
<1>4. ASSUME k = 0 PROVE ReadThenStop(k) = <<Stop>>
  <2>1. ReadAll(k) = << >>
    BY <1>1, <1>4
  <2> QED
    BY <2>1, <1>0, ConcatEmptySeq DEF ReadThenStop
<1>5. ASSUME k > 0
      PROVE  /\ ReadThenStop(k)[1] = [fn |-> "read"]
             /\ Tail(ReadThenStop(k)) =
                   <<[fn |-> "reply", bit |-> IF k = 1 THEN 1 ELSE 0]>> \o ReadThenStop(k - 1)
  <2> DEFINE f == [fn |-> "read"]
             g == [fn |-> "reply", bit |-> IF k = 1 THEN 1 ELSE 0]
             a == ReadAll(k)
             b == ReadAll(k - 1)
             c == <<f, g>>
  <2>1. f \in Function /\ g \in Function
    BY ByName DEF Bit
  <2>2. c \in Seq(Function) /\ Len(c) = 2 /\ c[1] = f /\ c[2] = g
    BY <2>1
  <2>3. c = <<f>> \o <<g>> /\ <<f>> \in Seq(Function) /\ <<g>> \in Seq(Function)
    BY <2>1
  <2>4. b \in Seq(Function) /\ Len(b) = 2 * (k - 1)
    BY <1>5, ReadAllFunctions DEF ReadAll
  <2>5. \A i \in 1 .. 2 * k : a[i] = IF i % 2 = 1 THEN [fn |-> "read"]
                                    ELSE [fn |-> "reply", bit |-> IF i = 2 * k THEN 1 ELSE 0]
    BY DEF ReadAll
  <2>6. \A i \in 1 .. 2 * (k - 1) : b[i] = IF i % 2 = 1 THEN [fn |-> "read"]
                                    ELSE [fn |-> "reply", bit |-> IF i = 2 * (k - 1) THEN 1 ELSE 0]
    BY DEF ReadAll
  <2>7. a[1] = f /\ a[2] = g
    <3>1. 1 % 2 = 1 /\ ~(2 % 2 = 1) /\ 1 \in 1 .. 2 * k /\ 2 \in 1 .. 2 * k /\ (2 = 2 * k <=> k = 1)
      BY <1>5
    <3>2. a[1] = f
      BY <2>5, <3>1
    <3>3. a[2] = [fn |-> "reply", bit |-> IF 2 = 2 * k THEN 1 ELSE 0]
      BY <2>5, <3>1
    <3> QED
      BY <3>1, <3>2, <3>3
  <2>8. ASSUME NEW i \in 1 .. 2 * (k - 1) PROVE a[i + 2] = b[i]
    <3>1. (i + 2) % 2 = i % 2 /\ i + 2 \in 1 .. 2 * k /\ (i + 2 = 2 * k <=> i = 2 * (k - 1))
      BY <1>5
    <3> QED
      BY <2>5, <2>6, <3>1
  <2>9. a \in Seq(Function) /\ Len(a) = 2 * k
    BY <1>1
  <2> HIDE DEF a, b, c, f, g
  <2>10. a = c \o b
    <3>1. Len(a) = Len(c) + Len(b)
      BY <1>5, <2>2, <2>4, <2>9
    <3>2. \A i \in 1 .. Len(c) : a[i] = c[i]
      BY <2>2, <2>7
    <3>3. \A i \in 1 .. Len(b) : a[i + Len(c)] = b[i]
      BY <2>2, <2>4, <2>8
    <3> QED
      BY <2>2, <2>4, <2>9, <3>1, <3>2, <3>3, IsJoined
  <2> DEFINE e == b \o <<Stop>>
  <2>11. e \in Seq(Function) /\ e = ReadThenStop(k - 1)
    BY <1>0, <2>4, ConcatProperties DEF ReadThenStop, b
  <2>12. ReadThenStop(k) = c \o e
    BY <1>0, <2>2, <2>4, <2>10, ConcatAssociative DEF ReadThenStop, a
  <2> HIDE DEF e
  <2>13. c \o e = <<f>> \o (<<g>> \o e)
    BY <2>3, <2>11, ConcatAssociative
  <2>14. <<g>> \o e \in Seq(Function)
    BY <2>1, <2>11, HeadOfList
  <2>15. (<<f>> \o (<<g>> \o e))[1] = f /\ Tail(<<f>> \o (<<g>> \o e)) = <<g>> \o e
    BY <2>1, <2>14, HeadOfList
  <2> QED
    BY <2>11, <2>12, <2>13, <2>15 DEF f, g
<1> QED
  BY <1>2, <1>3, <1>4, <1>5

-------------------------------------------------------------------------------
(* The legs of a call, and the lists calls begin with.                       *)

(* What a call transfers.                                                    *)
LEMMA CallFacts ==
  ASSUME NEW r \in Request
  PROVE  /\ Words(r) \in Seq(Word) /\ r.op \in {"write", "read"}
         /\ r.op = "write" => Len(Words(r)) > 0
         /\ r.op = "write" => r.size = 0
         /\ r.op = "read" => r.size \in Nat \ {0}
         /\ r.op = "read" /\ r.mem = << >> => Words(r) = << >>
         /\ r.op = "read" /\ r.mem # << >> => Len(Words(r)) > 0
         /\ r.addr \in Address /\ r.mem \in Seq(Word) /\ r.data \in Seq(Word)
         /\ r.op = "read" => r.data = << >>
<1>1. /\ r.op \in {"write", "read"} /\ r.addr \in Address /\ r.mem \in Seq(Word)
  BY RequestFields
<1>2. ASSUME r.op = "write"
      PROVE  r.data \in Seq(Word) /\ r.data # << >> /\ r.size = 0
  <2>1. r.data \in Payloads /\ r.size = 0
    BY <1>2 DEF Request
  <2> QED
    BY <2>1, I2cAssumption
<1>3. ASSUME r.op = "read"
      PROVE  r.data = << >> /\ r.size \in Nat \ {0}
  <2>1. r.data = << >> /\ r.size \in 1 .. ReadMax
    BY <1>3 DEF Request
  <2> QED
    BY <2>1, I2cAssumption
<1>4. r.data \in Seq(Word)
  <2>1. << >> \in Seq(Word)
    OBVIOUS
  <2> QED
    BY <1>1, <1>2, <1>3, <2>1
<1>5. Words(r) \in Seq(Word) /\ Len(Words(r)) = Len(r.mem) + Len(r.data)
  BY <1>1, <1>4, JoinedElements DEF Words
<1>6. Len(r.mem) \in Nat /\ Len(r.data) \in Nat
  BY <1>1, <1>4
<1>7. ASSUME r.op = "write" PROVE Len(Words(r)) > 0
  <2>1. r.data \in Seq(Word) /\ r.data # << >>
    BY <1>2, <1>7
  <2>2. Len(r.data) > 0
    BY <2>1
  <2>3. Len(Words(r)) = Len(r.mem) + Len(r.data)
    BY <1>5
  <2> DEFINE x == Len(r.mem)
             y == Len(r.data)
  <2>4. x \in Nat /\ y \in Nat /\ y > 0 /\ Len(Words(r)) = x + y
    BY <1>6, <2>2, <2>3
  <2> HIDE DEF x, y
  <2> QED
    BY <2>4
<1>8. ASSUME r.op = "read" PROVE Words(r) = r.mem
  BY <1>1, <1>3, <1>8, ConcatEmptySeq DEF Words
<1>9. r.mem # << >> => Len(r.mem) > 0
  BY <1>1
<1> QED
  BY <1>1, <1>2, <1>3, <1>4, <1>5, <1>7, <1>8, <1>9

(* The end of an address tells the direction.                                *)
LEMMA AddrFacts ==
  ASSUME NEW a \in Address, NEW b \in Bit
  PROVE  AddrWord(a, b) \in Word /\ AddrWord(a, b)[W] = b
<1>1. W \in 1 .. W
  BY I2cAssumption
<1>2. AddrWord(a, b)[W] = b
  BY <1>1 DEF AddrWord
<1> QED
  BY <1>2, AddrIsWord

(* What follows the words is made of functions.                              *)
LEMMA EndingFacts ==
  ASSUME NEW r \in Request
  PROVE  /\ Ending(r) \in Seq(Function)
         /\ r.size \in Nat => ReadThenStop(r.size) \in Seq(Function)
<1>1. r.size \in Nat /\ r.addr \in Address
  BY CallFacts
<1>2. ReadThenStop(r.size) \in Seq(Function)
  BY <1>1, ReadStep
<1>3. AddrWord(r.addr, 1) \in Word
  BY <1>1, AddrFacts DEF Bit
<1>4. StartThen(AddrWord(r.addr, 1), ReadThenStop(r.size)) \in Seq(Function)
  BY <1>2, <1>3, StartThenList
<1>5. <<Stop>> \in Seq(Function)
  BY ByName
<1> QED
  BY <1>2, <1>4, <1>5 DEF Ending

(* Every word a call sends follows a beginning of what it has to deliver.    *)
LEMMA LegFacts ==
  ASSUME NEW r \in Request, NEW leg \in Legs(r)
  PROVE  /\ leg.kind \in {"addr", "data"} /\ leg.word \in Word /\ leg.rest \in Seq(Function)
         /\ leg.done \in Seq(Word) /\ Len(leg.done) <= Len(Words(r))
         /\ leg.done = SubSeq(Words(r), 1, Len(leg.done))
         /\ r.op = "write" => Len(leg.done) < Len(Words(r))
         /\ leg.kind = "data" =>
              /\ Len(leg.done) < Len(Words(r))
              /\ Append(leg.done, leg.word) = SubSeq(Words(r), 1, Len(leg.done) + 1)
<1> DEFINE ws == Words(r)
           n == Len(ws)
<1>1. /\ ws \in Seq(Word)
      /\ r.op = "write" => n > 0
      /\ r.addr \in Address /\ r.op \in {"write", "read"}
  BY CallFacts
<1>2. n \in Nat
  BY <1>1
<1>3. /\ Ending(r) \in Seq(Function)
      /\ r.op = "read" => ReadThenStop(r.size) \in Seq(Function)
  BY EndingFacts, CallFacts
<1>4. SubSeq(ws, 1, 0) = << >>
  BY <1>1
<1>5. SubSeq(ws, 1, n) = ws
  BY <1>1, SubSeqFull
<1> HIDE DEF ws, n
<1>6. CASE leg \in OpeningLegs(r)
  <2>1. /\ leg.kind = "addr" /\ leg.word = AddrWord(r.addr, 0)
        /\ leg.rest = SentAll(ws) \o Ending(r) /\ leg.done = << >>
    BY <1>6 DEF OpeningLegs, ws
  <2>2. SentAll(ws) \in Seq(Function)
    BY <1>1, SentAllFunctions
  <2>3. leg.rest \in Seq(Function)
    BY <1>3, <2>1, <2>2, ConcatProperties
  <2>4. leg.word \in Word
    BY <1>1, <2>1, AddrFacts DEF Bit
  <2>5. << >> \in Seq(Word) /\ Len(<< >>) = 0
    OBVIOUS
  <2> QED
    BY <1>1, <1>2, <1>4, <2>1, <2>3, <2>4, <2>5 DEF ws, n
<1>7. CASE leg \in DataLegs(r)
  <2>0. PICK j \in 1 .. n :
          leg = [kind |-> "data", word |-> ws[j],
                 rest |-> SentAll(SubSeq(ws, j + 1, n)) \o Ending(r),
                 done |-> SubSeq(ws, 1, j - 1)]
    BY <1>7 DEF DataLegs, ws, n
  <2>1. /\ j \in 1 .. n /\ leg.kind = "data" /\ leg.word = ws[j]
        /\ leg.rest = SentAll(SubSeq(ws, j + 1, n)) \o Ending(r)
        /\ leg.done = SubSeq(ws, 1, j - 1)
    BY <2>0
  <2>2. leg.word \in Word /\ j \in Nat /\ j >= 1 /\ j <= n
    BY <1>1, <1>2, <2>1 DEF n
  <2>3. SubSeq(ws, j + 1, n) \in Seq(Word)
    BY <1>1, <1>2, <2>2 DEF n
  <2>4. leg.rest \in Seq(Function)
    BY <1>3, <2>1, <2>3, SentAllFunctions, ConcatProperties
  <2>5. leg.done \in Seq(Word) /\ Len(leg.done) = j - 1
        /\ \A i \in 1 .. j - 1 : leg.done[i] = ws[i]
    BY <1>1, <1>2, <2>1, <2>2 DEF n
  <2>6. Append(leg.done, leg.word) = SubSeq(ws, 1, j)
    <3>1. SubSeq(ws, 1, j) = SubSeq(ws, 1, j - 1) \o <<ws[j]>>
      BY <1>1, <1>2, <2>2, SubSeqRecursiveSecond DEF n
    <3> QED
      BY <2>1, <2>2, <2>5, <3>1, AppendIsConcat
  <2>7. /\ Len(leg.done) < n /\ Len(leg.done) <= n /\ Len(leg.done) + 1 = j
        /\ leg.done = SubSeq(ws, 1, Len(leg.done))
    BY <1>2, <2>1, <2>2, <2>5
  <2> QED
    BY <2>1, <2>2, <2>4, <2>5, <2>6, <2>7 DEF ws, n
<1>8. CASE leg \in ReadLegs(r)
  <2>1. /\ r.op = "read" /\ leg.kind = "addr" /\ leg.word = AddrWord(r.addr, 1)
        /\ leg.rest = ReadThenStop(r.size) /\ leg.done = ws
    BY <1>8 DEF ReadLegs, ws
  <2>2. leg.word \in Word
    BY <1>1, <2>1, AddrFacts DEF Bit
  <2> QED
    BY <1>1, <1>2, <1>3, <1>5, <2>1, <2>2 DEF ws, n
<1> QED
  BY <1>6, <1>7, <1>8 DEF Legs

(* The list of the words that are left is the first of them and the others.  *)
LEMMA DataLeft ==
  ASSUME NEW r \in Request, NEW j \in 1 .. Len(Words(r))
  PROVE  \E leg \in Legs(r) :
           /\ leg.kind = "data" /\ leg.done = SubSeq(Words(r), 1, j - 1)
           /\ SentAll(SubSeq(Words(r), j, Len(Words(r)))) \o Ending(r)
                = SendThen(leg.word, leg.rest)
<1> DEFINE ws == Words(r)
           n == Len(ws)
           t == SubSeq(ws, j, n)
           leg == [kind |-> "data", word |-> ws[j],
                   rest |-> SentAll(SubSeq(ws, j + 1, n)) \o Ending(r),
                   done |-> SubSeq(ws, 1, j - 1)]
<1>1. ws \in Seq(Word) /\ n \in Nat /\ j \in 1 .. n
  BY CallFacts
<1>2. leg \in Legs(r)
  BY <1>1 DEF Legs, DataLegs
<1>3. Ending(r) \in Seq(Function)
  BY EndingFacts
<1> HIDE DEF ws
<1>4. t \in Seq(Word) /\ t # << >> /\ t[1] = ws[j]
  <2>1. t \in Seq(Word) /\ Len(t) = n - j + 1
    BY <1>1
  <2>2. t # << >> /\ 1 \in 1 .. n - j + 1
    <3>1. n - j + 1 > 0 /\ n - j + 1 \in Nat
      BY <1>1
    <3> HIDE DEF t, n
    <3>2. Len(t) # 0
      BY <2>1, <3>1
    <3> QED
      BY <3>1, <3>2
  <2>3. t[1] = ws[j + 1 - 1]
    BY <1>1, <2>2
  <2> QED
    BY <1>1, <2>1, <2>2, <2>3
<1>5. Tail(t) = SubSeq(ws, j + 1, n)
  BY <1>1, HeadTailOfSubSeq
<1>6. SentAll(t) \o Ending(r) = SendThen(t[1], SentAll(Tail(t)) \o Ending(r))
  BY <1>3, <1>4, SentAllStep
<1>7. SentAll(t) \o Ending(r) = SendThen(leg.word, leg.rest)
  BY <1>4, <1>5, <1>6
<1> QED
  BY <1>2, <1>7 DEF ws

(* After the last word the call ends.                                        *)
LEMMA DataOver ==
  ASSUME NEW r \in Request
  PROVE  SentAll(SubSeq(Words(r), Len(Words(r)) + 1, Len(Words(r)))) \o Ending(r) = Ending(r)
<1>1. Len(Words(r)) \in Nat
  BY CallFacts
<1>2. SubSeq(Words(r), Len(Words(r)) + 1, Len(Words(r))) = << >>
  BY <1>1, SubSeqEmpty
<1> QED
  BY <1>2, EndingFacts, SentAllNone

(* What follows a word that the device has taken.                            *)
LEMMA NextLeg ==
  ASSUME NEW r \in Request, NEW leg \in Legs(r)
  PROVE  \/ /\ leg.kind = "addr" /\ leg.word[W] = 0
            /\ \E next \in Legs(r) : /\ next.kind = "data" /\ next.done = leg.done
                                     /\ leg.rest = SendThen(next.word, next.rest)
         \/ /\ leg.kind = "data"
            /\ \E next \in Legs(r) : /\ next.kind = "data"
                                     /\ next.done = Append(leg.done, leg.word)
                                     /\ leg.rest = SendThen(next.word, next.rest)
         \/ /\ leg.kind = "data" /\ r.op = "write" /\ leg.rest = <<Stop>>
            /\ Append(leg.done, leg.word) = Words(r)
         \/ /\ leg.kind = "data" /\ r.op = "read"
            /\ \E next \in Legs(r) : /\ next.kind = "addr"
                                     /\ next.done = Append(leg.done, leg.word)
                                     /\ leg.rest = StartThen(next.word, next.rest)
         \/ /\ leg.kind = "addr" /\ r.op = "read" /\ leg.word[W] = 1
            /\ leg.rest = ReadThenStop(r.size) /\ leg.done = Words(r)
<1> DEFINE ws == Words(r)
           n == Len(ws)
<1>1. /\ ws \in Seq(Word)
      /\ r.op = "write" => n > 0
      /\ r.op = "read" /\ r.mem # << >> => n > 0
      /\ r.addr \in Address /\ r.op \in {"write", "read"}
  BY CallFacts
<1>2. n \in Nat /\ SubSeq(ws, 1, n) = ws
  BY <1>1, SubSeqFull
<1> HIDE DEF ws, n
<1>3. CASE leg \in OpeningLegs(r)
  <2>1. /\ leg.kind = "addr" /\ leg.word = AddrWord(r.addr, 0)
        /\ leg.rest = SentAll(ws) \o Ending(r) /\ leg.done = << >>
        /\ ~(r.op = "read" /\ r.mem = << >>)
    BY <1>3 DEF OpeningLegs, ws
  <2>2. leg.word[W] = 0
    BY <1>1, <2>1, AddrFacts DEF Bit
  <2>3. 1 \in 1 .. n /\ 1 - 1 = 0
    BY <1>1, <1>2, <2>1
  <2>4. PICK next \in Legs(r) :
          /\ next.kind = "data" /\ next.done = SubSeq(ws, 1, 0)
          /\ SentAll(SubSeq(ws, 1, n)) \o Ending(r) = SendThen(next.word, next.rest)
    BY <2>3, DataLeft DEF ws, n
  <2>5. SubSeq(ws, 1, 0) = << >>
    BY <1>1
  <2> QED
    BY <1>2, <2>1, <2>2, <2>4, <2>5
<1>4. CASE leg \in DataLegs(r)
  <2>0. PICK j \in 1 .. n :
          leg = [kind |-> "data", word |-> ws[j],
                 rest |-> SentAll(SubSeq(ws, j + 1, n)) \o Ending(r),
                 done |-> SubSeq(ws, 1, j - 1)]
    BY <1>4 DEF DataLegs, ws, n
  <2>1. /\ j \in 1 .. n /\ leg.kind = "data" /\ leg.word = ws[j]
        /\ leg.rest = SentAll(SubSeq(ws, j + 1, n)) \o Ending(r)
        /\ leg.done = SubSeq(ws, 1, j - 1)
    BY <2>0
  <2>2. j \in Nat /\ j >= 1 /\ j <= n /\ (j + 1) - 1 = j
    BY <1>2, <2>1
  <2>3. Append(leg.done, leg.word) = SubSeq(ws, 1, j)
    <3>1. /\ Len(leg.done) < Len(ws)
          /\ Append(leg.done, leg.word) = SubSeq(ws, 1, Len(leg.done) + 1)
      BY <2>1, LegFacts DEF ws
    <3>2. Len(leg.done) + 1 = j
      BY <1>1, <1>2, <2>1, <2>2 DEF n
    <3> QED
      BY <3>1, <3>2
  <2>4. ASSUME j < n
        PROVE  \E next \in Legs(r) : /\ next.kind = "data"
                                     /\ next.done = Append(leg.done, leg.word)
                                     /\ leg.rest = SendThen(next.word, next.rest)
    <3>1. j + 1 \in 1 .. n
      BY <1>2, <2>2, <2>4
    <3>2. PICK next \in Legs(r) :
            /\ next.kind = "data" /\ next.done = SubSeq(ws, 1, (j + 1) - 1)
            /\ SentAll(SubSeq(ws, j + 1, n)) \o Ending(r) = SendThen(next.word, next.rest)
      BY <3>1, DataLeft DEF ws, n
    <3> QED
      BY <2>1, <2>2, <2>3, <3>2
  <2>5. ASSUME j = n
        PROVE  leg.rest = Ending(r) /\ Append(leg.done, leg.word) = ws
    BY <1>2, <2>1, <2>3, <2>5, DataOver DEF ws, n
  <2>6. ASSUME j = n, r.op = "read"
        PROVE  \E next \in Legs(r) : /\ next.kind = "addr"
                                     /\ next.done = Append(leg.done, leg.word)
                                     /\ leg.rest = StartThen(next.word, next.rest)
    <3> DEFINE next == [kind |-> "addr", word |-> AddrWord(r.addr, 1),
                        rest |-> ReadThenStop(r.size), done |-> ws]
    <3>1. next \in Legs(r)
      BY <2>6 DEF Legs, ReadLegs, ws
    <3>2. leg.rest = StartThen(next.word, next.rest)
      BY <2>5, <2>6 DEF Ending
    <3> QED
      BY <2>5, <2>6, <3>1, <3>2
  <2>7. ASSUME j = n, r.op = "write" PROVE leg.rest = <<Stop>>
    BY <2>5, <2>7 DEF Ending
  <2>8. j < n \/ j = n
    BY <1>2, <2>2
  <2> QED
    BY <1>1, <2>1, <2>4, <2>5, <2>6, <2>7, <2>8 DEF ws
<1>5. CASE leg \in ReadLegs(r)
  <2>1. /\ r.op = "read" /\ leg.kind = "addr" /\ leg.word = AddrWord(r.addr, 1)
        /\ leg.rest = ReadThenStop(r.size) /\ leg.done = Words(r)
    BY <1>5 DEF ReadLegs
  <2>2. leg.word[W] = 1
    BY <1>1, <2>1, AddrFacts DEF Bit
  <2> QED
    BY <2>1, <2>2
<1> QED
  BY <1>3, <1>4, <1>5 DEF Legs

(* How lists of functions are joined makes no difference.                    *)
LEMMA Regrouped ==
  \A s, t, u \in Seq(Function) : (s \o t) \o u = s \o (t \o u)
BY ConcatAssociative

(* Lists that are joined are a list.                                         *)
LEMMA Closed ==
  \A s, t \in Seq(Function) : s \o t \in Seq(Function)
BY ConcatProperties

(* Six lists, for six that a call is made of.                                *)
SixLists(a, b, c, d, e, f) ==
  /\ a \in Seq(Function) /\ b \in Seq(Function) /\ c \in Seq(Function)
  /\ d \in Seq(Function) /\ e \in Seq(Function) /\ f \in Seq(Function)

SixJoined(a, b, c, d, e, f) ==
  ((((a \o b) \o c) \o d) \o e) \o f = a \o (b \o (c \o (d \o (e \o f))))

(* From the right, one after the other.                                      *)
LEMMA SixRegrouped ==
  ASSUME NEW a, NEW b, NEW c, NEW d, NEW e, NEW f, SixLists(a, b, c, d, e, f)
  PROVE  SixJoined(a, b, c, d, e, f)
<1>1. a \in Seq(Function)
  BY DEF SixLists
<1>2. b \in Seq(Function)
  BY DEF SixLists
<1>3. c \in Seq(Function)
  BY DEF SixLists
<1>4. d \in Seq(Function)
  BY DEF SixLists
<1>5. e \in Seq(Function)
  BY DEF SixLists
<1>6. f \in Seq(Function)
  BY DEF SixLists
<1> DEFINE p == a \o b
           q == p \o c
           s == q \o d
           t == e \o f
           u == d \o t
           v == c \o u
<1>7. p \in Seq(Function)
  BY <1>1, <1>2
<1>8. t \in Seq(Function)
  BY <1>5, <1>6
<1>9. p \o v = a \o (b \o v)
  <2>1. u \in Seq(Function)
    <3> HIDE DEF t
    <3> QED
      BY <1>4, <1>8
  <2>2. v \in Seq(Function)
    <3> HIDE DEF u
    <3> QED
      BY <1>3, <2>1
  <2> HIDE DEF v
  <2> QED
    BY <1>1, <1>2, <2>2, Regrouped, Zenon
<1> HIDE DEF p, t
<1>10. q \in Seq(Function)
  BY <1>3, <1>7
<1>11. u \in Seq(Function)
  BY <1>4, <1>8
<1>12. q \o u = p \o v
  <2> HIDE DEF u
  <2> QED
    BY <1>3, <1>7, <1>11, Regrouped, Zenon
<1> HIDE DEF q, v
<1>13. s \o t = q \o u
  BY <1>4, <1>8, <1>10, Regrouped, Zenon
<1>14. s \in Seq(Function)
  BY <1>4, <1>10
<1> HIDE DEF s, u
<1>15. (s \o e) \o f = s \o t
  BY <1>5, <1>6, <1>14, ConcatAssociative DEF t
<1>16. (s \o e) \o f = a \o (b \o v)
  BY <1>9, <1>12, <1>13, <1>15
<1> QED
  BY <1>16 DEF p, q, s, t, u, v, SixJoined

(* A call begins with the check and the start of its first word.             *)
LEMMA FirstLeg ==
  ASSUME NEW r \in Request
  PROVE  \E leg \in Legs(r) :
           /\ leg.kind = "addr" /\ leg.done = << >>
           /\ (IF r.op = "write" THEN WriteTodo(r) ELSE ReadTodo(r))
                = <<[fn |-> "check"]>> \o StartThen(leg.word, leg.rest)
<1> DEFINE check == <<[fn |-> "check"]>>
           start == <<Start>>
           a == Sent(AddrWord(r.addr, 0))
           b == Sent(AddrWord(r.addr, 1))
           m == SentAll(r.mem)
           d == SentAll(r.data)
           stop == <<Stop>>
           body == ReadAll(r.size)
<1>1. /\ r.op \in {"write", "read"} /\ r.addr \in Address
      /\ r.mem \in Seq(Word) /\ r.data \in Seq(Word) /\ r.size \in Nat
      /\ r.op = "read" => r.data = << >>
      /\ r.op = "read" /\ r.mem = << >> => Words(r) = << >>
  BY CallFacts
<1>2. /\ AddrWord(r.addr, 0) \in Word /\ AddrWord(r.addr, 1) \in Word
  BY <1>1, AddrFacts DEF Bit
<1>3. /\ check \in Seq(Function) /\ start \in Seq(Function) /\ stop \in Seq(Function)
      /\ <<Acked>> \in Seq(Function)
      /\ <<[fn |-> "send", word |-> AddrWord(r.addr, 0)]>> \in Seq(Function)
      /\ <<[fn |-> "send", word |-> AddrWord(r.addr, 1)]>> \in Seq(Function)
  BY <1>2, ByName
<1>4. /\ m \in Seq(Function) /\ d \in Seq(Function) /\ body \in Seq(Function)
      /\ a \in Seq(Function) /\ b \in Seq(Function)
  BY <1>1, <1>2, SentAllFunctions, ReadAllFunctions, SentFunctions
<1>5. <<[fn |-> "check"], Start>> = check \o start
  BY <1>3
<1>6. /\ a = <<[fn |-> "send", word |-> AddrWord(r.addr, 0)]>> \o <<Acked>>
      /\ b = <<[fn |-> "send", word |-> AddrWord(r.addr, 1)]>> \o <<Acked>>
  BY <1>3 DEF Sent, Acked
<1>7. ASSUME NEW rest \in Seq(Function)
      PROVE  /\ start \o (a \o rest) = StartThen(AddrWord(r.addr, 0), rest)
             /\ start \o (b \o rest) = StartThen(AddrWord(r.addr, 1), rest)
             /\ a \o rest \in Seq(Function) /\ b \o rest \in Seq(Function)
  <2>1. ASSUME NEW p \in Seq(Function)
        PROVE  (p \o <<Acked>>) \o rest = p \o (<<Acked>> \o rest)
    <3>1. <<Acked>> \in Seq(Function)
      BY <1>3
    <3> QED
      BY <3>1, Regrouped, Zenon
  <2>3. /\ a \o rest = SendThen(AddrWord(r.addr, 0), rest)
        /\ b \o rest = SendThen(AddrWord(r.addr, 1), rest)
    BY <1>3, <1>6, <2>1, Zenon DEF SendThen
  <2>2. a \o rest \in Seq(Function) /\ b \o rest \in Seq(Function)
    BY <1>4, Closed, Zenon
  <2> QED
    BY <2>2, <2>3, Zenon DEF StartThen
<1>8. m \o d = SentAll(Words(r))
  BY <1>1, SentAllJoins DEF Words
<1> DEFINE opening == [kind |-> "addr", word |-> AddrWord(r.addr, 0),
                       rest |-> SentAll(Words(r)) \o Ending(r), done |-> << >>]
<1>9. ASSUME r.op = "write"
      PROVE  /\ opening \in Legs(r)
             /\ WriteTodo(r) = check \o StartThen(opening.word, opening.rest)
  <2>1. opening \in Legs(r)
    BY <1>9 DEF Legs, OpeningLegs
  <2>2. Ending(r) = stop
    BY <1>9 DEF Ending
  <2>3. WriteTodo(r) = check \o start \o a \o m \o d \o stop
    BY <1>5 DEF WriteTodo
  <2> HIDE DEF check, start, a, m, d, stop
  <2>4. (m \o d) \o stop \in Seq(Function)
    BY <1>3, <1>4, Closed, Zenon
  <2>5. check \o start \o a \o m \o d \o stop
          = check \o (start \o (a \o ((m \o d) \o stop)))
    <3> HIDE DEF body, b
    <3>0. m \in Seq(Function) /\ d \in Seq(Function) /\ stop \in Seq(Function)
      BY <1>3, <1>4
    <3>1. m \o (d \o stop) = (m \o d) \o stop
      BY <3>0, Regrouped, Zenon
    <3>3. SixLists(check, start, a, m, d, stop)
      BY <1>3, <1>4 DEF SixLists
    <3>2. check \o start \o a \o m \o d \o stop
            = check \o (start \o (a \o (m \o (d \o stop))))
      <4>1. SixJoined(check, start, a, m, d, stop)
        BY <3>3, SixRegrouped
      <4> QED
        BY <4>1 DEF SixJoined
    <3> QED
      BY <3>1, <3>2, Zenon
  <2>6. start \o (a \o ((m \o d) \o stop)) = StartThen(AddrWord(r.addr, 0), (m \o d) \o stop)
    BY <1>7, <2>4
  <2> QED
    BY <1>8, <2>1, <2>2, <2>3, <2>5, <2>6
<1>10. ASSUME r.op = "read", r.mem = << >>
       PROVE  \E leg \in Legs(r) :
                /\ leg.kind = "addr" /\ leg.done = << >>
                /\ ReadTodo(r) = check \o StartThen(leg.word, leg.rest)
  <2> DEFINE leg == [kind |-> "addr", word |-> AddrWord(r.addr, 1),
                     rest |-> ReadThenStop(r.size), done |-> Words(r)]
  <2>1. leg \in Legs(r)
    BY <1>10 DEF Legs, ReadLegs
  <2>2. ReadTodo(r) = check \o start \o << >> \o b \o body \o stop
    BY <1>5, <1>10 DEF ReadTodo
  <2>3. ReadThenStop(r.size) = body \o stop
    BY DEF ReadThenStop
  <2> HIDE DEF check, start, b, body, stop
  <2>4. body \o stop \in Seq(Function)
    BY <1>3, <1>4, Closed, Zenon
  <2>5. << >> \o (b \o (body \o stop)) = b \o (body \o stop)
    <3>1. b \o (body \o stop) \in Seq(Function)
      BY <1>4, <2>4, Closed, Zenon
    <3> QED
      BY <3>1, ConcatEmptySeq
  <2>6. check \o start \o << >> \o b \o body \o stop
          = check \o (start \o (<< >> \o (b \o (body \o stop))))
    <3> DEFINE none == << >>
    <3>1. none \in Seq(Function)
      OBVIOUS
    <3> HIDE DEF none
    <3>2. SixLists(check, start, none, b, body, stop)
      BY <1>3, <1>4, <3>1 DEF SixLists
    <3>3. check \o start \o none \o b \o body \o stop
            = check \o (start \o (none \o (b \o (body \o stop))))
      <4>1. SixJoined(check, start, none, b, body, stop)
        BY <3>2, SixRegrouped
      <4> QED
        BY <4>1 DEF SixJoined
    <3> QED
      BY <3>3, Zenon DEF none
  <2>9. start \o (b \o (body \o stop)) = StartThen(AddrWord(r.addr, 1), body \o stop)
    BY <1>7, <2>4
  <2>10. ReadTodo(r) = check \o StartThen(leg.word, leg.rest)
    BY <2>2, <2>3, <2>5, <2>6, <2>9
  <2>11. leg.kind = "addr" /\ leg.done = << >>
    BY <1>1, <1>10
  <2> QED
    BY <2>1, <2>10, <2>11
<1>11. ASSUME r.op = "read", r.mem # << >>
       PROVE  /\ opening \in Legs(r)
              /\ ReadTodo(r) = check \o StartThen(opening.word, opening.rest)
  <2> DEFINE e == b \o (body \o stop)
  <2>1. opening \in Legs(r)
    BY <1>11 DEF Legs, OpeningLegs
  <2>2. ReadTodo(r) = check \o start \o (a \o m \o start) \o b \o body \o stop
    BY <1>5, <1>11 DEF ReadTodo
  <2>3. ReadThenStop(r.size) = body \o stop
    BY DEF ReadThenStop
  <2>4. m = SentAll(Words(r))
    <3>1. Words(r) = r.mem
      BY <1>1, <1>11, ConcatEmptySeq DEF Words
    <3> QED
      BY <3>1
  <2>5. Ending(r) = StartThen(AddrWord(r.addr, 1), body \o stop)
    BY <1>11, <2>3 DEF Ending
  <2> HIDE DEF check, start, a, b, m, body, stop
  <2>6. body \o stop \in Seq(Function) /\ e \in Seq(Function) /\ start \o e \in Seq(Function)
        /\ check \o start \in Seq(Function) /\ a \o m \in Seq(Function)
        /\ a \o m \o start \in Seq(Function) /\ m \o (start \o e) \in Seq(Function)
        /\ a \o (m \o (start \o e)) \in Seq(Function)
    BY <1>3, <1>4, Closed, Zenon
  <2>7. (a \o m) \o start \o e = a \o (m \o (start \o e))
    <3>1. a \in Seq(Function) /\ m \in Seq(Function) /\ start \o e \in Seq(Function)
      BY <1>3, <1>4, <2>6
    <3>2. start \in Seq(Function) /\ e \in Seq(Function) /\ a \o m \in Seq(Function)
      BY <1>3, <1>4, <2>6
    <3> DEFINE p == a \o m
               q == start \o e
    <3> HIDE DEF e
    <3>3. p \o start \o e = p \o q
      <4> HIDE DEF p
      <4> QED
        BY <3>2, Regrouped, Zenon DEF p
    <3>4. p \o q = a \o (m \o q)
      <4> HIDE DEF q
      <4> QED
        BY <3>1, Regrouped, Zenon DEF q
    <3> QED
      BY <3>3, <3>4
  <2>8. check \o start \o (a \o m \o start) \o b \o body \o stop
          = check \o (start \o ((a \o m \o start) \o e))
    <3> DEFINE g == a \o m \o start
    <3>1. g \in Seq(Function)
      BY <2>6
    <3> HIDE DEF g
    <3>2. SixLists(check, start, g, b, body, stop)
      BY <1>3, <1>4, <3>1 DEF SixLists
    <3>3. check \o start \o g \o b \o body \o stop
            = check \o (start \o (g \o (b \o (body \o stop))))
      <4>1. SixJoined(check, start, g, b, body, stop)
        BY <3>2, SixRegrouped
      <4> QED
        BY <4>1 DEF SixJoined
    <3> QED
      BY <3>3, Zenon DEF g
  <2>14. start \o e = Ending(r)
    BY <1>7, <2>5, <2>6
  <2>15. start \o (a \o (m \o (start \o e))) = StartThen(AddrWord(r.addr, 0), m \o (start \o e))
    BY <1>7, <2>6
  <2>16. ReadTodo(r) = check \o (start \o (a \o (m \o (start \o e))))
    BY <2>2, <2>7, <2>8
  <2> QED
    BY <2>1, <2>4, <2>14, <2>15, <2>16
<1>12. opening.kind = "addr" /\ opening.done = << >>
  OBVIOUS
<1> QED
  BY <1>1, <1>9, <1>10, <1>11, <1>12

-------------------------------------------------------------------------------
(* What an edge of the clock does to the device, in each of its states.      *)

(* A word is a list of bits that arrives bit by bit.                         *)
LEMMA WordBits ==
  ASSUME NEW w \in Word
  PROVE  /\ w \in Seq(Bit) /\ Len(w) = W /\ w # << >>
         /\ SubSeq(w, 1, W) = w /\ SubSeq(w, 1, 0) = << >>
         /\ \A i \in 1 .. W : w[i] \in Bit
         /\ \A i \in 0 .. W - 1 :
              /\ SubSeq(w, 1, i) \in Seq(Bit) /\ Len(SubSeq(w, 1, i)) = i
              /\ Append(SubSeq(w, 1, i), w[i + 1]) = SubSeq(w, 1, i + 1)
<1>1. W \in Nat /\ W > 1
  BY I2cAssumption
<1>2. w \in Seq(Bit) /\ Len(w) = W
  BY <1>1 DEF Word
<1>3. w # << >> /\ \A i \in 1 .. W : w[i] \in Bit
  BY <1>1, <1>2
<1>4. SubSeq(w, 1, W) = w /\ SubSeq(w, 1, 0) = << >>
  BY <1>2, SubSeqFull
<1>5. ASSUME NEW i \in 0 .. W - 1
      PROVE  /\ SubSeq(w, 1, i) \in Seq(Bit) /\ Len(SubSeq(w, 1, i)) = i
             /\ Append(SubSeq(w, 1, i), w[i + 1]) = SubSeq(w, 1, i + 1)
  <2>1. SubSeq(w, 1, i) \in Seq(Bit) /\ Len(SubSeq(w, 1, i)) = i
    BY <1>1, <1>2
  <2>2. i + 1 \in 1 .. Len(w) /\ (i + 1) - 1 = i /\ w[i + 1] \in Bit /\ 1 \in 1 .. Len(w)
    BY <1>1, <1>2, <1>3
  <2>3. SubSeq(w, 1, i + 1) = SubSeq(w, 1, (i + 1) - 1) \o <<w[i + 1]>>
    BY <1>2, <2>2, SubSeqRecursiveSecond
  <2> QED
    BY <2>1, <2>2, <2>3, AppendIsConcat
<1> QED
  BY <1>2, <1>3, <1>4, <1>5

(* What the device has before and after an edge that is not a fall of SCL.   *)
LEMMA OtherEdge ==
  ASSUME NEW s \in SlaveState, NEW c0 \in Bit, NEW d0, NEW c1 \in Bit, NEW d1 \in Bit,
         NEW t \in React(s, c0, d0, c1, d1), c0 = 1 => c1 = 1
  PROVE  t \in SlaveState /\ t.got = s.got /\ t.gave = s.gave /\ (~s.pull => ~t.pull)
<1>1. CASE t = s
  BY <1>1
<1>2. CASE t = Started(s)
  <2>1. << >> \in Seq(Bit)
    OBVIOUS
  <2> QED
    BY <1>2, <2>1 DEF Started, SlaveState
<1>3. CASE t = Released(s)
  BY <1>3 DEF Released, SlaveState
<1>4. CASE t = [s EXCEPT !.bits = Append(@, d1)]
  <2>1. Append(s.bits, d1) \in Seq(Bit)
    BY DEF SlaveState
  <2> QED
    BY <1>4, <2>1 DEF SlaveState
<1> QED
  BY <1>1, <1>2, <1>3, <1>4 DEF React, Rise, Bit

(* It starts to listen,                                                      *)
LEMMA StartHeard ==
  ASSUME NEW s \in SlaveState
  PROVE  Listening(Started(s), "addr", << >>)
BY DEF Started, SlaveState, Listening

(* takes bit after bit of a word                                             *)
LEMMA BitHeard ==
  ASSUME NEW s \in SlaveState, NEW kind, NEW w \in Word, NEW i \in 0 .. W - 1,
         Listening(s, kind, SubSeq(w, 1, i))
  PROVE  /\ Listening(Rise(s, w[i + 1]), kind, SubSeq(w, 1, i + 1))
         /\ i # 0 \/ W > 1
         /\ Fall(s) = {s}
<1>1. /\ Len(s.bits) = i /\ s.mode = "recv" /\ ~s.ack /\ ~s.pull /\ s.bits = SubSeq(w, 1, i)
  BY WordBits DEF Listening
<1>2. i < W /\ i # W /\ W > 1
  BY I2cAssumption
<1>3. Rise(s, w[i + 1]) = [s EXCEPT !.bits = Append(@, w[i + 1])]
  BY <1>1, <1>2 DEF Rise
<1>4. Append(s.bits, w[i + 1]) = SubSeq(w, 1, i + 1)
  BY <1>1, WordBits
<1>5. Listening(Rise(s, w[i + 1]), kind, SubSeq(w, 1, i + 1))
  BY <1>3, <1>4 DEF Listening, SlaveState
<1>6. Fall(s) = {s}
  BY <1>1, <1>2 DEF Fall
<1> QED
  BY <1>2, <1>5, <1>6

(* and answers when it has it whole, if it is for it.                        *)
LEMMA WordHeard ==
  ASSUME NEW s \in SlaveState, NEW leg, leg.word \in Word, leg.done \in Seq(Word),
         Listening(s, leg.kind, leg.word), s.got = leg.done, NEW t \in Fall(s)
  PROVE  t \in SlaveState /\ t.gave = s.gave /\ (Taken(t, leg) \/ Refused(t, leg))
<1>1. /\ s.mode = "recv" /\ ~s.ack /\ s.bits = leg.word /\ Len(s.bits) = W
      /\ s.addressed <=> leg.kind = "data"
  BY WordBits DEF Listening
<1>2. \/ t = Released(s)
      \/ t = [s EXCEPT !.ack = TRUE, !.pull = TRUE,
                       !.got = IF s.addressed THEN Append(@, s.bits) ELSE @]
  BY <1>1 DEF Fall
<1>3. CASE t = Released(s)
  BY <1>3 DEF Released, SlaveState, Refused
<1>4. CASE t = [s EXCEPT !.ack = TRUE, !.pull = TRUE,
                         !.got = IF s.addressed THEN Append(@, s.bits) ELSE @]
  <2>1. Append(s.got, s.bits) \in Seq(Word)
    BY <1>1
  <2> QED
    BY <1>1, <1>4, <2>1 DEF SlaveState, Taken
<1> QED
  BY <1>2, <1>3, <1>4

(* A word that the device sends.                                             *)
Giving(s) == /\ s \in SlaveState /\ s.mode = "send" /\ ~s.ack /\ s.bits \in Word
             /\ s.pull <=> s.bits[1] = 0

(* It begins to send one.                                                    *)
LEMMA WordGiven ==
  ASSUME NEW s \in SlaveState, NEW w \in Word
  PROVE  /\ Giving(SendWord(s, w)) /\ SendWord(s, w).got = s.got
         /\ SendWord(s, w).gave = Append(s.gave, SendWord(s, w).bits)
<1>1. w \in Seq(Bit) /\ Append(s.gave, w) \in Seq(Word)
  BY WordBits DEF SlaveState
<1> QED
  BY <1>1 DEF SendWord, Giving, SlaveState

(* After its acknowledgement it listens to the next word or sends one.       *)
LEMMA AnswerGiven ==
  ASSUME NEW s \in SlaveState, NEW leg, leg.word \in Word, leg.kind \in {"addr", "data"},
         Taken(s, leg), NEW t \in Fall(s)
  PROVE  /\ leg.kind = "addr" /\ leg.word[W] = 1 =>
              Giving(t) /\ t.got = s.got /\ t.gave = Append(s.gave, t.bits)
         /\ ~(leg.kind = "addr" /\ leg.word[W] = 1) =>
              /\ t \in SlaveState /\ Listening(t, "data", << >>)
              /\ t.got = s.got /\ t.gave = s.gave
<1>1. /\ s.mode = "recv" /\ s.ack /\ s.bits = leg.word
      /\ s.addressed <=> leg.kind = "data"
  BY DEF Taken
<1>2. IsRead(s) <=> leg.kind = "addr" /\ leg.word[W] = 1
  BY <1>1 DEF IsRead
<1>3. ASSUME IsRead(s)
      PROVE  Giving(t) /\ t.got = s.got /\ t.gave = Append(s.gave, t.bits)
  <2>1. PICK w \in Word : t = SendWord(s, w)
    BY <1>1, <1>3 DEF Fall
  <2> QED
    BY <2>1, WordGiven
<1>4. ASSUME ~IsRead(s)
      PROVE  /\ t \in SlaveState /\ Listening(t, "data", << >>)
             /\ t.got = s.got /\ t.gave = s.gave
  <2>1. t = [s EXCEPT !.addressed = TRUE, !.ack = FALSE, !.pull = FALSE, !.bits = << >>]
    BY <1>1, <1>4 DEF Fall
  <2>2. << >> \in Seq(Bit)
    OBVIOUS
  <2> QED
    BY <1>1, <2>1, <2>2 DEF SlaveState, Listening
<1> QED
  BY <1>2, <1>3, <1>4

(* A bit that has been read is followed by the next, or by the answer.       *)
LEMMA BitGiven ==
  ASSUME NEW s \in SlaveState, s.mode = "send", ~s.ack, s.bits # << >>, NEW t \in Fall(s)
  PROVE  /\ t \in SlaveState /\ t.mode = "send" /\ t.got = s.got /\ t.gave = s.gave
         /\ t.bits = Tail(s.bits)
         /\ Len(s.bits) = 1 => t.ack /\ ~t.pull
         /\ Len(s.bits) > 1 => ~t.ack /\ (t.pull <=> t.bits[1] = 0) /\ t.bits # << >>
<1>1. t = [s EXCEPT !.bits = Tail(@), !.ack = (Len(s.bits) = 1),
                    !.pull = (Len(s.bits) > 1 /\ s.bits[2] = 0)]
  BY DEF Fall
<1>2. s.bits \in Seq(Bit) /\ Len(s.bits) \in Nat
  BY DEF SlaveState
<1>3. Tail(s.bits) \in Seq(Bit) /\ Len(Tail(s.bits)) = Len(s.bits) - 1
      /\ \A i \in 1 .. Len(s.bits) - 1 : Tail(s.bits)[i] = s.bits[i + 1]
  BY <1>2
<1>4. /\ t.mode = "send" /\ t.got = s.got /\ t.gave = s.gave /\ t.bits = Tail(s.bits)
      /\ t.ack <=> Len(s.bits) = 1
      /\ t.pull <=> Len(s.bits) > 1 /\ s.bits[2] = 0
  BY <1>1 DEF SlaveState
<1>5. t \in SlaveState
  BY <1>1, <1>3 DEF SlaveState
<1>6. ASSUME Len(s.bits) > 1 PROVE ~t.ack /\ (t.pull <=> t.bits[1] = 0) /\ t.bits # << >>
  <2>1. t.bits[1] = s.bits[2] /\ Len(t.bits) > 0 /\ ~(Len(s.bits) = 1)
    BY <1>2, <1>3, <1>4, <1>6
  <2>2. t.bits # << >>
    <3> DEFINE b == t.bits
    <3>1. b \in Seq(Bit) /\ Len(b) > 0
      BY <1>3, <1>4, <2>1
    <3> HIDE DEF b
    <3>2. b # << >>
      BY <3>1
    <3> QED
      BY <3>2 DEF b
  <2> QED
    BY <1>4, <1>6, <2>1, <2>2
<1>7. ASSUME Len(s.bits) = 1 PROVE t.ack /\ ~t.pull
  BY <1>4, <1>7
<1> QED
  BY <1>4, <1>5, <1>6, <1>7

(* The bits that have been read and those that have not are the word.        *)
LEMMA BitMoves ==
  ASSUME NEW v \in Seq(Bit), NEW b \in Seq(Bit), b # << >>
  PROVE  Append(v, b[1]) \o Tail(b) = v \o b
<1>1. b[1] \in Bit /\ Tail(b) \in Seq(Bit)
  OBVIOUS
<1>2. b = <<b[1]>> \o Tail(b)
  <2>1. <<b[1]>> \in Seq(Bit) /\ Len(<<b[1]>>) = 1 /\ <<b[1]>>[1] = b[1]
    BY <1>1
  <2>2. Len(b) = 1 + Len(Tail(b)) /\ \A i \in 1 .. Len(Tail(b)) : b[i + 1] = Tail(b)[i]
    OBVIOUS
  <2>3. \A i \in 1 .. Len(<<b[1]>>) : b[i] = <<b[1]>>[i]
    BY <2>1
  <2> DEFINE h == <<b[1]>>
             t == Tail(b)
  <2>4. h \in Seq(Bit) /\ t \in Seq(Bit) /\ Len(b) = Len(h) + Len(t)
        /\ (\A i \in 1 .. Len(h) : b[i] = h[i]) /\ \A i \in 1 .. Len(t) : b[i + Len(h)] = t[i]
    BY <1>1, <2>1, <2>2, <2>3
  <2> HIDE DEF h, t
  <2>5. b = h \o t
    BY <2>4, IsJoined
  <2> QED
    BY <2>5 DEF h, t
<1>3. Append(v, b[1]) = v \o <<b[1]>>
  BY <1>1, AppendIsConcat
<1> DEFINE h == <<b[1]>>
           t == Tail(b)
<1>4. h \in Seq(Bit) /\ t \in Seq(Bit)
  BY <1>1
<1> HIDE DEF h, t
<1>5. (v \o h) \o t = v \o (h \o t)
  BY <1>4, ConcatAssociative
<1> QED
  BY <1>2, <1>3, <1>5 DEF h, t

-------------------------------------------------------------------------------
(* Where a step of a function can be taken, the check and the start.         *)

(* The phase of a transfer is told by the function it is about to run.       *)
LEMMA Heads ==
  ASSUME XferInv, todo # << >>
  PROVE  \/ todo[1].fn = "init" /\ Between /\ Tail(todo) = << >>
         \/ /\ todo[1].fn = "check" /\ Checking
            /\ \E leg \in Legs(req) : /\ leg.kind = "addr" /\ leg.done = << >>
                                      /\ Tail(todo) = StartThen(leg.word, leg.rest)
         \/ todo[1].fn = "stop" /\ Stopping /\ Tail(todo) = << >>
         \/ \E leg \in Legs(req) :
              \/ todo[1].fn = "start" /\ Starting(leg) /\ Tail(todo) = SendThen(leg.word, leg.rest)
              \/ /\ todo[1].fn = "send" /\ Sending(leg) /\ todo[1].word = leg.word
                 /\ Tail(todo) = <<Acked>> \o leg.rest
              \/ todo[1].fn = "ack" /\ Acking(leg) /\ Tail(todo) = leg.rest
         \/ \E k \in 1 .. req.size :
              /\ todo[1].fn = "read" /\ Reading(k)
              /\ Tail(todo) = <<[fn |-> "reply", bit |-> IF k = 1 THEN 1 ELSE 0]>>
                                \o ReadThenStop(k - 1)
         \/ \E k \in 0 .. req.size - 1 :
              /\ todo[1].fn = "reply" /\ Replying(k) /\ Tail(todo) = ReadThenStop(k)
              /\ todo[1].bit = IF k = 0 THEN 1 ELSE 0
<1>1. req \in Request /\ req.size \in Nat
  BY CallFacts DEF XferInv, Kept
<1>2. ASSUME NEW f, todo = <<f>> PROVE todo[1] = f /\ Tail(todo) = << >>
  BY <1>2
<1>3. CASE Between
  <2>1. todo = <<[fn |-> "init"]>>
    BY <1>3 DEF Between
  <2>2. todo[1] = [fn |-> "init"] /\ Tail(todo) = << >>
    BY <1>2, <2>1
  <2> QED
    BY <1>3, <2>2
<1>4. CASE Checking
  <2>1. PICK leg \in Legs(req) :
          /\ leg.kind = "addr" /\ leg.done = << >>
          /\ todo = <<[fn |-> "check"]>> \o StartThen(leg.word, leg.rest)
    BY <1>4 DEF Checking
  <2>2. StartThen(leg.word, leg.rest) \in Seq(Function)
    BY <1>1, LegFacts, StartThenList
  <2>3. todo[1] = [fn |-> "check"] /\ Tail(todo) = StartThen(leg.word, leg.rest)
    BY <2>1, <2>2, HeadOfList, ByName
  <2>4. todo[1].fn = "check"
    BY <2>3
  <2> QED
    BY <1>4, <2>1, <2>3, <2>4, Zenon
<1>5. CASE Stopping
  <2>1. todo = <<Stop>>
    BY <1>5 DEF Stopping
  <2>2. todo[1] = Stop /\ Tail(todo) = << >>
    BY <1>2, <2>1
  <2> QED
    BY <1>5, <2>2 DEF Stop
<1>6. ASSUME NEW leg \in Legs(req), Starting(leg)
      PROVE  todo[1].fn = "start" /\ Tail(todo) = SendThen(leg.word, leg.rest)
  BY <1>1, <1>6, LegFacts, StartThenList DEF Starting, Start
<1>7. ASSUME NEW leg \in Legs(req), Sending(leg)
      PROVE  todo[1].fn = "send" /\ todo[1].word = leg.word /\ Tail(todo) = <<Acked>> \o leg.rest
  <2>1. leg.word \in Word /\ leg.rest \in Seq(Function) /\ todo = SendThen(leg.word, leg.rest)
    BY <1>1, <1>7, LegFacts DEF Sending
  <2>2. /\ todo[1] = [fn |-> "send", word |-> leg.word]
        /\ Tail(todo) = <<Acked>> \o leg.rest
    BY <2>1, SendThenList
  <2> QED
    BY <2>2
<1>8. ASSUME NEW leg \in Legs(req), Acking(leg)
      PROVE  todo[1].fn = "ack" /\ Tail(todo) = leg.rest
  BY <1>1, <1>8, LegFacts, SendThenList DEF Acking, Acked
<1>9. ASSUME NEW k \in 1 .. req.size, Reading(k)
      PROVE  /\ todo[1].fn = "read"
             /\ Tail(todo) = <<[fn |-> "reply", bit |-> IF k = 1 THEN 1 ELSE 0]>>
                               \o ReadThenStop(k - 1)
  <2>1. k \in Nat /\ k > 0 /\ todo = ReadThenStop(k)
    BY <1>1, <1>9 DEF Reading
  <2>2. ReadThenStop(k)[1] = [fn |-> "read"]
    BY <2>1, ReadStep
  <2> QED
    BY <2>1, <2>2, ReadStep
<1>10. ASSUME NEW k \in 0 .. req.size - 1, Replying(k)
       PROVE  /\ todo[1].fn = "reply" /\ Tail(todo) = ReadThenStop(k)
              /\ todo[1].bit = IF k = 0 THEN 1 ELSE 0
  <2> DEFINE f == [fn |-> "reply", bit |-> IF k = 0 THEN 1 ELSE 0]
  <2>1. f \in Function /\ k \in Nat
    BY <1>1, ByName DEF Bit
  <2>2. ReadThenStop(k) \in Seq(Function)
    BY <2>1, ReadStep
  <2>3. todo = <<f>> \o ReadThenStop(k)
    BY <1>10 DEF Replying
  <2>4. f.fn = "reply" /\ f.bit = IF k = 0 THEN 1 ELSE 0
    OBVIOUS
  <2> HIDE DEF f
  <2>5. todo[1] = f /\ Tail(todo) = ReadThenStop(k)
    BY <2>1, <2>2, <2>3, HeadOfList
  <2> QED
    BY <2>4, <2>5
<1> QED
  BY <1>3, <1>4, <1>5, <1>6, <1>7, <1>8, <1>9, <1>10 DEF XferInv, Phase

(* Nothing left to run: the call has returned.                               *)
LEMMA IdleIsBetween ==
  ASSUME XferInv, todo = << >>
  PROVE  Between
<1>1. req \in Request /\ req.size \in Nat
  BY CallFacts DEF XferInv, Kept
<1>2. ASSUME NEW leg \in Legs(req)
      PROVE  /\ SendThen(leg.word, leg.rest) # << >> /\ StartThen(leg.word, leg.rest) # << >>
             /\ <<Acked>> \o leg.rest # << >>
             /\ <<[fn |-> "check"]>> \o StartThen(leg.word, leg.rest) # << >>
  BY <1>1, LegFacts, SendThenList, StartThenList, HeadOfList, ByName
<1>3. ASSUME NEW k \in 1 .. req.size PROVE ReadThenStop(k) # << >>
  <2>1. k \in Nat
    BY <1>1
  <2> QED
    BY <2>1, ReadStep
<1>4. ASSUME NEW k \in 0 .. req.size - 1
      PROVE  <<[fn |-> "reply", bit |-> IF k = 0 THEN 1 ELSE 0]>> \o ReadThenStop(k) # << >>
  <2> DEFINE f == [fn |-> "reply", bit |-> IF k = 0 THEN 1 ELSE 0]
  <2>1. f \in Function /\ k \in Nat
    BY <1>1, ByName DEF Bit
  <2> HIDE DEF f
  <2>3. ReadThenStop(k) \in Seq(Function)
    BY <2>1, ReadStep
  <2>2. <<f>> \o ReadThenStop(k) # << >>
    BY <2>1, <2>3, HeadOfList
  <2> QED
    BY <2>2 DEF f
<1>5. ~Checking
  BY <1>2 DEF Checking
<1>6. ~Stopping
  BY DEF Stopping
<1>7. ASSUME NEW leg \in Legs(req) PROVE ~Starting(leg) /\ ~Sending(leg) /\ ~Acking(leg)
  BY <1>2 DEF Starting, Sending, Acking
<1>8. ASSUME NEW k \in 1 .. req.size PROVE ~Reading(k)
  BY <1>3 DEF Reading
<1>9. ASSUME NEW k \in 0 .. req.size - 1 PROVE ~Replying(k)
  BY <1>4 DEF Replying
<1> QED
  BY <1>5, <1>6, <1>7, <1>8, <1>9 DEF XferInv, Phase

(* What a pin operation does, and what the device may make of it.            *)
LEMMA PinFacts ==
  ASSUME NEW c, NEW o, NEW d, Pins(c, o, d)
  PROVE  /\ scl' = c /\ out' = o /\ odr' = d
         /\ slave' \in React(slave, scl, SDA, c, Level(o, d, slave))
         /\ Level(o, d, slave) \in Bit /\ SDA \in Bit
BY DEF Pins, Level, SDA, Bit

(* Under a low clock it sees nothing,                                        *)
LEMMA LowPins ==
  ASSUME scl = 0, NEW o, NEW d, Pins(0, o, d)
  PROVE  slave' = slave /\ scl' = 0 /\ out' = o /\ odr' = d
BY PinFacts DEF React

(* under a high one nothing when the line stays,                             *)
LEMMA StillPins ==
  ASSUME scl = 1, NEW o, NEW d, Pins(1, o, d), Level(o, d, slave) = SDA
  PROVE  slave' = slave /\ scl' = 1 /\ out' = o /\ odr' = d
BY PinFacts DEF React

(* and when the clock rises or falls it sees just that.                      *)
LEMMA ClockPins ==
  ASSUME NEW c \in Bit, c # scl, scl \in Bit, Pins(c, out, odr)
  PROVE  /\ scl' = c /\ out' = out /\ odr' = odr
         /\ c = 1 => slave' = Rise(slave, SDA)
         /\ c = 0 => slave' \in Fall(slave)
BY PinFacts DEF React, SDA, Bit

(* What every phase has is kept when nothing is delivered,                   *)
LEMMA KeptSame ==
  ASSUME XferInv, req' = req, slave' \in SlaveState, slave'.got = slave.got
  PROVE  Kept'
BY DEF XferInv, Kept

(* in particular by a step that the device does not see.                     *)
LEMMA KeptQuiet ==
  ASSUME XferInv, req' = req, slave' = slave
  PROVE  Kept'
BY KeptSame DEF XferInv, Kept

(* The variables that a pin operation of a transfer leaves alone.            *)
LEMMA KeepFacts ==
  ASSUME Keep
  PROVE  /\ req' = req /\ hung' = hung /\ is_i2c_init' = is_i2c_init
         /\ value' = value /\ rdata' = rdata /\ result' = result
BY DEF Keep, Same

(* i2c_idle_check.                                                           *)
LEMMA CheckXfer ==
  ASSUME BusInv, XferInv, i2c_idle_check
  PROVE  XferInv'
<1>1. todo # << >> /\ todo[1].fn = "check"
  BY DEF i2c_idle_check, At
<1>2. Checking /\ scl = 1 /\ (hung <=> slave.pull) /\ slave \in SlaveState /\ req \in Request
  BY <1>1, Heads DEF Checking, XferInv, Kept
<1>3. PICK leg \in Legs(req) : /\ leg.kind = "addr" /\ leg.done = << >>
                               /\ Tail(todo) = StartThen(leg.word, leg.rest)
  BY <1>1, Heads
<1>4. CASE At("check", 0) /\ i2c_sda_config_in /\ NextStep /\ Keep
  <2>1. out => odr = 1
    BY <1>1 DEF BusInv, Resting
  <2>2. Level(FALSE, odr, slave) = SDA
    BY <2>1 DEF Level, SDA
  <2>3. slave' = slave /\ scl' = 1 /\ out' = FALSE
    BY <1>2, <1>4, <2>2, StillPins DEF i2c_sda_config_in
  <2>4. Kept'
    BY <1>4, <2>3, KeptQuiet, KeepFacts
  <2>5. Checking'
    BY <1>2, <1>4, <2>3, KeepFacts DEF Checking, NextStep
  <2> QED
    BY <2>4, <2>5 DEF XferInv, Phase
<1>5. CASE At("check", 1) /\ SDA = 1 /\ NoPin /\ Done /\ Keep
  <2>1. slave' = slave /\ ~slave.pull
    BY <1>5 DEF NoPin, SDA, Level
  <2>2. Kept'
    BY <1>5, <2>1, KeptQuiet, KeepFacts
  <2>3. Starting(leg)'
    BY <1>2, <1>3, <1>5, <2>1, KeepFacts DEF Checking, Done, Starting, Fresh
  <2>4. leg \in Legs(req')
    BY <1>5, KeepFacts
  <2> QED
    BY <2>2, <2>3, <2>4 DEF XferInv, Phase
<1>6. CASE /\ At("check", 1) /\ SDA = 0 /\ NoPin
           /\ todo' = << >> /\ step' = 0 /\ index' = 0 /\ result' = "I2C_ERROR"
           /\ Same /\ UNCHANGED <<value, rdata>>
  <2>1. slave' = slave /\ req' = req /\ hung' = hung /\ scl' = scl /\ ~out
    BY <1>2, <1>6 DEF NoPin, pinVars, Same, Checking, At
  <2>2. slave.got = << >>
    BY <1>2 DEF Checking
  <2>3. Kept'
    BY <2>1, KeptQuiet
  <2>4. req.op = "write" => Len(slave.got) < Len(Words(req))
    <3>1. Len(<< >>) = 0
      OBVIOUS
    <3> QED
      BY <1>2, <2>2, <3>1, CallFacts
  <2>5. Between'
    BY <1>2, <1>6, <2>1, <2>2, <2>4 DEF Between
  <2> QED
    BY <2>3, <2>5 DEF XferInv, Phase
<1> QED
  BY <1>4, <1>5, <1>6 DEF i2c_idle_check

(* i2c_start.                                                                *)
LEMMA StartXfer ==
  ASSUME BusInv, XferInv, i2c_start
  PROVE  XferInv'
<1>1. todo # << >> /\ todo[1].fn = "start"
  BY DEF i2c_start, At
<1>2. PICK leg \in Legs(req) : Starting(leg) /\ Tail(todo) = SendThen(leg.word, leg.rest)
  BY <1>1, Heads
<1>3. /\ req \in Request /\ slave \in SlaveState /\ ~slave.pull /\ slave.got = leg.done
      /\ leg.kind = "addr" /\ leg.word \in Word /\ scl \in Bit
  BY <1>2, LegFacts DEF XferInv, Kept, Starting, BusInv
<1>4. ASSUME NEW o, NEW d, NEW c \in Bit, scl = 1 => c = 1, Pins(c, o, d), Keep
      PROVE  /\ Kept' /\ scl' = c /\ out' = o /\ odr' = d
             /\ slave'.got = slave.got /\ slave'.gave = slave.gave /\ ~slave'.pull
  <2>1. slave' \in SlaveState /\ slave'.got = slave.got /\ slave'.gave = slave.gave /\ ~slave'.pull
    BY <1>3, <1>4, PinFacts, OtherEdge
  <2> QED
    BY <1>4, <2>1, PinFacts, KeptSame, KeepFacts
<1>5. ASSUME Starting(leg)', Kept', Keep
      PROVE  XferInv'
  <2>1. leg \in Legs(req')
    BY <1>2, <1>5, KeepFacts
  <2> QED
    BY <1>5, <2>1 DEF XferInv, Phase
<1>6. CASE At("start", 0) /\ i2c_sda_config_out /\ NextStep /\ Keep
  <2>1. /\ Kept' /\ scl' = scl /\ out' = TRUE
        /\ slave'.got = slave.got /\ slave'.gave = slave.gave /\ ~slave'.pull
    BY <1>3, <1>4, <1>6 DEF i2c_sda_config_out
  <2>2. Starting(leg)'
    BY <1>2, <1>6, <2>1, KeepFacts DEF At, NextStep, Starting, Fresh
  <2> QED
    BY <1>5, <1>6, <2>1, <2>2
<1>7. CASE At("start", 1) /\ I2C_SDA(1) /\ NextStep /\ Keep
  <2>1. /\ Kept' /\ scl' = scl /\ out' = out /\ odr' = 1
        /\ slave'.got = slave.got /\ slave'.gave = slave.gave /\ ~slave'.pull
    BY <1>3, <1>4, <1>7 DEF I2C_SDA
  <2>2. Starting(leg)'
    BY <1>2, <1>7, <2>1, KeepFacts DEF At, NextStep, Starting, Fresh
  <2> QED
    BY <1>5, <1>7, <2>1, <2>2
<1>8. CASE At("start", 2) /\ I2C_SCL_H /\ NextStep /\ Keep
  <2>1. /\ Kept' /\ scl' = 1 /\ out' = out /\ odr' = odr
        /\ slave'.got = slave.got /\ slave'.gave = slave.gave /\ ~slave'.pull
    BY <1>3, <1>4, <1>8 DEF I2C_SCL_H, Bit
  <2>2. Starting(leg)'
    BY <1>2, <1>8, <2>1, KeepFacts DEF At, NextStep, Starting, Fresh
  <2> QED
    BY <1>5, <1>8, <2>1, <2>2
<1>9. CASE At("start", 3) /\ I2C_SDA(0) /\ NextStep /\ Keep
  <2>1. scl = 1 /\ out /\ odr = 1
    BY <1>2, <1>9 DEF At, Starting
  <2>2. /\ Kept' /\ scl' = 1 /\ out' = out /\ odr' = 0
        /\ slave'.got = slave.got /\ slave'.gave = slave.gave /\ ~slave'.pull
    BY <1>3, <1>4, <1>9, <2>1 DEF I2C_SDA
  <2>3. SDA = 1 /\ Level(out, 0, slave) = 0
    BY <1>3, <2>1 DEF SDA, Level
  <2>4. slave' = Started(slave)
    <3>1. slave' \in React(slave, 1, 1, 1, 0)
      BY <1>9, <2>1, <2>3, PinFacts DEF I2C_SDA
    <3> QED
      BY <3>1 DEF React
  <2>5. Listening(slave', "addr", << >>)
    BY <1>3, <2>4, StartHeard
  <2>6. Starting(leg)'
    BY <1>2, <1>9, <2>1, <2>2, <2>5, KeepFacts DEF At, NextStep, Starting, Fresh
  <2> QED
    BY <1>5, <1>9, <2>2, <2>6
<1>10. CASE At("start", 4) /\ I2C_SCL_L /\ Done /\ Keep
  <2>1. scl = 1 /\ out /\ Listening(slave, "addr", << >>)
    BY <1>2, <1>10 DEF At, Starting
  <2>2. 0 \in 0 .. W - 1 /\ SubSeq(leg.word, 1, 0) = << >>
    BY <1>3, WordBits, I2cAssumption
  <2>3. Fall(slave) = {slave}
    <3>1. Listening(slave, "addr", SubSeq(leg.word, 1, 0))
      BY <2>1, <2>2
    <3> QED
      BY <1>3, <2>2, <3>1, BitHeard
  <2>4. slave' = slave /\ scl' = 0
    BY <1>10, <2>1, <2>3, ClockPins DEF I2C_SCL_L, Bit
  <2>5. Kept'
    BY <1>10, <2>4, KeptQuiet, KeepFacts
  <2>6. Sending(leg)'
    <3>1. todo' = SendThen(leg.word, leg.rest) /\ step' = 0 /\ index' = 0
      BY <1>2, <1>10 DEF Done
    <3>2. Fresh'
      BY <1>2, <1>10, <2>4, KeepFacts DEF Starting, Fresh
    <3>3. Listening(slave', leg.kind, SubSeq(leg.word, 1, 0)) /\ slave'.got = leg.done
      BY <1>3, <2>1, <2>2, <2>4
    <3> QED
      BY <2>2, <2>4, <3>1, <3>2, <3>3 DEF Sending
  <2>7. leg \in Legs(req')
    BY <1>2, <1>10, KeepFacts
  <2> QED
    BY <2>5, <2>6, <2>7 DEF XferInv, Phase
<1> QED
  BY <1>6, <1>7, <1>8, <1>9, <1>10 DEF i2c_start

-------------------------------------------------------------------------------
(* The words that are sent and their acknowledgements.                       *)

(* A word that the device takes is the next it has to be delivered.          *)
LEMMA KeptTaken ==
  ASSUME XferInv, NEW leg \in Legs(req), req' = req, slave' \in SlaveState,
         Taken(slave, leg)' \/ Refused(slave, leg)'
  PROVE  Kept'
<1>1. req \in Request
  BY DEF XferInv, Kept
<1> DEFINE n == Len(leg.done)
           ws == Words(req)
<1>2. /\ leg.kind \in {"addr", "data"} /\ n \in Nat /\ Len(ws) \in Nat /\ n <= Len(ws)
      /\ leg.done = SubSeq(ws, 1, n)
      /\ leg.kind = "data" => n < Len(ws) /\ Append(leg.done, leg.word) = SubSeq(ws, 1, n + 1)
  BY <1>1, LegFacts, CallFacts
<1>3. \/ slave'.got = leg.done
      \/ leg.kind = "data" /\ slave'.got = Append(leg.done, leg.word)
  BY DEF Taken, Refused
<1> HIDE DEF n, ws
<1>4. \E m \in 0 .. Len(ws) : slave'.got = SubSeq(ws, 1, m)
  <2>1. CASE slave'.got = leg.done
    <3>1. n \in 0 .. Len(ws)
      BY <1>2
    <3> QED
      BY <1>2, <2>1, <3>1
  <2>2. CASE leg.kind = "data" /\ slave'.got = Append(leg.done, leg.word)
    <3>1. n + 1 \in 0 .. Len(ws)
      BY <1>2, <2>2
    <3> QED
      BY <1>2, <2>2, <3>1
  <2> QED
    BY <1>3, <2>1, <2>2
<1> QED
  BY <1>1, <1>4 DEF Kept, ws

(* i2c_send_byte.                                                            *)
LEMMA SendXfer ==
  ASSUME BusInv, XferInv, i2c_send_byte
  PROVE  XferInv'
<1>1. todo # << >> /\ todo[1].fn = "send" /\ req' = req
  BY KeepFacts DEF i2c_send_byte, At
<1>2. PICK leg \in Legs(req) :
        /\ Sending(leg) /\ todo[1].word = leg.word /\ Tail(todo) = <<Acked>> \o leg.rest
  BY <1>1, Heads
<1>3. /\ req \in Request /\ slave \in SlaveState /\ slave.got = leg.done
      /\ leg.word \in Word /\ leg.done \in Seq(Word) /\ leg.kind \in {"addr", "data"}
      /\ W \in Nat /\ W > 1 /\ index \in 0 .. W - 1 /\ step \in 0 .. 3
      /\ leg \in Legs(req')
  BY <1>1, <1>2, LegFacts, I2cAssumption DEF XferInv, Kept, Sending
<1>4. ASSUME Sending(leg)', Kept' PROVE XferInv'
  BY <1>3, <1>4 DEF XferInv, Phase
<1>5. CASE At("send", 0) /\ i2c_sda_config_out /\ NextStep /\ Keep
  <2>1. scl = 0 /\ step = 0 /\ index = 0
    BY <1>2, <1>5 DEF At, Sending
  <2>2. slave' = slave /\ scl' = 0 /\ out' = TRUE
    BY <1>5, <2>1, LowPins DEF i2c_sda_config_out
  <2>3. Sending(leg)'
    BY <1>2, <1>5, <2>1, <2>2, KeepFacts DEF NextStep, Sending, Fresh
  <2> QED
    BY <1>1, <1>4, <2>2, <2>3, KeptQuiet
<1>6. CASE At("send", 1) /\ I2C_SDA(todo[1].word[index + 1]) /\ NextStep /\ Keep
  <2>1. scl = 0 /\ step = 1 /\ out
    BY <1>2, <1>6 DEF At, Sending
  <2>2. slave' = slave /\ scl' = 0 /\ out' = out /\ odr' = leg.word[index + 1]
    BY <1>2, <1>6, <2>1, LowPins DEF I2C_SDA
  <2>3. Sending(leg)'
    BY <1>2, <1>6, <2>1, <2>2, KeepFacts DEF NextStep, Sending, Fresh
  <2> QED
    BY <1>1, <1>4, <2>2, <2>3, KeptQuiet
<1>7. CASE At("send", 2) /\ I2C_SCL_H /\ NextStep /\ Keep
  <2>1. /\ scl = 0 /\ step = 2 /\ out /\ odr = leg.word[index + 1]
        /\ Listening(slave, leg.kind, SubSeq(leg.word, 1, index))
    BY <1>2, <1>7 DEF At, Sending
  <2>2. leg.word[index + 1] \in Bit
    BY <1>3, WordBits
  <2>3. SDA = leg.word[index + 1]
    BY <2>1, <2>2 DEF SDA, Level, Listening, Bit
  <2>4. slave' = Rise(slave, leg.word[index + 1]) /\ scl' = 1 /\ out' = out /\ odr' = odr
    BY <1>7, <2>1, <2>3, ClockPins DEF I2C_SCL_H, Bit
  <2>5. Listening(slave', leg.kind, SubSeq(leg.word, 1, index + 1))
    BY <1>3, <2>1, <2>4, BitHeard
  <2>6. slave' \in SlaveState /\ slave'.got = slave.got /\ slave'.gave = slave.gave
    <3>1. slave' \in React(slave, 0, SDA, 1, Level(out, odr, slave))
          /\ Level(out, odr, slave) \in Bit
      BY <1>7, <2>1, PinFacts DEF I2C_SCL_H
    <3>2. 0 \in Bit /\ 1 \in Bit
      BY DEF Bit
    <3> QED
      BY <1>3, <3>1, <3>2, OtherEdge
  <2>7. Sending(leg)'
    <3>1. Fresh'
      BY <1>2, <1>7, <2>6, KeepFacts DEF Sending, Fresh
    <3>2. todo' = todo /\ step' = 3 /\ index' = index
      BY <1>7, <2>1 DEF NextStep
    <3> QED
      BY <1>2, <1>3, <2>1, <2>4, <2>5, <2>6, <3>1, <3>2 DEF Sending
  <2> QED
    BY <1>1, <1>4, <2>6, <2>7, KeptSame
<1>8. CASE At("send", 3) /\ I2C_SCL_L /\ NextBit /\ Keep
  <2>1. /\ scl = 1 /\ step = 3 /\ out
        /\ Listening(slave, leg.kind, SubSeq(leg.word, 1, index + 1))
    BY <1>2, <1>8 DEF At, Sending
  <2>2. slave' \in Fall(slave) /\ scl' = 0 /\ out' = out
    BY <1>8, <2>1, ClockPins DEF I2C_SCL_L, Bit
  <2>3. CASE index + 1 < W
    <3>1. index + 1 \in 0 .. W - 1
      BY <1>3, <2>3
    <3>2. slave' = slave
      BY <1>3, <2>1, <2>2, <3>1, BitHeard
    <3>3. todo' = todo /\ step' = 1 /\ index' = index + 1
      BY <1>8, <2>3 DEF NextBit
    <3>4. Fresh'
      BY <1>2, <1>8, <3>2, KeepFacts DEF Sending, Fresh
    <3>5. Sending(leg)'
      BY <1>2, <2>1, <2>2, <3>1, <3>2, <3>3, <3>4 DEF Sending
    <3> QED
      BY <1>1, <1>4, <3>2, <3>5, KeptQuiet
  <2>4. CASE ~(index + 1 < W)
    <3>1. index + 1 = W
      BY <1>3, <2>4
    <3>2. Listening(slave, leg.kind, leg.word)
      BY <1>3, <2>1, <3>1, WordBits
    <3>3. /\ slave' \in SlaveState /\ slave'.gave = slave.gave
          /\ Taken(slave', leg) \/ Refused(slave', leg)
      BY <1>3, <2>2, <3>2, WordHeard
    <3>4. todo' = <<Acked>> \o leg.rest /\ step' = 0 /\ index' = 0
      BY <1>2, <1>8, <2>4 DEF NextBit, Done
    <3>5. Fresh'
      BY <1>2, <1>8, <3>3, KeepFacts DEF Sending, Fresh
    <3>6. Acking(leg)'
      BY <2>2, <3>3, <3>4, <3>5 DEF Acking
    <3>7. Kept'
      BY <1>1, <1>2, <3>3, KeptTaken
    <3> QED
      BY <1>3, <3>6, <3>7 DEF XferInv, Phase
  <2> QED
    BY <2>3, <2>4
<1> QED
  BY <1>5, <1>6, <1>7, <1>8 DEF i2c_send_byte

(* What i2c_wait_ack finds when the device has taken the word.               *)
LEMMA TakenXfer ==
  ASSUME XferInv, NEW leg \in Legs(req), Taken(slave, leg), Fresh, Tail(todo) = leg.rest,
         slave' \in Fall(slave), scl' = 0, Done, Keep
  PROVE  XferInv'
<1>1. /\ req \in Request /\ slave \in SlaveState /\ leg.word \in Word
      /\ leg.kind \in {"addr", "data"} /\ leg.done \in Seq(Word)
      /\ W \in Nat /\ W > 1
  BY LegFacts, I2cAssumption DEF XferInv, Kept
<1>2. /\ req' = req /\ hung' = hung /\ value' = value /\ rdata' = rdata /\ result' = result
      /\ todo' = leg.rest /\ step' = 0 /\ index' = 0
  BY KeepFacts DEF Done
<1>3. slave.got = IF leg.kind = "data" THEN Append(leg.done, leg.word) ELSE leg.done
  BY DEF Taken
<1>4. ASSUME ~(leg.kind = "addr" /\ leg.word[W] = 1)
      PROVE  /\ slave' \in SlaveState /\ Listening(slave', "data", << >>)
             /\ slave'.got = slave.got /\ Fresh' /\ Kept'
  <2>1. /\ slave' \in SlaveState /\ Listening(slave', "data", << >>)
        /\ slave'.got = slave.got /\ slave'.gave = slave.gave
    BY <1>1, <1>4, AnswerGiven
  <2>2. Fresh'
    BY <1>2, <2>1 DEF Fresh
  <2> QED
    BY <1>2, <2>1, <2>2, KeptSame
<1>5. ASSUME ~(leg.kind = "addr" /\ leg.word[W] = 1),
             NEW next \in Legs(req), next.kind = "data", next.done = slave.got,
             leg.rest = SendThen(next.word, next.rest)
      PROVE  XferInv'
  <2>1. SubSeq(next.word, 1, 0) = << >>
    BY <1>1, LegFacts, WordBits
  <2>2. 0 \in 0 .. W - 1 /\ 0 \in 0 .. 3
    BY <1>1
  <2>3. Sending(next)'
    <3>1. todo' = SendThen(next.word, next.rest) /\ slave'.got = next.done
      BY <1>2, <1>4, <1>5
    <3>2. Listening(slave', next.kind, SubSeq(next.word, 1, 0))
      BY <1>4, <1>5, <2>1
    <3>3. Fresh'
      BY <1>4, <1>5
    <3> QED
      BY <1>2, <2>2, <3>1, <3>2, <3>3 DEF Sending
  <2>4. next \in Legs(req')
    BY <1>2, <1>5
  <2> QED
    BY <1>4, <1>5, <2>3, <2>4 DEF XferInv, Phase
<1>6. ASSUME leg.kind = "data", req.op = "write", leg.rest = <<Stop>>,
             Append(leg.done, leg.word) = Words(req)
      PROVE  XferInv'
  <2>1. /\ slave' \in SlaveState /\ Listening(slave', "data", << >>)
        /\ slave'.got = slave.got /\ Fresh' /\ Kept'
    BY <1>4, <1>6
  <2>2. req.size = 0 /\ Len(rdata') = 0
    <3>1. rdata' = << >>
      BY <2>1 DEF Fresh
    <3>2. Len(<< >>) = 0
      OBVIOUS
    <3> QED
      BY <1>1, <1>6, <3>1, <3>2, CallFacts
  <2>3. Stopping'
    BY <1>2, <1>3, <1>6, <2>1, <2>2 DEF Stopping, Fresh, Listening
  <2> QED
    BY <2>1, <2>3 DEF XferInv, Phase
<1>7. ASSUME leg.kind = "data",
             NEW next \in Legs(req), next.kind = "addr", next.done = slave.got,
             leg.rest = StartThen(next.word, next.rest)
      PROVE  XferInv'
  <2>1. /\ slave' \in SlaveState /\ Listening(slave', "data", << >>)
        /\ slave'.got = slave.got /\ Fresh' /\ Kept'
    BY <1>4, <1>7
  <2>2. Starting(next)'
    BY <1>2, <1>7, <2>1 DEF Starting, Listening
  <2>3. next \in Legs(req')
    BY <1>2, <1>7
  <2> QED
    BY <2>1, <2>2, <2>3 DEF XferInv, Phase
<1>8. ASSUME leg.kind = "addr", req.op = "read", leg.word[W] = 1,
             leg.rest = ReadThenStop(req.size), leg.done = Words(req)
      PROVE  XferInv'
  <2>1. Giving(slave') /\ slave'.got = slave.got /\ slave'.gave = Append(slave.gave, slave'.bits)
    BY <1>1, <1>8, AnswerGiven
  <2>2. /\ slave' \in SlaveState /\ slave'.mode = "send" /\ ~slave'.ack
        /\ slave'.pull <=> slave'.bits[1] = 0
        /\ slave'.bits \in Seq(Bit) /\ slave'.bits # << >> /\ Len(slave'.bits) = W
    BY <2>1, WordBits DEF Giving
  <2>3. Kept'
    BY <1>2, <2>1, <2>2, KeptSame
  <2>4. rdata' = << >> /\ value' = << >> /\ slave.gave = << >> /\ result' = "none" /\ ~hung'
    BY <1>2 DEF Fresh
  <2>5. << >> \in Seq(Bit) /\ << >> \in Seq(Word) /\ Len(<< >>) = 0
    OBVIOUS
  <2>6. << >> \o slave'.bits = slave'.bits
    BY <2>2, ConcatEmptySeq
  <2>7. PICK k \in Nat : k = req.size /\ k \in 1 .. req'.size
    BY <1>1, <1>2, <1>8, CallFacts
  <2>8. Reading(k)'
    <3>1. Len(rdata') + k = req'.size /\ Len(slave'.bits) = W - index' /\ Len(value') = index'
      BY <1>1, <1>2, <2>2, <2>4, <2>5, <2>7
    <3>2. slave'.gave = Append(rdata', value' \o slave'.bits)
      BY <2>1, <2>4, <2>6
    <3>3. index' \in 0 .. W - 1 /\ step' \in 0 .. 3
      BY <1>1, <1>2
    <3>4. slave'.got = Words(req')
      BY <1>2, <1>3, <1>8, <2>1
    <3>5. todo' = ReadThenStop(k)
      BY <1>2, <1>8, <2>7
    <3> QED
      BY <1>2, <1>8, <2>2, <2>4, <2>5, <3>1, <3>2, <3>3, <3>4, <3>5 DEF Reading
  <2> QED
    BY <2>3, <2>7, <2>8 DEF XferInv, Phase
<1>9. CASE /\ leg.kind = "addr" /\ leg.word[W] = 0
           /\ \E next \in Legs(req) : /\ next.kind = "data" /\ next.done = leg.done
                                      /\ leg.rest = SendThen(next.word, next.rest)
  <2>1. PICK next \in Legs(req) : /\ next.kind = "data" /\ next.done = leg.done
                                  /\ leg.rest = SendThen(next.word, next.rest)
    BY <1>9
  <2>2. ~(leg.kind = "addr" /\ leg.word[W] = 1) /\ next.done = slave.got
    BY <1>3, <1>9, <2>1
  <2> QED
    BY <1>5, <2>1, <2>2
<1>10. CASE /\ leg.kind = "data"
            /\ \E next \in Legs(req) : /\ next.kind = "data"
                                       /\ next.done = Append(leg.done, leg.word)
                                       /\ leg.rest = SendThen(next.word, next.rest)
  <2>1. PICK next \in Legs(req) : /\ next.kind = "data"
                                  /\ next.done = Append(leg.done, leg.word)
                                  /\ leg.rest = SendThen(next.word, next.rest)
    BY <1>10
  <2>2. ~(leg.kind = "addr" /\ leg.word[W] = 1) /\ next.done = slave.got
    BY <1>3, <1>10, <2>1
  <2> QED
    BY <1>5, <2>1, <2>2
<1>11. CASE /\ leg.kind = "data" /\ req.op = "read"
            /\ \E next \in Legs(req) : /\ next.kind = "addr"
                                       /\ next.done = Append(leg.done, leg.word)
                                       /\ leg.rest = StartThen(next.word, next.rest)
  <2>1. PICK next \in Legs(req) : /\ next.kind = "addr"
                                  /\ next.done = Append(leg.done, leg.word)
                                  /\ leg.rest = StartThen(next.word, next.rest)
    BY <1>11
  <2>2. next.done = slave.got
    BY <1>3, <1>11, <2>1
  <2> QED
    BY <1>7, <1>11, <2>1, <2>2
<1> QED
  BY <1>1, <1>6, <1>8, <1>9, <1>10, <1>11, NextLeg

(* i2c_wait_ack.                                                             *)
LEMMA AckXfer ==
  ASSUME BusInv, XferInv, i2c_wait_ack
  PROVE  XferInv'
<1>1. todo # << >> /\ todo[1].fn = "ack" /\ req' = req
  BY KeepFacts DEF i2c_wait_ack, At, Same
<1>2. PICK leg \in Legs(req) : Acking(leg) /\ Tail(todo) = leg.rest
  BY <1>1, Heads
<1>3. /\ req \in Request /\ slave \in SlaveState /\ leg \in Legs(req')
      /\ Fresh /\ todo = <<Acked>> \o leg.rest /\ index = 0
  BY <1>1, <1>2 DEF XferInv, Kept, Acking
<1>4. ASSUME Acking(leg)', Kept' PROVE XferInv'
  BY <1>3, <1>4 DEF XferInv, Phase
<1>5. CASE At("ack", 0) /\ i2c_sda_config_in /\ NextStep /\ Keep
  <2>1. scl = 0 /\ step = 0 /\ (Taken(slave, leg) \/ Refused(slave, leg))
    BY <1>2, <1>5 DEF At, Acking
  <2>2. slave' = slave /\ scl' = 0 /\ out' = FALSE
    BY <1>5, <2>1, LowPins DEF i2c_sda_config_in
  <2>3. Acking(leg)'
    BY <1>3, <1>5, <2>1, <2>2, KeepFacts DEF NextStep, Acking, Fresh
  <2> QED
    BY <1>1, <1>4, <2>2, <2>3, KeptQuiet
<1>6. CASE At("ack", 1) /\ SDA = 0 /\ NoPin /\ NextStep /\ Keep
  <2>1. scl = 0 /\ step = 1 /\ ~out /\ (Taken(slave, leg) \/ Refused(slave, leg))
    BY <1>2, <1>6 DEF At, Acking
  <2>2. slave' = slave /\ scl' = 0 /\ out' = out /\ slave.pull
    BY <1>6, <2>1 DEF NoPin, pinVars, SDA, Level
  <2>3. Taken(slave, leg)
    BY <2>1, <2>2 DEF Refused
  <2>4. Acking(leg)'
    BY <1>3, <1>6, <2>1, <2>2, <2>3, KeepFacts DEF NextStep, Acking, Fresh
  <2> QED
    BY <1>1, <1>4, <2>2, <2>4, KeptQuiet
<1>7. CASE /\ At("ack", 1) /\ SDA = 1 /\ NoPin
           /\ todo' = <<Stop>> /\ step' = 0 /\ index' = 0 /\ result' = "I2C_ERROR"
           /\ Same /\ UNCHANGED <<value, rdata>>
  <2>1. scl = 0 /\ (Taken(slave, leg) \/ Refused(slave, leg))
    BY <1>2, <1>7 DEF At, Acking
  <2>2. slave' = slave /\ scl' = 0 /\ ~slave.pull /\ hung' = hung
    BY <1>7, <2>1 DEF NoPin, pinVars, SDA, Level, Same
  <2>3. Refused(slave, leg)
    BY <2>1, <2>2 DEF Taken
  <2>4. req.op = "write" => Len(slave.got) < Len(Words(req))
    BY <1>3, <1>2, <2>3, LegFacts DEF Refused
  <2>5. Stopping'
    BY <1>1, <1>3, <1>7, <2>2, <2>3, <2>4 DEF Stopping, Refused, Fresh
  <2> QED
    BY <1>1, <2>2, <2>5, KeptQuiet DEF XferInv, Phase
<1>8. CASE At("ack", 2) /\ I2C_SCL_H /\ NextStep /\ Keep
  <2>1. scl = 0 /\ step = 2 /\ ~out /\ Taken(slave, leg)
    BY <1>2, <1>8 DEF At, Acking
  <2>2. slave' = Rise(slave, SDA) /\ scl' = 1 /\ out' = out
    BY <1>8, <2>1, ClockPins DEF I2C_SCL_H, Bit
  <2>3. slave' = slave
    BY <2>1, <2>2 DEF Rise, Taken
  <2>4. Acking(leg)'
    BY <1>3, <1>8, <2>1, <2>2, <2>3, KeepFacts DEF NextStep, Acking, Fresh
  <2> QED
    BY <1>1, <1>4, <2>3, <2>4, KeptQuiet
<1>9. CASE At("ack", 3) /\ I2C_SCL_L /\ Done /\ Keep
  <2>1. scl = 1 /\ Taken(slave, leg)
    BY <1>2, <1>9 DEF At, Acking
  <2>2. slave' \in Fall(slave) /\ scl' = 0
    BY <1>9, <2>1, ClockPins DEF I2C_SCL_L, Bit
  <2> QED
    BY <1>2, <1>3, <1>9, <2>1, <2>2, TakenXfer
<1> QED
  BY <1>5, <1>6, <1>7, <1>8, <1>9 DEF i2c_wait_ack

-------------------------------------------------------------------------------
(* The words that are read, the stop, and the theorems.                      *)

(* i2c_read_byte.                                                            *)
LEMMA ReadXfer ==
  ASSUME BusInv, XferInv, i2c_read_byte
  PROVE  XferInv'
<1>1. todo # << >> /\ todo[1].fn = "read" /\ req' = req /\ hung' = hung
  BY KeepFacts DEF i2c_read_byte, At, Same
<1>2. PICK k \in 1 .. req.size :
        /\ Reading(k)
        /\ Tail(todo) = <<[fn |-> "reply", bit |-> IF k = 1 THEN 1 ELSE 0]>> \o ReadThenStop(k - 1)
  BY <1>1, Heads
<1>3. /\ req \in Request /\ slave \in SlaveState /\ req.size \in Nat
      /\ k \in Nat /\ k > 0 /\ W \in Nat /\ W > 1 /\ index \in 0 .. W - 1 /\ step \in 0 .. 3
      /\ slave.mode = "send" /\ ~slave.ack /\ slave.bits # << >>
      /\ slave.bits \in Seq(Bit) /\ value \in Seq(Bit) /\ rdata \in Seq(Word)
      /\ slave.pull <=> slave.bits[1] = 0
      /\ Len(slave.bits) = W - index /\ slave.bits[1] \in Bit
  <2>1. req \in Request /\ slave \in SlaveState
    BY DEF XferInv, Kept
  <2>2. req.size \in Nat
    BY <2>1, CallFacts
  <2>3. /\ slave.mode = "send" /\ ~slave.ack /\ slave.bits # << >>
        /\ slave.pull <=> slave.bits[1] = 0
        /\ value \in Seq(Bit) /\ rdata \in Seq(Word)
        /\ Len(slave.bits) = W - index /\ index \in 0 .. W - 1 /\ step \in 0 .. 3
    BY <1>2 DEF Reading
  <2>4. slave.bits \in Seq(Bit)
    BY <2>1 DEF SlaveState
  <2>5. slave.bits[1] \in Bit
    BY <2>3, <2>4
  <2> QED
    BY <1>2, <2>1, <2>2, <2>3, <2>4, <2>5, I2cAssumption
<1>4. ASSUME Reading(k)', Kept' PROVE XferInv'
  BY <1>1, <1>2, <1>4 DEF XferInv, Phase
<1>5. CASE At("read", 0) /\ i2c_sda_config_in /\ NextStep /\ Keep
  <2>1. scl = 0 /\ step = 0 /\ index = 0
    BY <1>2, <1>5 DEF At, Reading
  <2>2. slave' = slave /\ scl' = 0 /\ out' = FALSE
    BY <1>5, <2>1, LowPins DEF i2c_sda_config_in
  <2>3. Reading(k)'
    BY <1>2, <1>5, <2>1, <2>2, KeepFacts DEF NextStep, Reading
  <2> QED
    BY <1>1, <1>4, <2>2, <2>3, KeptQuiet
<1>6. CASE At("read", 1) /\ I2C_SCL_H /\ NextStep /\ Keep
  <2>1. scl = 0 /\ step = 1 /\ ~out
    BY <1>2, <1>6 DEF At, Reading
  <2>2. slave' = Rise(slave, SDA) /\ scl' = 1 /\ out' = out
    BY <1>6, <2>1, ClockPins DEF I2C_SCL_H, Bit
  <2>3. slave' = slave
    BY <1>3, <2>2 DEF Rise
  <2>4. Reading(k)'
    BY <1>2, <1>6, <2>1, <2>2, <2>3, KeepFacts DEF NextStep, Reading
  <2> QED
    BY <1>1, <1>4, <2>3, <2>4, KeptQuiet
<1>7. CASE /\ At("read", 2) /\ NoPin
           /\ value' = Append(value, SDA)
           /\ NextStep /\ Same /\ UNCHANGED <<rdata, result>>
  <2>1. scl = 1 /\ step = 2 /\ ~out /\ Len(value) = index
        /\ slave.gave = Append(rdata, value \o slave.bits)
    BY <1>2, <1>7 DEF At, Reading
  <2>2. slave' = slave /\ scl' = 1 /\ out' = out
    BY <1>7, <2>1 DEF NoPin, pinVars
  <2>3. SDA = slave.bits[1]
    BY <1>3, <2>1 DEF SDA, Level, Bit
  <2>4. value' \in Seq(Bit) /\ Len(value') = index + 1
        /\ value' \o Tail(slave.bits) = value \o slave.bits
    <3>1. value' = Append(value, slave.bits[1])
      BY <1>7, <2>3
    <3>2. Append(value, slave.bits[1]) \o Tail(slave.bits) = value \o slave.bits
      BY <1>3, BitMoves
    <3>3. Append(value, slave.bits[1]) \in Seq(Bit)
          /\ Len(Append(value, slave.bits[1])) = Len(value) + 1
      BY <1>3, AppendProperties
    <3> QED
      BY <2>1, <3>1, <3>2, <3>3
  <2>5. todo' = todo /\ step' = 3 /\ index' = index /\ rdata' = rdata /\ result' = result
    BY <1>7, <2>1 DEF NextStep
  <2>6. Reading(k)'
    <3>1. slave'.gave = Append(rdata', value' \o Tail(slave'.bits))
      BY <2>1, <2>2, <2>4, <2>5
    <3>2. /\ todo = ReadThenStop(k) /\ Len(rdata) + k = req.size /\ req.op = "read"
          /\ result = "none" /\ ~hung /\ slave.got = Words(req)
      BY <1>2 DEF Reading
    <3>3. Len(value') = index' + 1 /\ value' \in Seq(Bit) /\ rdata' \in Seq(Word)
          /\ index' \in 0 .. W - 1
      BY <1>3, <2>4, <2>5
    <3>4. Len(slave'.bits) = W - index' /\ slave'.mode = "send" /\ ~slave'.ack
          /\ slave'.bits # << >> /\ (slave'.pull <=> slave'.bits[1] = 0)
      BY <1>3, <2>2, <2>5
    <3> QED
      BY <1>1, <2>1, <2>2, <2>5, <3>1, <3>2, <3>3, <3>4 DEF Reading
  <2> QED
    BY <1>1, <1>4, <2>2, <2>6, KeptQuiet
<1>8. ASSUME At("read", 3), I2C_SCL_L
      PROVE  /\ scl' = 0 /\ step = 3 /\ ~out' /\ Len(value) = index + 1
             /\ slave.gave = Append(rdata, value \o Tail(slave.bits))
             /\ slave' \in SlaveState /\ slave'.mode = "send"
             /\ slave'.got = slave.got /\ slave'.gave = slave.gave
             /\ slave'.bits = Tail(slave.bits)
             /\ Len(slave.bits) = 1 => slave'.ack /\ ~slave'.pull
             /\ Len(slave.bits) > 1 => /\ ~slave'.ack /\ slave'.bits # << >>
                                       /\ slave'.pull <=> slave'.bits[1] = 0
  <2>1. /\ scl = 1 /\ step = 3 /\ ~out /\ Len(value) = index + 1
        /\ slave.gave = Append(rdata, value \o Tail(slave.bits))
    BY <1>2, <1>8 DEF At, Reading
  <2>2. slave' \in Fall(slave) /\ scl' = 0 /\ out' = out
    BY <1>8, <2>1, ClockPins DEF I2C_SCL_L, Bit
  <2> QED
    BY <1>3, <2>1, <2>2, BitGiven
<1>9. CASE At("read", 3) /\ index + 1 < W /\ I2C_SCL_L /\ NextBit /\ Keep
  <2>1. todo' = todo /\ step' = 1 /\ index' = index + 1
    BY <1>9 DEF NextBit
  <2>2. value' = value /\ rdata' = rdata /\ result' = result
    BY <1>9, KeepFacts
  <2>3. Len(slave.bits) > 1 /\ index + 1 \in 0 .. W - 1
    BY <1>3, <1>9
  <2>4. Len(slave'.bits) = W - index'
    <3>1. slave'.bits = Tail(slave.bits)
      BY <1>8, <1>9
    <3>2. Len(Tail(slave.bits)) = Len(slave.bits) - 1
      BY <1>3
    <3> QED
      BY <1>3, <2>1, <3>1, <3>2
  <2>5. slave'.gave = Append(rdata, value \o slave'.bits)
    BY <1>8, <1>9
  <2>6. Reading(k)'
    BY <1>1, <1>2, <1>3, <1>8, <1>9, <2>1, <2>2, <2>3, <2>4, <2>5 DEF Reading
  <2>7. Kept'
    BY <1>1, <1>8, <1>9, KeptSame
  <2> QED
    BY <1>4, <2>6, <2>7
<1>10. CASE /\ At("read", 3) /\ index + 1 = W /\ I2C_SCL_L /\ NextBit
            /\ rdata' = Append(rdata, value) /\ value' = << >>
            /\ Same /\ UNCHANGED result
  <2>1. ~(index + 1 < W) /\ Len(slave.bits) = 1
    BY <1>3, <1>10
  <2>2. todo' = Tail(todo) /\ step' = 0 /\ index' = 0
    BY <1>10, <2>1 DEF NextBit, Done
  <2>3. PICK m \in 0 .. req'.size - 1 : m = k - 1
    BY <1>1, <1>2, <1>3
  <2>4. todo' = <<[fn |-> "reply", bit |-> IF m = 0 THEN 1 ELSE 0]>> \o ReadThenStop(m)
    <3>1. m = 0 <=> k = 1
      BY <1>3, <2>3
    <3> QED
      BY <1>2, <2>2, <2>3, <3>1
  <2>5. Tail(slave.bits) = << >>
    BY <1>3, <2>1
  <2>6. slave'.gave = rdata'
    <3>1. value \o << >> = value
      BY <1>3, ConcatEmptySeq
    <3> QED
      BY <1>8, <1>10, <2>5, <3>1
  <2>7. Len(rdata') + m = req'.size
    <3>1. Len(rdata) + k = req.size
      BY <1>2 DEF Reading
    <3>2. Len(rdata') = Len(rdata) + 1 /\ Len(rdata) \in Nat
      BY <1>3, <1>10
    <3> QED
      BY <1>1, <1>3, <2>3, <3>1, <3>2
  <2>8. /\ req'.op = "read" /\ result' = "none" /\ ~hung' /\ slave.got = Words(req')
    BY <1>1, <1>2, <1>10 DEF Reading
  <2>9. Replying(m)'
    <3>1. /\ scl' = 0 /\ ~slave'.pull /\ slave'.mode = "send" /\ slave'.ack
          /\ slave'.got = slave.got
      BY <1>8, <1>10, <2>1
    <3>2. /\ value' = << >> /\ step' = 0 /\ index' = 0 /\ ~(step' = 3)
          /\ step' \in 0 .. 3 /\ ~(step' >= 1) /\ ~(step' \in {2, 3})
      BY <1>10, <2>2
    <3>3. slave'.got = Words(req') /\ slave'.gave = rdata'
      BY <2>6, <2>8, <3>1
    <3>4. /\ scl' = IF step' = 3 THEN 1 ELSE 0
          /\ IF step' = 3 /\ m = 0 THEN slave'.mode = "idle"
                                   ELSE slave'.mode = "send" /\ slave'.ack
      BY <3>1, <3>2
    <3>5. ~slave'.pull
      BY <3>1
    <3>6. req'.op = "read" /\ result' = "none" /\ ~hung'
      BY <2>8
    <3> QED
      BY <2>4, <2>7, <3>2, <3>3, <3>4, <3>5, <3>6, Zenon DEF Replying
  <2>10. Kept'
    BY <1>1, <1>8, <1>10, KeptSame
  <2> QED
    BY <2>3, <2>9, <2>10 DEF XferInv, Phase
<1> QED
  BY <1>5, <1>6, <1>7, <1>9, <1>10 DEF i2c_read_byte

(* i2c_send_ack and i2c_send_nack.                                           *)
LEMMA ReplyXfer ==
  ASSUME BusInv, XferInv, i2c_send_reply
  PROVE  XferInv'
<1>1. /\ todo # << >> /\ todo[1].fn = "reply" /\ Keep
      /\ req' = req /\ hung' = hung /\ value' = value /\ rdata' = rdata /\ result' = result
  BY KeepFacts DEF i2c_send_reply, At
<1>2. PICK k \in 0 .. req.size - 1 :
        /\ Replying(k) /\ Tail(todo) = ReadThenStop(k)
        /\ todo[1].bit = IF k = 0 THEN 1 ELSE 0
  BY <1>1, Heads
<1>3. /\ req \in Request /\ slave \in SlaveState /\ req.size \in Nat /\ k \in Nat
      /\ ~slave.pull /\ slave.got = Words(req) /\ slave.gave = rdata /\ value = << >>
      /\ Len(rdata) + k = req.size /\ req.op = "read" /\ result = "none" /\ ~hung
  <2>1. req \in Request /\ slave \in SlaveState
    BY DEF XferInv, Kept
  <2>2. req.size \in Nat
    BY <2>1, CallFacts
  <2> QED
    BY <1>2, <2>1, <2>2 DEF Replying
<1>4. ASSUME Replying(k)', Kept' PROVE XferInv'
  BY <1>1, <1>2, <1>4 DEF XferInv, Phase
<1>5. CASE At("reply", 0) /\ i2c_sda_config_out /\ NextStep
  <2>1. scl = 0 /\ step = 0
    BY <1>2, <1>5 DEF At, Replying
  <2>2. slave' = slave /\ scl' = 0 /\ out' = TRUE
    BY <1>5, <2>1, LowPins DEF i2c_sda_config_out
  <2>3. Replying(k)'
    BY <1>1, <1>2, <1>5, <2>1, <2>2 DEF NextStep, Replying
  <2> QED
    BY <1>1, <1>4, <2>2, <2>3, KeptQuiet
<1>6. CASE At("reply", 1) /\ I2C_SDA(todo[1].bit) /\ NextStep
  <2>1. scl = 0 /\ step = 1 /\ out
    BY <1>2, <1>6 DEF At, Replying
  <2>2. slave' = slave /\ scl' = 0 /\ out' = out /\ odr' = IF k = 0 THEN 1 ELSE 0
    BY <1>2, <1>6, <2>1, LowPins DEF I2C_SDA
  <2>3. Replying(k)'
    BY <1>1, <1>2, <1>6, <2>1, <2>2 DEF NextStep, Replying
  <2> QED
    BY <1>1, <1>4, <2>2, <2>3, KeptQuiet
<1>7. CASE At("reply", 2) /\ I2C_SCL_H /\ NextStep
  <2>1. /\ scl = 0 /\ step = 2 /\ out /\ odr = (IF k = 0 THEN 1 ELSE 0)
        /\ slave.mode = "send" /\ slave.ack
    BY <1>2, <1>7 DEF At, Replying
  <2>2. slave' = Rise(slave, SDA) /\ scl' = 1 /\ out' = out /\ odr' = odr
    BY <1>7, <2>1, ClockPins DEF I2C_SCL_H, Bit
  <2>3. SDA = IF k = 0 THEN 1 ELSE 0
    BY <1>3, <2>1 DEF SDA, Level
  <2>4. /\ slave' \in SlaveState /\ slave'.got = slave.got /\ slave'.gave = slave.gave
        /\ ~slave'.pull
        /\ IF k = 0 THEN slave'.mode = "idle" ELSE slave'.mode = "send" /\ slave'.ack
    <3>1. ASSUME k = 0 PROVE slave' = Released(slave)
      BY <2>1, <2>2, <2>3, <3>1 DEF Rise
    <3>2. ASSUME k # 0 PROVE slave' = slave
      BY <2>1, <2>2, <2>3, <3>2 DEF Rise
    <3>3. /\ Released(slave) \in SlaveState /\ Released(slave).got = slave.got
          /\ Released(slave).gave = slave.gave /\ ~Released(slave).pull
          /\ Released(slave).mode = "idle"
      BY <1>3 DEF Released, SlaveState
    <3> QED
      BY <1>3, <2>1, <3>1, <3>2, <3>3
  <2>5. todo' = todo /\ step' = 3 /\ index' = index
    BY <1>7, <2>1 DEF NextStep
  <2>6. Replying(k)'
    BY <1>1, <1>2, <1>3, <2>1, <2>2, <2>4, <2>5 DEF Replying
  <2> QED
    BY <1>1, <1>4, <2>4, <2>6, KeptSame
<1>8. CASE At("reply", 3) /\ I2C_SCL_L /\ Done
  <2>1. /\ scl = 1 /\ step = 3 /\ out
        /\ IF k = 0 THEN slave.mode = "idle" ELSE slave.mode = "send" /\ slave.ack
    BY <1>2, <1>8 DEF At, Replying
  <2>2. slave' \in Fall(slave) /\ scl' = 0 /\ out' = out
    BY <1>8, <2>1, ClockPins DEF I2C_SCL_L, Bit
  <2>3. todo' = ReadThenStop(k) /\ step' = 0 /\ index' = 0
    BY <1>2, <1>8 DEF Done
  <2>4. CASE k = 0
    <3>1. slave' = slave
      BY <2>1, <2>2, <2>4 DEF Fall
    <3>2. todo' = <<Stop>>
      BY <2>3, <2>4, ReadStep
    <3>3. Len(rdata) = req.size
      <4>1. Len(rdata) \in Nat
        BY <1>3 DEF SlaveState
      <4> QED
        BY <1>3, <2>4, <4>1
    <3>4. Stopping'
      BY <1>1, <1>3, <2>1, <2>2, <2>3, <2>4, <3>1, <3>2, <3>3 DEF Stopping
    <3> QED
      BY <1>1, <3>1, <3>4, KeptQuiet DEF XferInv, Phase
  <2>5. CASE k # 0
    <3>1. PICK w \in Word : slave' = SendWord(slave, w)
      BY <2>1, <2>2, <2>5 DEF Fall
    <3>2. /\ slave' \in SlaveState /\ slave'.mode = "send" /\ ~slave'.ack
          /\ slave'.bits \in Word /\ slave'.got = slave.got
          /\ slave'.gave = Append(slave.gave, slave'.bits)
          /\ slave'.pull <=> slave'.bits[1] = 0
      BY <1>3, <3>1, WordGiven DEF Giving
    <3>3. slave'.bits \in Seq(Bit) /\ slave'.bits # << >> /\ Len(slave'.bits) = W
      BY <3>2, WordBits
    <3>4. slave'.gave = Append(rdata', value' \o slave'.bits)
      <4>1. << >> \o slave'.bits = slave'.bits
        BY <3>3, ConcatEmptySeq
      <4> QED
        BY <1>1, <1>3, <3>2, <4>1
    <3>5. /\ rdata' \in Seq(Word) /\ value' \in Seq(Bit) /\ Len(value') = 0
          /\ Len(slave'.bits) = W - 0 /\ 0 \in 0 .. W - 1
      BY <1>1, <1>3, <3>3, I2cAssumption DEF SlaveState
    <3>6. Reading(k)'
      BY <1>1, <1>3, <2>2, <2>3, <3>2, <3>3, <3>4, <3>5 DEF Reading
    <3>7. k \in 1 .. req'.size
      BY <1>1, <1>2, <1>3, <2>5
    <3> QED
      BY <1>1, <3>2, <3>6, <3>7, KeptSame DEF XferInv, Phase
  <2> QED
    BY <2>4, <2>5
<1> QED
  BY <1>5, <1>6, <1>7, <1>8 DEF i2c_send_reply

(* i2c_stop.                                                                 *)
LEMMA StopXfer ==
  ASSUME BusInv, XferInv, i2c_stop
  PROVE  XferInv'
<1>1. todo # << >> /\ todo[1].fn = "stop" /\ req' = req /\ hung' = hung
      /\ value' = value /\ rdata' = rdata
  BY KeepFacts DEF i2c_stop, At, Same
<1>2. Stopping /\ Tail(todo) = << >> /\ req \in Request /\ slave \in SlaveState
  BY <1>1, Heads DEF XferInv, Kept
<1>3. ~slave.pull /\ ~hung /\ slave.mode \in {"idle", "recv"}
  BY <1>2 DEF Stopping
<1>4. CASE At("stop", 0) /\ i2c_sda_config_out /\ NextStep /\ Keep
  <2>1. scl = 0 /\ step = 0
    BY <1>2, <1>4 DEF At, Stopping
  <2>2. slave' = slave /\ scl' = 0 /\ out' = TRUE
    BY <1>4, <2>1, LowPins DEF i2c_sda_config_out
  <2>3. Stopping'
    BY <1>2, <1>4, <2>1, <2>2, KeepFacts DEF NextStep, Stopping
  <2> QED
    BY <1>1, <2>2, <2>3, KeptQuiet DEF XferInv, Phase
<1>5. CASE At("stop", 1) /\ I2C_SDA(0) /\ NextStep /\ Keep
  <2>1. scl = 0 /\ step = 1 /\ out
    BY <1>2, <1>5 DEF At, Stopping
  <2>2. slave' = slave /\ scl' = 0 /\ out' = out /\ odr' = 0
    BY <1>5, <2>1, LowPins DEF I2C_SDA
  <2>3. Stopping'
    BY <1>2, <1>5, <2>1, <2>2, KeepFacts DEF NextStep, Stopping
  <2> QED
    BY <1>1, <2>2, <2>3, KeptQuiet DEF XferInv, Phase
<1>6. CASE At("stop", 2) /\ I2C_SCL_H /\ NextStep /\ Keep
  <2>1. scl = 0 /\ step = 2 /\ out /\ odr = 0
    BY <1>2, <1>6 DEF At, Stopping
  <2>2. SDA = 0
    BY <2>1 DEF SDA, Level
  <2>3. slave' = Rise(slave, 0) /\ scl' = 1 /\ out' = out /\ odr' = odr
    BY <1>6, <2>1, <2>2, ClockPins DEF I2C_SCL_H, Bit
  <2>4. slave' = slave \/ slave' = [slave EXCEPT !.bits = Append(@, 0)]
    BY <1>3, <2>3 DEF Rise
  <2>5. Append(slave.bits, 0) \in Seq(Bit)
    BY <1>2 DEF SlaveState, Bit
  <2>6. /\ slave' \in SlaveState /\ slave'.got = slave.got /\ slave'.gave = slave.gave
        /\ ~slave'.pull /\ slave'.mode = slave.mode
    BY <1>2, <1>3, <2>4, <2>5 DEF SlaveState
  <2>7. Stopping'
    BY <1>2, <1>3, <1>6, <2>1, <2>3, <2>6, KeepFacts DEF NextStep, Stopping
  <2> QED
    BY <1>1, <2>6, <2>7, KeptSame DEF XferInv, Phase
<1>7. CASE /\ At("stop", 3) /\ I2C_SDA(1) /\ Done
           /\ result' = IF result = "none" THEN "I2C_OK" ELSE result
           /\ Same /\ UNCHANGED <<value, rdata>>
  <2>1. scl = 1 /\ step = 3 /\ out /\ odr = 0
    BY <1>2, <1>7 DEF At, Stopping
  <2>2. SDA = 0 /\ Level(out, 1, slave) = 1
    BY <1>3, <2>1 DEF SDA, Level
  <2>3. slave' \in React(slave, 1, 0, 1, 1) /\ scl' = 1
    BY <1>7, <2>1, <2>2, PinFacts DEF I2C_SDA
  <2>4. slave' = Released(slave)
    BY <2>3 DEF React
  <2>5. /\ slave' \in SlaveState /\ slave'.got = slave.got /\ slave'.gave = slave.gave
        /\ ~slave'.pull /\ slave'.mode = "idle"
    BY <1>2, <2>4 DEF Released, SlaveState
  <2>6. todo' = << >>
    BY <1>2, <1>7 DEF Done
  <2>7. Between'
    BY <1>1, <1>2, <1>3, <1>7, <2>3, <2>5, <2>6 DEF Between, Stopping
  <2> QED
    BY <1>1, <2>5, <2>7, KeptSame DEF XferInv, Phase
<1> QED
  BY <1>4, <1>5, <1>6, <1>7 DEF i2c_stop

(* i2c_soft_init: the pin is raised before it is driven.                     *)
LEMMA SoftInitXfer ==
  ASSUME BusInv, XferInv, i2c_soft_init
  PROVE  XferInv'
<1>1. CASE /\ Idle /\ ~is_i2c_init
           /\ is_i2c_init' = TRUE /\ result' = "none"
           /\ todo' = <<[fn |-> "init"]>> /\ step' = 0 /\ index' = 0
           /\ UNCHANGED <<pinVars, slave, req, value, rdata, hung>>
  <2>1. Between
    BY <1>1, IdleIsBetween DEF Idle
  <2>2. slave' = slave /\ req' = req /\ scl' = scl /\ hung' = hung
    BY <1>1 DEF pinVars
  <2>3. Between'
    BY <1>1, <2>1, <2>2 DEF Between
  <2> QED
    BY <2>2, <2>3, KeptQuiet DEF XferInv, Phase
<1>2. ASSUME todo # << >>, todo[1].fn = "init"
      PROVE  /\ Between /\ Tail(todo) = << >> /\ scl = 1
             /\ out => odr = 1
             /\ result = "none"
  <2>1. Between /\ Tail(todo) = << >>
    BY <1>2, Heads
  <2> QED
    BY <1>2, <2>1 DEF Between, BusInv, Resting
<1>3. CASE At("init", 0) /\ I2C_SDA(1) /\ NextStep /\ Keep
  <2>1. Between /\ scl = 1 /\ (out => odr = 1)
    BY <1>2, <1>3 DEF At
  <2>2. Level(out, 1, slave) = SDA
    BY <2>1 DEF Level, SDA
  <2>3. slave' = slave /\ scl' = 1
    BY <1>3, <2>1, <2>2, StillPins DEF I2C_SDA
  <2>4. Between'
    BY <1>3, <2>1, <2>3, KeepFacts DEF Between, NextStep
  <2> QED
    BY <1>3, <2>3, <2>4, KeptQuiet, KeepFacts DEF XferInv, Phase
<1>4. CASE At("init", 1) /\ i2c_sda_config_out /\ Done /\ Keep
  <2>1. Between /\ scl = 1 /\ odr = 1 /\ Tail(todo) = << >> /\ result = "none"
    BY <1>2, <1>4 DEF At, BusInv
  <2>2. Level(TRUE, odr, slave) = SDA
    BY <2>1 DEF Level, SDA
  <2>3. slave' = slave /\ scl' = 1
    BY <1>4, <2>1, <2>2, StillPins DEF i2c_sda_config_out
  <2>4. Between'
    BY <1>4, <2>1, <2>3, KeepFacts DEF Between, Done
  <2> QED
    BY <1>4, <2>3, <2>4, KeptQuiet, KeepFacts DEF XferInv, Phase
<1> QED
  BY <1>1, <1>3, <1>4 DEF i2c_soft_init

(* A call begins with nothing delivered.                                     *)
LEMMA CallXfer ==
  ASSUME BusInv, XferInv, NEW r \in Request, Call(r)
  PROVE  XferInv'
<1>1. Between /\ slave \in SlaveState
  BY IdleIsBetween DEF Call, Idle, XferInv, Kept
<1>2. << >> \in Seq(Word) /\ Len(<< >>) = 0
  OBVIOUS
<1>3. /\ slave' \in SlaveState /\ slave'.got = << >> /\ slave'.gave = << >>
      /\ slave'.pull = slave.pull /\ slave'.mode = slave.mode
  BY <1>1, <1>2 DEF Call, SlaveState
<1>4. Words(r) \in Seq(Word) /\ Len(Words(r)) \in Nat
  BY CallFacts
<1>5. SubSeq(Words(r), 1, 0) = << >> /\ 0 \in 0 .. Len(Words(r))
  BY <1>4
<1>6. Kept'
  BY <1>3, <1>5 DEF Call, Kept
<1>7. CASE is_i2c_init
  <2>1. PICK leg \in Legs(r) :
          /\ leg.kind = "addr" /\ leg.done = << >>
          /\ (IF r.op = "write" THEN WriteTodo(r) ELSE ReadTodo(r))
               = <<[fn |-> "check"]>> \o StartThen(leg.word, leg.rest)
    BY FirstLeg
  <2>2. todo' = <<[fn |-> "check"]>> \o StartThen(leg.word, leg.rest) /\ leg \in Legs(req')
    BY <1>7, <2>1 DEF Call
  <2>3. /\ scl' = scl /\ hung' = hung /\ rdata' = << >> /\ value' = << >>
        /\ result' = "none" /\ step' = 0
    BY <1>7 DEF Call, pinVars
  <2>4. Checking'
    BY <1>1, <1>3, <2>1, <2>2, <2>3 DEF Checking, Between
  <2> QED
    BY <1>6, <2>4 DEF XferInv, Phase
<1>8. CASE ~is_i2c_init
  <2>1. r.op = "write" => Len(<< >>) < Len(Words(r))
    BY <1>2, CallFacts
  <2>2. /\ scl' = scl /\ hung' = hung /\ todo' = << >> /\ result' = "I2C_ERROR" /\ req' = r
    BY <1>8 DEF Call, pinVars
  <2>3. Between'
    BY <1>1, <1>3, <2>1, <2>2 DEF Between
  <2> QED
    BY <1>6, <2>3 DEF XferInv, Phase
<1> QED
  BY <1>7, <1>8

(* A restart lowers no clock: it delivers nothing.                           *)
LEMMA ResetXfer ==
  ASSUME BusInv, XferInv, Reset
  PROVE  XferInv'
<1>1. slave \in SlaveState /\ scl \in Bit
  BY DEF XferInv, Kept, BusInv
<1>2. PICK mid \in {<<1, SDA>>, <<scl, Level(FALSE, 0, slave)>>} :
        \E s \in React(slave, scl, SDA, mid[1], mid[2]) :
          slave' \in React(s, mid[1], mid[2], 1, Level(FALSE, 0, s))
  BY DEF Reset
<1>3. /\ mid[1] \in Bit /\ mid[2] \in Bit
      /\ scl = 1 => mid[1] = 1
  BY <1>1, <1>2 DEF Level, SDA, Bit
<1>4. PICK s \in React(slave, scl, SDA, mid[1], mid[2]) :
        slave' \in React(s, mid[1], mid[2], 1, Level(FALSE, 0, s))
  BY <1>2
<1>5. s \in SlaveState /\ s.got = slave.got
  BY <1>1, <1>3, <1>4, OtherEdge
<1>6. slave' \in SlaveState /\ slave'.got = s.got
  <2> DEFINE m == mid[1]
             d == mid[2]
             l == Level(FALSE, 0, s)
  <2>1. l \in Bit /\ 1 \in Bit
    BY DEF Level, Bit
  <2>2. slave' \in React(s, m, d, 1, l) /\ m \in Bit
    BY <1>3, <1>4
  <2> HIDE DEF m, d, l
  <2> QED
    BY <1>5, <2>1, <2>2, OtherEdge
<1>7. Kept'
  BY <1>5, <1>6, KeptSame DEF Reset
<1>8. Between'
  BY DEF Reset, Between
<1> QED
  BY <1>7, <1>8 DEF XferInv, Phase

(* Nothing has been delivered when the MCU starts.                           *)
LEMMA XferInvInit == I2cInit => XferInv
<1> SUFFICES ASSUME I2cInit PROVE XferInv
  OBVIOUS
<1>1. << >> \in Seq(Bit) /\ << >> \in Seq(Word)
  OBVIOUS
<1>2. slave \in SlaveState /\ slave.got = << >> /\ ~slave.pull
  BY <1>1 DEF I2cInit, SlaveIdle, SlaveState
<1>3. Words(req) \in Seq(Word) /\ req \in Request
  BY CallFacts DEF I2cInit
<1>4. SubSeq(Words(req), 1, 0) = << >> /\ 0 \in 0 .. Len(Words(req))
  BY <1>3
<1>5. Kept
  BY <1>2, <1>3, <1>4 DEF Kept
<1>6. Between
  BY <1>2 DEF I2cInit, Between
<1> QED
  BY <1>5, <1>6 DEF XferInv, Phase

(* No step of the bus breaks the invariant.                                  *)
LEMMA XferInvNext == ASSUME BusInv, XferInv, [I2cNext]_i2cVars PROVE XferInv'
<1>1. ASSUME NEW r \in Request, Call(r) PROVE XferInv'
  BY <1>1, CallXfer
<1>2. CASE i2c_soft_deinit
  <2>1. Between
    BY <1>2, IdleIsBetween DEF i2c_soft_deinit, Idle
  <2>2. slave' = slave /\ req' = req /\ scl' = scl /\ hung' = hung /\ todo' = todo
        /\ result' = "none"
    BY <1>2 DEF i2c_soft_deinit, pinVars
  <2>3. Between'
    BY <2>1, <2>2 DEF Between
  <2> QED
    BY <2>2, <2>3, KeptQuiet DEF XferInv, Phase
<1>3. CASE UNCHANGED i2cVars
  <2>1. /\ UNCHANGED <<todo, step, index, value, rdata, result, req, hung>>
        /\ UNCHANGED <<slave, scl, odr, out>>
    BY <1>3 DEF i2cVars, pinVars, callVars
  <2>2. Kept' = Kept
    BY <2>1 DEF Kept
  <2>3. Between' = Between /\ Checking' = Checking /\ Stopping' = Stopping
    BY <2>1 DEF Between, Checking, Stopping
  <2>4. ASSUME NEW leg
        PROVE  Starting(leg)' = Starting(leg) /\ Sending(leg)' = Sending(leg)
    BY <2>1 DEF Starting, Sending, Fresh
  <2>5. ASSUME NEW leg
        PROVE  Acking(leg)' = Acking(leg)
    BY <2>1 DEF Acking, Fresh, Taken, Refused
  <2>6. ASSUME NEW k
        PROVE  Reading(k)' = Reading(k) /\ Replying(k)' = Replying(k)
    BY <2>1 DEF Reading, Replying
  <2>7. req' = req
    BY <2>1
  <2>8. Phase' = Phase
    BY <2>3, <2>4, <2>5, <2>6, <2>7, Zenon DEF Phase
  <2> QED
    BY <2>2, <2>8 DEF XferInv
<1> QED
  BY <1>1, <1>2, <1>3, CheckXfer, StartXfer, SendXfer, AckXfer, ReadXfer, ReplyXfer,
     StopXfer, SoftInitXfer, ResetXfer DEF I2cNext

(* So it always holds.                                                       *)
LEMMA XferAlways == I2cSpec => [](BusInv /\ XferInv)
<1>1. BusInv /\ XferInv /\ [I2cNext]_i2cVars => BusInv' /\ XferInv'
  BY BusInvNext, XferInvNext
<1> QED
  BY BusInvInit, XferInvInit, <1>1, PTL DEF I2cSpec

(* A call that succeeded has delivered every word, in order and once, and    *)
(* holds the words the device sent; one that failed has delivered fewer, and *)
(* no call delivers anything else, cut by a restart or not.                  *)
THEOREM WordsAreDelivered == I2cSpec => []Delivered
<1>1. ASSUME XferInv PROVE Delivered
  <2>1. \E n \in 0 .. Len(req.mem \o req.data) : slave.got = SubSeq(req.mem \o req.data, 1, n)
    BY <1>1 DEF XferInv, Kept, Words
  <2>2. ASSUME Called PROVE Between
    BY <1>1, <2>2, IdleIsBetween DEF Called, Idle
  <2> QED
    BY <2>1, <2>2 DEF Delivered, Between, Words
<1> QED
  BY <1>1, XferAlways, PTL

(* The bus is free when a call returns, and only a restart while the device  *)
(* pulls SDA makes it unusable.                                              *)
THEOREM BusIsReleased == I2cSpec => []BusReleased
<1>1. ASSUME BusInv, XferInv PROVE BusReleased
  <2>1. ASSUME Called PROVE Between /\ todo = << >> /\ result # "none"
    BY <1>1, <2>1, IdleIsBetween DEF Called, Idle
  <2>2. ASSUME Called, ~hung PROVE scl = 1 /\ SDA = 1
    <3>1. scl = 1 /\ ~slave.pull
      BY <2>1, <2>2 DEF Between
    <3>2. out => odr = 1
      BY <1>1, <2>1, <2>2 DEF BusInv, Resting
    <3> QED
      BY <3>1, <3>2 DEF SDA, Level
  <2>3. ASSUME Called, result = "I2C_OK" PROVE slave.mode = "idle"
    BY <2>1, <2>3 DEF Between
  <2>4. ASSUME hung PROVE slave.pull /\ scl = 1 /\ result # "I2C_OK"
    <3>1. Between \/ Checking
      BY <1>1, <2>4 DEF XferInv, Phase, Stopping, Starting, Sending, Acking, Reading,
                        Replying, Fresh
    <3> QED
      BY <2>4, <3>1 DEF Between, Checking
  <2>5. ASSUME hung, Called PROVE slave.got = << >>
    BY <2>1, <2>5 DEF Between
  <2> QED
    BY <2>2, <2>3, <2>4, <2>5 DEF BusReleased
<1> QED
  BY <1>1, XferAlways, PTL
===============================================================================
