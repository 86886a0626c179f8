----------------------------- MODULE MultiButton ------------------------------
(***************************************************************************)
(* The button library, ThirdParts/MultiButton/multi_button.c, as operators *)
(* on one button handle.  The buttons of this board are active low.        *)
(*                                                                         *)
(* No handler is attached to clicks, and nothing else reads `repeat':      *)
(* both are left out.  `ticks' is kept while a state reads it (1, 2 and 3) *)
(* and is 0 in the others; the code counts on there, unread.               *)
(***************************************************************************)
EXTENDS Integers

CONSTANTS
  DebounceTicks,     \* DEBOUNCE_TICKS
  ShortTicks,        \* SHORT_TICKS
  LongTicks          \* LONG_TICKS

ASSUME TicksAssumption ==
  /\ DebounceTicks \in Nat \ {0}
  /\ ShortTicks \in Nat
  /\ LongTicks \in Nat

ActiveLevel == 0

Active(handle) == handle.level = ActiveLevel

(* button_init reads the level the button has at that time. *)
button_init(level) ==
  [state |-> 0, ticks |-> 0, debounce |-> 0, level |-> level, event |-> "NONE_PRESS"]

(* debounce_cnt has 3 bits and ticks 16. *)
CountMod == 8
TicksMod == 65536

(* Mutant: one read too many. *)
Debounced_Late(handle, level) ==
  LET count == (handle.debounce + 1) % CountMod
  IN  IF level = handle.level THEN [handle EXCEPT !.debounce = 0]
      ELSE IF count <= DebounceTicks THEN [handle EXCEPT !.debounce = count]
      ELSE [handle EXCEPT !.debounce = 0, !.level = level]

(* A level is taken over once it was read so many times running: never,    *)
(* with a DEBOUNCE_TICKS of 8.                                             *)
Debounced(handle, level) ==
  LET count == (handle.debounce + 1) % CountMod
  IN  IF level = handle.level THEN [handle EXCEPT !.debounce = 0]
      ELSE IF count < DebounceTicks THEN [handle EXCEPT !.debounce = count]
      ELSE [handle EXCEPT !.debounce = 0, !.level = level]

Ticked(handle) ==
  IF handle.state \in {1, 2, 3} THEN [handle EXCEPT !.ticks = (@ + 1) % TicksMod] ELSE handle

(* Mutant: a release in state 3 is not reported. *)
Raised_NoSecondUp(handle) ==
  CASE handle.state \in {0, 2} /\ Active(handle) -> "PRESS_DOWN"
    [] handle.state \in {1, 5} /\ ~Active(handle) -> "PRESS_UP"
    [] handle.state = 1 /\ Active(handle) /\ handle.ticks > LongTicks -> "LONG_PRESS_START"
    [] handle.state = 5 /\ Active(handle) -> "LONG_PRESS_HOLD"
    [] OTHER -> "NONE_PRESS"

(* The event whose callback the state machine runs. *)
Raised(handle) ==
  CASE handle.state \in {0, 2} /\ Active(handle) -> "PRESS_DOWN"
    [] handle.state \in {1, 3, 5} /\ ~Active(handle) -> "PRESS_UP"
    [] handle.state = 1 /\ Active(handle) /\ handle.ticks > LongTicks -> "LONG_PRESS_START"
    [] handle.state = 5 /\ Active(handle) -> "LONG_PRESS_HOLD"
    [] OTHER -> "NONE_PRESS"

(* A second press that is held leaves state 3 without a release, and is    *)
(* taken for a new press at the next tick.                                 *)
NextState(handle) ==
  CASE handle.state = 0 /\ Active(handle) -> 1
    [] handle.state = 1 /\ ~Active(handle) -> 2
    [] handle.state = 1 /\ Active(handle) /\ handle.ticks > LongTicks -> 5
    [] handle.state = 2 /\ Active(handle) -> 3
    [] handle.state = 2 /\ ~Active(handle) /\ handle.ticks > ShortTicks -> 0
    [] handle.state = 3 /\ ~Active(handle) -> IF handle.ticks < ShortTicks THEN 2 ELSE 0
    [] handle.state = 3 /\ Active(handle) /\ handle.ticks > ShortTicks -> 0
    [] handle.state = 5 /\ ~Active(handle) -> 0
    [] OTHER -> handle.state

(* The handle after the state machine; in state 0 an idle button's event   *)
(* is reset, elsewhere the last event stays.                               *)
Moved(handle) ==
  LET event == Raised(handle)
  IN  [state    |-> NextState(handle),
       ticks    |-> IF NextState(handle) = handle.state THEN handle.ticks ELSE 0,
       debounce |-> handle.debounce,
       level    |-> handle.level,
       event    |-> IF event # "NONE_PRESS" \/ handle.state = 0 THEN event ELSE handle.event]

(* button_handler, up to the callback and after it. *)
Sampled(handle, level) == Ticked(Debounced(handle, level))
button_handler(handle, level) == Moved(Sampled(handle, level))
=============================================================================
