------------------------------ MODULE TimeManage ------------------------------
(***************************************************************************)
(* The software timers of Application/Src/timer_manage.cpp: a fixed list   *)
(* of triggers that a periodic FreeRTOS timer counts down.  One operator   *)
(* per operation on the list; the mutex around them, and who runs them, is *)
(* left to the module that uses the list.                                  *)
(***************************************************************************)
EXTENDS Integers, FiniteSets

CONSTANTS MaxTriggers      \* SYSTEM_TIME_MAX_TRIGGERS

ASSUME MaxTriggersAssumption == MaxTriggers \in Nat \ {0}

Slots == 1 .. MaxTriggers

Forever == 65535           \* TIMER_TRIGGER_FOREVER

(* TimeTrigger::initalize of a slot that is taken for event `id': it acts  *)
(* every `compare' periods, `times' times.                                 *)
initalize(id, compare, times) ==
  [used |-> TRUE, id |-> id, compare |-> compare, count |-> 0, left |-> times]

(* The list after SysTimeManage::init; a slot nobody used names no event.  *)
NoTriggers(none) ==
  [i \in Slots |-> [used |-> FALSE, id |-> none, compare |-> 0, count |-> 0, left |-> 0]]

(* Mutant: the comparison is off by one period. *)
Matches_Early(trigger) == trigger.left > 0 /\ trigger.count + 2 >= trigger.compare

(* TimeTrigger::action counts, and on a match starts over and acts. *)
Matches(trigger) == trigger.left > 0 /\ trigger.count + 1 >= trigger.compare

Counted(trigger) ==
  IF trigger.left = 0 THEN trigger
  ELSE IF ~Matches(trigger) THEN [trigger EXCEPT !.count = @ + 1]
  ELSE [trigger EXCEPT !.count = 0,
                       !.left  = IF @ = Forever THEN @ ELSE @ - 1]

(* removeEventTrigger. *)
RemoveTrigger(list, id) ==
  [i \in Slots |-> IF list[i].used /\ list[i].id = id
                     THEN [list[i] EXCEPT !.used = FALSE] ELSE list[i]]

(* The slot registerEventTrigger takes.  Its clean-up before that (and the *)
(* one of processTrigger) tests `used_ != 1' where an expired trigger has  *)
(* used_ == 1, so an expired trigger keeps its slot until it is removed.   *)
FreeSlots(list) == {i \in Slots : ~list[i].used}

RegisterTrigger(list, id, compare, times) ==
  IF FreeSlots(list) = {} THEN list
  ELSE LET slot == CHOOSE i \in FreeSlots(list) : \A j \in FreeSlots(list) : i <= j
       IN [list EXCEPT ![slot] = initalize(id, compare, times)]
=============================================================================
