------------------------------- MODULE Monitor --------------------------------
(***************************************************************************)
(* The monitor task, Application/Src/monitor.cpp: the buttons and their    *)
(* handlers, the debounced keys (touch pad and expander input) and the RTC *)
(* alarm that a key sets (Drivers/Src/drv_rtc.c).  Display, ADC, DAC and   *)
(* watchdog are left out.                                                  *)
(*                                                                         *)
(* The actors are the task, which passes through its loop, and the alarm   *)
(* interrupt.                                                              *)
(***************************************************************************)
EXTENDS MultiButton, Sequences

CONSTANTS
  Started,           \* the buttons in the order of button_ticks: last started, first
  Keys,              \* the keys, of "tpad" and "exio"
  AntiShakeTick,     \* ANTI_SHAKE_TICK
  Times              \* the values of rtc_info_ an alarm may be registered at

Handles == {"btn0", "btn1", "btn2"}

ASSUME StartedAssumption == Started \in Seq(Handles)
ASSUME KeysAssumption == Keys \subseteq {"tpad", "exio"}
ASSUME ShakeAssumption == AntiShakeTick \in Nat \ {0}

RtcTime == [week : 1 .. 7, hour : 0 .. 23, min : 0 .. 59, sec : 0 .. 59]

ASSUME TimesAssumption == Times \subseteq RtcTime

VARIABLES
  at,           \* where the task is in its loop
  turn,         \* the button whose turn it is in button_ticks
  buttons,      \* the handles
  keyNow,       \* key_now_
  keyLast,      \* key_last_
  tick,         \* tick of anti_shake
  alarm,        \* the alarm of the RTC: off, set, or set long enough to be due
  alarmTime,    \* rtc_arm_handler_.AlarmTime and AlarmDateWeekDay
  is_alarm,
  (* history *)
  acts,         \* a button's last press or release, if its handler acted on it
  run,          \* the last value read of a key, how often running
  base,         \* rtc_info_ when the alarm was registered
  news          \* an alarm came that is not reported yet

buttonVars == <<turn, buttons, acts>>
keyVars    == <<keyNow, keyLast, tick, run>>
rtcVars    == <<alarm, alarmTime, base>>
vars       == <<at, buttonVars, keyVars, rtcVars, is_alarm, news>>

KEY_ON  == 0       \* GPIO_PIN_RESET
KEY_OFF == 1       \* GPIO_PIN_SET
Levels  == {KEY_ON, KEY_OFF}

-------------------------------------------------------------------------------
(***************************************************************************)
(* The alarm.                                                              *)
(***************************************************************************)

(* One digit of rtc_alarm_register: the sum, in eight bits, less one       *)
(* period from `limit' on.                                                 *)
Carried(sum, limit) == (sum % 256) >= limit
Digit(sum, limit, period) == IF Carried(sum, limit) THEN (sum % 256) - period ELSE sum % 256
Carry(sum, limit) == IF Carried(sum, limit) THEN 1 ELSE 0

(* Mutant: the hours do not get the carry of the minutes. *)
rtc_alarm_register_NoCarry(info, day, hour, min, sec) ==
  LET s == info.sec + sec
      m == info.min + min + Carry(s, 60)
      h == info.hour + hour
      d == info.week + day + Carry(h, 24)
  IN  [week |-> Digit(d, 8, 7), hour |-> Digit(h, 24, 24),
       min |-> Digit(m, 60, 60), sec |-> Digit(s, 60, 60)]

rtc_alarm_register(info, day, hour, min, sec) ==
  LET s == info.sec + sec
      m == info.min + min + Carry(s, 60)
      h == info.hour + hour + Carry(m, 60)
      d == info.week + day + Carry(h, 24)
  IN  [week |-> Digit(d, 8, 7), hour |-> Digit(h, 24, 24),
       min |-> Digit(m, 60, 60), sec |-> Digit(s, 60, 60)]

(* What the touch pad's function and rtc_driver_init do. *)
InFiveSeconds(info) == rtc_alarm_register(info, 0, 0, 0, 5)

(* The interrupt, once for an alarm.  A registered alarm is at least the   *)
(* next pass of timer_loop_motion away: five seconds against a loop of 20  *)
(* ms, of which only the log output can wait.                              *)
RTC_Alarm_IRQHandler ==
  /\ alarm = "due"
  /\ alarm' = "off"
  /\ is_alarm' = TRUE
  /\ news' = TRUE
  /\ UNCHANGED <<at, buttonVars, keyVars, alarmTime, base>>

-------------------------------------------------------------------------------
(***************************************************************************)
(* The task.                                                               *)
(***************************************************************************)

Init ==
  /\ at = "alarm" /\ turn = 1
  /\ \E levels \in [Handles -> Levels] : buttons = [h \in Handles |-> button_init(levels[h])]
  /\ keyNow = [k \in Keys |-> KEY_OFF] /\ keyLast = [k \in Keys |-> KEY_OFF]
  /\ tick = [k \in Keys |-> 0]
  /\ alarm = "due" /\ base \in Times /\ alarmTime = InFiveSeconds(base)
  /\ is_alarm = FALSE /\ news = FALSE
  /\ acts = [h \in Handles |-> "NONE_PRESS"]
  /\ run = [k \in Keys |-> [read |-> KEY_OFF, times |-> 0]]

PastAlarm ==
  /\ at' = "buttons"
  /\ alarm' = IF alarm = "set" THEN "due" ELSE alarm

(* Mutant: the flag is cleared when the report is due, and the report lost.*)
ReadAlarm_ClearFirst ==
  /\ at = "alarm"
  /\ IF is_alarm THEN at' = "clear" /\ UNCHANGED alarm ELSE PastAlarm
  /\ UNCHANGED <<buttonVars, keyVars, alarmTime, base, is_alarm, news>>

(* timer_loop_motion: rtc_alarm_state_read. *)
ReadAlarm ==
  /\ at = "alarm"
  /\ IF is_alarm THEN at' = "report" /\ UNCHANGED alarm ELSE PastAlarm
  /\ UNCHANGED <<buttonVars, keyVars, alarmTime, base, is_alarm, news>>

ReportAlarm ==
  /\ at = "report"
  /\ news' = FALSE
  /\ at' = "clear"
  /\ UNCHANGED <<buttonVars, keyVars, rtcVars, is_alarm>>

(* rtc_alarm_state_write. *)
ClearAlarm ==
  /\ at = "clear"
  /\ is_alarm' = FALSE
  /\ PastAlarm
  /\ UNCHANGED <<buttonVars, keyVars, alarmTime, base, news>>

Rivals(h) == CASE h = "btn0" -> {"btn1"} [] h = "btn1" -> {"btn0"} [] OTHER -> {}

(* Mutant: the handlers do not look at the other button. *)
Ignored_Never(h) == FALSE

(* BTN0_PRESS_Handler and BTN1_PRESS_Handler return at once while the      *)
(* other button is down.                                                   *)
Ignored(h) == \E r \in Rivals(h) : Active(buttons[r])

(* button_ticks, one handle of its list. *)
ButtonTick ==
  /\ at = "buttons"
  /\ turn <= Len(Started)
  /\ LET h == Started[turn]
     IN \E level \in Levels :
          LET event == Raised(Sampled(buttons[h], level))
          IN /\ buttons' = [buttons EXCEPT ![h] = button_handler(@, level)]
             /\ acts' = IF event \in {"PRESS_DOWN", "PRESS_UP"}
                          THEN [acts EXCEPT ![h] = IF Ignored(h) THEN "NONE_PRESS" ELSE event]
                          ELSE acts
  /\ turn' = turn + 1
  /\ UNCHANGED <<at, keyVars, rtcVars, is_alarm, news>>

(* Mutant: the count is not started over by a read of the old value. *)
anti_shake_NoRestart(t, now, read) ==
  IF read = now THEN [now |-> now, tick |-> IF t < AntiShakeTick THEN t + 1 ELSE t]
  ELSE IF t + 1 > AntiShakeTick THEN [now |-> read, tick |-> 0]
  ELSE [now |-> now, tick |-> t + 1]

(* anti_shake: the count starts over at KEY_ON or KEY_OFF, that is at 0 or *)
(* 1, while the key reads as it is.                                        *)
anti_shake(t, now, read) ==
  IF read = now THEN [now |-> now, tick |-> now]
  ELSE IF t + 1 > AntiShakeTick THEN [now |-> read, tick |-> 0]
  ELSE [now |-> now, tick |-> t + 1]

Reading(r, read) ==
  [read  |-> read,
   times |-> IF read # r.read THEN 1 ELSE IF r.times < AntiShakeTick THEN r.times + 1 ELSE r.times]

(* key_motion after button_ticks, and the rest of the loop: the key that   *)
(* comes on runs its function, which for the touch pad sets the alarm.     *)
ScanKeys ==
  /\ at = "buttons"
  /\ turn > Len(Started)
  /\ \E read \in [Keys -> Levels] :
       LET shaken == [k \in Keys |-> anti_shake(tick[k], keyNow[k], read[k])]
       IN /\ tick' = [k \in Keys |-> shaken[k].tick]
          /\ keyNow' = [k \in Keys |-> shaken[k].now]
          /\ keyLast' = keyNow'
          /\ run' = [k \in Keys |-> Reading(run[k], read[k])]
          /\ IF \E k \in Keys \cap {"tpad"} : shaken[k].now = KEY_ON /\ keyLast[k] # KEY_ON
               THEN /\ alarm' = "set"
                    /\ base' \in Times
                    /\ alarmTime' = InFiveSeconds(base')
               ELSE UNCHANGED rtcVars
  /\ at' = "alarm" /\ turn' = 1
  /\ UNCHANGED <<buttons, acts, is_alarm, news>>

Next ==
  \/ RTC_Alarm_IRQHandler
  \/ ReadAlarm \/ ReportAlarm \/ ClearAlarm
  \/ ButtonTick \/ ScanKeys

Spec == Init /\ [][Next]_vars

-------------------------------------------------------------------------------
(***************************************************************************)
(* Properties.                                                             *)
(***************************************************************************)

ButtonEvents == {"NONE_PRESS", "PRESS_DOWN", "PRESS_UP", "LONG_PRESS_START", "LONG_PRESS_HOLD"}

(* What 3 and 16 bits hold, below the limit that ends the count. *)
DebounceCounts == {n \in 0 .. CountMod - 1 : n < DebounceTicks}
TickCounts     == {n \in 0 .. TicksMod - 1 : n <= ShortTicks \/ n <= LongTicks}

Button ==
  [state : {0, 1, 2, 3, 5}, ticks : TickCounts, debounce : DebounceCounts, level : Levels,
   event : ButtonEvents]

(* The counts of a button stay within the bits of struct Button and below  *)
(* the limits they are compared with, the counters of anti_shake below     *)
(* theirs, the alarm a time of the week.                                   *)
TypeOK ==
  /\ at \in {"alarm", "report", "clear", "buttons"}
  /\ turn \in 1 .. Len(Started) + 1
  /\ buttons \in [Handles -> Button]
  /\ keyNow \in [Keys -> Levels] /\ keyLast \in [Keys -> Levels]
  /\ tick \in [Keys -> 0 .. AntiShakeTick]
  /\ alarm \in {"off", "set", "due"}
  /\ base \in Times /\ alarmTime \in RtcTime
  /\ {is_alarm, news} \subseteq BOOLEAN
  /\ acts \in [Handles -> ButtonEvents]
  /\ run \in [Keys -> [read : Levels, times : 0 .. AntiShakeTick]]

(* monitor.cpp: of btn0 and btn1 pressed together only one takes effect:   *)
(* a press that was acted on and is still held keeps the other from being  *)
(* acted on, whichever the order of presses and releases.                  *)
ExclusivePress ==
  ~ \A h \in {"btn0", "btn1"} : Active(buttons[h]) /\ acts[h] = "PRESS_DOWN"

(* Every debounced press is reported when it happens, and every release    *)
(* but that of a second press that was given up in state 3 one tick        *)
(* earlier.                                                                *)
EdgesReported ==
  [][\A h \in Handles :
       /\ ~Active(buttons[h]) /\ Active(buttons'[h]) => buttons'[h].event = "PRESS_DOWN"
       /\ Active(buttons[h]) /\ ~Active(buttons'[h]) /\ buttons[h].state # 0
            => buttons'[h].event = "PRESS_UP"]_vars

(* A key changes only after so many equal reads of its new value.          *)
KeysDebounced ==
  [][\A k \in Keys : keyNow'[k] # keyNow[k]
       => run'[k].read = keyNow'[k] /\ run'[k].times = AntiShakeTick]_vars

(* The alarm is read, reported and cleared in three steps beside its       *)
(* interrupt, and no alarm is cleared before it was reported.              *)
AlarmKept == news => is_alarm

Second(time) == ((time.week * 24 + time.hour) * 60 + time.min) * 60 + time.sec

(* The alarm is five seconds after the time it was registered at, through  *)
(* every carry and from the end of the week to its begin.                  *)
AlarmOnTime ==
  Second(alarmTime) - Second(base) \in {5, 5 - 7 * 24 * 60 * 60}
=============================================================================
