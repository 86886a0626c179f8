---------------------------- MODULE Monitor_proofs ----------------------------
(***************************************************************************)
(* The monitor task for any tick limits, any list of started buttons and   *)
(* any time the alarm is registered at.  The invariant ties the state of a *)
(* button to its debounced level, the counters of anti_shake to the reads  *)
(* they stand for, and the alarm flag to the report that is due.           *)
(***************************************************************************)
EXTENDS Monitor, TLAPS

-------------------------------------------------------------------------------
(***************************************************************************)
(* One button.                                                             *)
(***************************************************************************)

(* Outside the states of a released button the button is down; the ticks   *)
(* of a state stay below its limit.                                        *)
HandleInv(b) ==
  /\ b \in Button
  /\ b.state \in {1, 3, 5} => Active(b)
  /\ b.state = 2 => ~Active(b)
  /\ b.state = 1 => b.ticks <= LongTicks
  /\ b.state \in {2, 3} => b.ticks <= ShortTicks

LEMMA Wraps ==
  ASSUME NEW n \in 0 .. TicksMod - 1
  PROVE  n \in Nat /\ (n + 1) % TicksMod \in 0 .. TicksMod - 1
<1>1. TicksMod \in Nat \ {0}
  BY DEF TicksMod
<1> QED  BY <1>1

(* What the sample of a tick leaves for the state machine.                 *)
LEMMA SampledFields ==
  ASSUME NEW b \in Button, NEW level \in Levels
  PROVE  LET s == Sampled(b, level)
         IN  /\ s = [state |-> b.state, ticks |-> s.ticks, debounce |-> s.debounce,
                     level |-> s.level, event |-> b.event]
             /\ s.ticks = IF b.state \in {1, 2, 3} THEN (b.ticks + 1) % TicksMod ELSE b.ticks
             /\ s.debounce \in DebounceCounts
             /\ s.level \in Levels
<1> DEFINE d == Debounced(b, level)
           count == (b.debounce + 1) % CountMod
<1>0. b.debounce \in DebounceCounts /\ b.level \in Levels /\ 0 \in DebounceCounts
  BY TicksAssumption DEF Button, DebounceCounts, CountMod
<1>a. b = [state |-> b.state, ticks |-> b.ticks, debounce |-> b.debounce,
           level |-> b.level, event |-> b.event]
  BY DEF Button
<1>1. /\ d = [state |-> b.state, ticks |-> b.ticks, debounce |-> d.debounce,
              level |-> d.level, event |-> b.event]
      /\ d.debounce \in DebounceCounts
      /\ d.level \in Levels
  <2>1. CASE level = b.level
    <3>1. d = [b EXCEPT !.debounce = 0]
      BY <2>1 DEF Debounced
    <3> QED  BY <1>0, <1>a, <3>1
  <2>2. CASE level # b.level /\ count < DebounceTicks
    <3>1. d = [b EXCEPT !.debounce = count]
      BY <2>2 DEF Debounced
    <3>2. count \in DebounceCounts
      BY <1>0, <2>2 DEF DebounceCounts, CountMod
    <3> HIDE DEF count
    <3> QED  BY <1>0, <1>a, <3>1, <3>2
  <2>3. CASE level # b.level /\ ~(count < DebounceTicks)
    <3>1. d = [b EXCEPT !.debounce = 0, !.level = level]
      BY <2>3 DEF Debounced
    <3> QED  BY <1>0, <1>a, <3>1
  <2> QED  BY <2>1, <2>2, <2>3
<1> HIDE DEF d
<1>2. Sampled(b, level) = IF b.state \in {1, 2, 3} THEN [d EXCEPT !.ticks = (@ + 1) % TicksMod] ELSE d
  BY <1>1 DEF Sampled, Ticked, d
<1> QED  BY <1>1, <1>2

(* A tick keeps the invariant of a button and reports every edge of its    *)
(* debounced level, but a release in state 0.                              *)
LEMMA HandlerStep ==
  ASSUME NEW b, HandleInv(b), NEW level \in Levels
  PROVE  LET n == button_handler(b, level)
             e == Raised(Sampled(b, level))
         IN  /\ HandleInv(n)
             /\ e \in ButtonEvents
             /\ ~Active(b) /\ Active(n) => e = "PRESS_DOWN"
             /\ Active(b) /\ ~Active(n) /\ b.state # 0 => e = "PRESS_UP"
             /\ e # "NONE_PRESS" => n.event = e
<1> DEFINE s == Sampled(b, level)
           e == Raised(s)
           n == Moved(s)
<1>1. b \in Button
  BY DEF HandleInv
<1>2. /\ s = [state |-> b.state, ticks |-> s.ticks, debounce |-> s.debounce,
              level |-> s.level, event |-> b.event]
      /\ s.ticks = IF b.state \in {1, 2, 3} THEN (b.ticks + 1) % TicksMod ELSE b.ticks
      /\ s.debounce \in DebounceCounts
      /\ s.level \in Levels
  BY <1>1, SampledFields
<1> HIDE DEF s
<1>3. e \in ButtonEvents
  BY DEF Raised, ButtonEvents
<1>3a. n = [state |-> NextState(s),
            ticks |-> IF NextState(s) = b.state THEN s.ticks ELSE 0,
            debounce |-> s.debounce, level |-> s.level,
            event |-> IF e # "NONE_PRESS" \/ b.state = 0 THEN e ELSE b.event]
  BY <1>2 DEF Moved
<1>4. /\ n.state = NextState(s)
      /\ n.ticks = IF NextState(s) = b.state THEN s.ticks ELSE 0
      /\ n.debounce = s.debounce /\ n.level = s.level
      /\ n.event \in {e, b.event} /\ (e # "NONE_PRESS" => n.event = e)
      /\ n = [state |-> n.state, ticks |-> n.ticks, debounce |-> n.debounce,
              level |-> n.level, event |-> n.event]
  <2> HIDE DEF n, e
  <2> QED  BY <1>3a
<1>5. b.state \in {0, 1, 2, 3, 5} /\ b.ticks \in TickCounts
      /\ b.event \in ButtonEvents
  BY <1>1 DEF Button
<1>6. s.ticks \in 0 .. TicksMod - 1 /\ s.state = b.state
  <2>1. b.ticks \in 0 .. TicksMod - 1
    BY <1>5 DEF TickCounts
  <2>3. (b.ticks + 1) % TicksMod \in 0 .. TicksMod - 1
    BY <2>1, Wraps
  <2>4. s.state = b.state
    BY <1>2
  <2> QED  BY <1>2, <2>1, <2>3, <2>4
<1>6a. s.ticks \in Nat
  BY <1>6, Wraps
<1>7. /\ n.state \in {0, 1, 2, 3, 5}
      /\ n.state \in {1, 3, 5} => Active(s)
      /\ n.state = 2 => ~Active(s)
      /\ n.state = 1 => n.ticks <= LongTicks
      /\ n.state \in {2, 3} => n.ticks <= ShortTicks
  <2> HIDE DEF n
  <2>0. /\ b.state \in {1, 3, 5} => Active(b)
        /\ b.state = 2 => ~Active(b)
    BY DEF HandleInv
  <2>6. s.state = b.state
    BY <1>6
  <2>1. CASE b.state = 0
    BY <1>4, <1>6a, <2>6, <2>1, TicksAssumption DEF NextState
  <2>2. CASE b.state = 1
    BY <1>4, <1>6a, <2>6, <2>2, TicksAssumption DEF NextState
  <2>3. CASE b.state = 2
    BY <1>4, <1>6a, <2>6, <2>3, TicksAssumption DEF NextState
  <2>4. CASE b.state = 3
    BY <1>4, <1>6a, <2>6, <2>4, TicksAssumption DEF NextState
  <2>5. CASE b.state = 5
    BY <1>4, <1>6a, <2>6, <2>5, TicksAssumption DEF NextState
  <2> QED  BY <1>5, <2>1, <2>2, <2>3, <2>4, <2>5
<1>8. n.ticks \in TickCounts
  <2>1. CASE NextState(s) = b.state /\ b.state \in {1, 2, 3}
    BY <1>4, <1>6, <1>7, <2>1 DEF TickCounts
  <2>2. CASE NextState(s) = b.state /\ b.state \notin {1, 2, 3}
    BY <1>2, <1>4, <1>5, <2>2
  <2>3. CASE NextState(s) # b.state
    BY <1>4, <2>3, TicksAssumption DEF TickCounts, TicksMod
  <2> QED  BY <2>1, <2>2, <2>3
<1>9. n \in Button
  <2> HIDE DEF n, e
  <2> QED  BY <1>2, <1>3, <1>4, <1>5, <1>7, <1>8 DEF Button
<1>10. Active(n) <=> Active(s)
  BY <1>4 DEF Active
<1>11. HandleInv(n)
  BY <1>7, <1>9, <1>10 DEF HandleInv
<1>12. /\ ~Active(b) /\ Active(s) => e = "PRESS_DOWN"
       /\ Active(b) /\ ~Active(s) /\ b.state # 0 => e = "PRESS_UP"
  BY <1>5, <1>6 DEF Raised, HandleInv
<1> QED  BY <1>3, <1>4, <1>10, <1>11, <1>12 DEF button_handler, s

-------------------------------------------------------------------------------
(***************************************************************************)
(* The alarm and the keys.                                                 *)
(***************************************************************************)

(* A digit of the sum of two times, when it cannot leave eight bits.       *)
LEMMA DigitValue ==
  ASSUME NEW sum \in 0 .. 255, NEW limit \in Nat, NEW period \in Nat
  PROVE  /\ Digit(sum, limit, period) = IF sum >= limit THEN sum - period ELSE sum
         /\ Carry(sum, limit) = IF sum >= limit THEN 1 ELSE 0
<1>1. sum % 256 = sum
  OBVIOUS
<1> QED  BY <1>1 DEF Digit, Carry, Carried

(* A duration of less than a week, in digits and in seconds.               *)
Offset(day, hour, min, sec, d) ==
  /\ day \in 0 .. 6 /\ hour \in 0 .. 23 /\ min \in 0 .. 59 /\ sec \in 0 .. 59
  /\ d = ((day * 24 + hour) * 60 + min) * 60 + sec

(* rtc_alarm_register adds a duration of less than a week to a time, up to *)
(* the end of the week.                                                    *)
LEMMA AlarmSum ==
  ASSUME NEW info \in RtcTime,
         NEW day, NEW hour, NEW min, NEW sec, NEW d, Offset(day, hour, min, sec, d)
  PROVE  /\ rtc_alarm_register(info, day, hour, min, sec) \in RtcTime
         /\ Second(rtc_alarm_register(info, day, hour, min, sec)) - Second(info)
              \in {d, d - 7 * 24 * 60 * 60}
<1> DEFINE s == info.sec + sec
           m == info.min + min + Carry(s, 60)
           h == info.hour + hour + Carry(m, 60)
           w == info.week + day + Carry(h, 24)
<1>1. /\ info.sec \in 0 .. 59 /\ info.min \in 0 .. 59
      /\ info.hour \in 0 .. 23 /\ info.week \in 1 .. 7
      /\ day \in 0 .. 6 /\ hour \in 0 .. 23 /\ min \in 0 .. 59 /\ sec \in 0 .. 59
  BY DEF RtcTime, Offset
<1>2. s \in 0 .. 118
  BY <1>1
<1>3. /\ Digit(s, 60, 60) = IF s >= 60 THEN s - 60 ELSE s
      /\ Carry(s, 60) = IF s >= 60 THEN 1 ELSE 0
  <2> HIDE DEF s
  <2>1. s \in 0 .. 255 /\ 60 \in Nat /\ 24 \in Nat /\ 8 \in Nat /\ 7 \in Nat
    BY <1>2
  <2> QED  BY <2>1, DigitValue
<1>4. Carry(s, 60) \in {0, 1} /\ m \in 0 .. 119
  <2>1. Carry(s, 60) \in {0, 1}
    BY <1>3
  <2> QED  BY <1>1, <2>1
<1>5. /\ Digit(m, 60, 60) = IF m >= 60 THEN m - 60 ELSE m
      /\ Carry(m, 60) = IF m >= 60 THEN 1 ELSE 0
  <2> HIDE DEF m
  <2>1. m \in 0 .. 255 /\ 60 \in Nat /\ 24 \in Nat /\ 8 \in Nat /\ 7 \in Nat
    BY <1>4
  <2> QED  BY <2>1, DigitValue
<1>6. Carry(m, 60) \in {0, 1} /\ h \in 0 .. 47
  <2>1. Carry(m, 60) \in {0, 1}
    BY <1>5
  <2> HIDE DEF m
  <2> QED  BY <1>1, <2>1
<1>7. /\ Digit(h, 24, 24) = IF h >= 24 THEN h - 24 ELSE h
      /\ Carry(h, 24) = IF h >= 24 THEN 1 ELSE 0
  <2> HIDE DEF h
  <2>1. h \in 0 .. 255 /\ 60 \in Nat /\ 24 \in Nat /\ 8 \in Nat /\ 7 \in Nat
    BY <1>6
  <2> QED  BY <2>1, DigitValue
<1>8. Carry(h, 24) \in {0, 1} /\ w \in 1 .. 14
  <2>1. Carry(h, 24) \in {0, 1}
    BY <1>7
  <2> HIDE DEF h
  <2> QED  BY <1>1, <2>1
<1>9. Digit(w, 8, 7) = IF w >= 8 THEN w - 7 ELSE w
  <2> HIDE DEF w
  <2>1. w \in 0 .. 255 /\ 60 \in Nat /\ 24 \in Nat /\ 8 \in Nat /\ 7 \in Nat
    BY <1>8
  <2> QED  BY <2>1, DigitValue
<1> DEFINE a == rtc_alarm_register(info, day, hour, min, sec)
<1>10. a = [week |-> Digit(w, 8, 7), hour |-> Digit(h, 24, 24),
            min |-> Digit(m, 60, 60), sec |-> Digit(s, 60, 60)]
  BY DEF rtc_alarm_register
<1>11. /\ s = info.sec + sec
       /\ m = info.min + min + Carry(s, 60)
       /\ h = info.hour + hour + Carry(m, 60)
       /\ w = info.week + day + Carry(h, 24)
  OBVIOUS
<1>12. /\ a.week = Digit(w, 8, 7) /\ a.hour = Digit(h, 24, 24)
       /\ a.min = Digit(m, 60, 60) /\ a.sec = Digit(s, 60, 60)
  <2> HIDE DEF a, s, m, h, w
  <2> QED  BY <1>10
<1> HIDE DEF a, s, m, h, w
<1>13. a.week \in 1 .. 7 /\ a.hour \in 0 .. 23 /\ a.min \in 0 .. 59 /\ a.sec \in 0 .. 59
  BY <1>2, <1>3, <1>4, <1>5, <1>6, <1>7, <1>8, <1>9, <1>12
<1>14. a \in RtcTime
  BY <1>10, <1>12, <1>13 DEF RtcTime
<1>15. /\ a.sec = info.sec + sec - 60 * Carry(s, 60)
       /\ a.min = info.min + min + Carry(s, 60) - 60 * Carry(m, 60)
       /\ a.hour = info.hour + hour + Carry(m, 60) - 24 * Carry(h, 24)
       /\ \/ a.week = info.week + day + Carry(h, 24)
          \/ a.week = info.week + day + Carry(h, 24) - 7
  <2>1. a.sec = info.sec + sec - 60 * Carry(s, 60)
    BY <1>1, <1>2, <1>3, <1>11, <1>12
  <2>2. a.min = info.min + min + Carry(s, 60) - 60 * Carry(m, 60)
    BY <1>1, <1>4, <1>5, <1>11, <1>12
  <2>3. a.hour = info.hour + hour + Carry(m, 60) - 24 * Carry(h, 24)
    BY <1>1, <1>6, <1>7, <1>11, <1>12
  <2>4. \/ a.week = info.week + day + Carry(h, 24)
        \/ a.week = info.week + day + Carry(h, 24) - 7
    BY <1>1, <1>8, <1>9, <1>11, <1>12
  <2> QED  BY <2>1, <2>2, <2>3, <2>4
<1>16. Second(a) - Second(info)
         \in {d, d - 7 * 24 * 60 * 60}
  <2> DEFINE cs == Carry(s, 60)
             cm == Carry(m, 60)
             ch == Carry(h, 24)
  <2>1. cs \in {0, 1} /\ cm \in {0, 1} /\ ch \in {0, 1}
    BY <1>4, <1>6, <1>8
  <2>2. /\ a.sec = info.sec + sec - 60 * cs
        /\ a.min = info.min + min + cs - 60 * cm
        /\ a.hour = info.hour + hour + cm - 24 * ch
        /\ \/ a.week = info.week + day + ch
           \/ a.week = info.week + day + ch - 7
    BY <1>15
  <2> HIDE DEF cs, cm, ch
  <2>3. /\ a.week \in Nat /\ a.hour \in Nat /\ a.min \in Nat /\ a.sec \in Nat
        /\ info.week \in Nat /\ info.hour \in Nat /\ info.min \in Nat /\ info.sec \in Nat
        /\ day \in Nat /\ hour \in Nat /\ min \in Nat /\ sec \in Nat
    BY <1>1, <1>13
  <2>4. (((a.week * 24 + a.hour) * 60 + a.min) * 60 + a.sec)
          - (((info.week * 24 + info.hour) * 60 + info.min) * 60 + info.sec)
          \in {d, d - 7 * 24 * 60 * 60}
    <3> DEFINE aw == a.week ah == a.hour am == a.min as == a.sec
               iw == info.week ih == info.hour im == info.min is == info.sec
    <3>1. /\ aw \in Nat /\ ah \in Nat /\ am \in Nat /\ as \in Nat
          /\ iw \in Nat /\ ih \in Nat /\ im \in Nat /\ is \in Nat
      BY <2>3
    <3>2. /\ as = is + sec - 60 * cs
          /\ am = im + min + cs - 60 * cm
          /\ ah = ih + hour + cm - 24 * ch
          /\ aw = iw + day + ch \/ aw = iw + day + ch - 7
      BY <2>2
    <3> HIDE DEF aw, ah, am, as, iw, ih, im, is
    <3>3. (((aw * 24 + ah) * 60 + am) * 60 + as) - (((iw * 24 + ih) * 60 + im) * 60 + is)
            \in {d, d - 7 * 24 * 60 * 60}
      <4>1. /\ day \in Nat /\ hour \in Nat /\ min \in Nat /\ sec \in Nat
            /\ d = ((day * 24 + hour) * 60 + min) * 60 + sec
        BY <2>3 DEF Offset
      <4>2. CASE aw = iw + day + ch
        BY <2>1, <3>1, <3>2, <4>1, <4>2
      <4>3. CASE aw = iw + day + ch - 7
        BY <2>1, <3>1, <3>2, <4>1, <4>3
      <4> QED  BY <3>2, <4>2, <4>3
    <3> QED  BY <3>3, Zenon DEF aw, ah, am, as, iw, ih, im, is
  <2> QED  BY <2>4, Zenon DEF Second
<1> QED  BY <1>14, <1>16, Zenon DEF a

(* The alarm of the touch pad.                                             *)
LEMMA FiveSeconds ==
  ASSUME NEW info \in RtcTime
  PROVE  /\ InFiveSeconds(info) \in RtcTime
         /\ Second(InFiveSeconds(info)) - Second(info) \in {5, 5 - 7 * 24 * 60 * 60}
<1>1. Offset(0, 0, 0, 5, 5)
  BY DEF Offset
<1>2. /\ rtc_alarm_register(info, 0, 0, 0, 5) \in RtcTime
      /\ Second(rtc_alarm_register(info, 0, 0, 0, 5)) - Second(info) \in {5, 5 - 7 * 24 * 60 * 60}
  BY <1>1, AlarmSum
<1> QED  BY <1>2, Zenon DEF InFiveSeconds

(* The count of anti_shake is behind the equal reads of the other value.   *)
KeyInv(t, now, r) ==
  /\ t \in 0 .. AntiShakeTick /\ now \in Levels
  /\ r \in [read : Levels, times : 0 .. AntiShakeTick]
  /\ t <= now + (IF r.read = now THEN 0 ELSE r.times)

(* A read keeps that, and changes the key only after so many equal ones.   *)
LEMMA ShakeStep ==
  ASSUME NEW t, NEW now, NEW r, KeyInv(t, now, r), NEW read \in Levels
  PROVE  LET n == anti_shake(t, now, read)
         IN  /\ KeyInv(n.tick, n.now, Reading(r, read))
             /\ n.now # now => /\ Reading(r, read).read = n.now
                               /\ Reading(r, read).times = AntiShakeTick
<1> DEFINE n == anti_shake(t, now, read)
           q == Reading(r, read)
<1>1. /\ q.read = read
      /\ q.times = IF read # r.read THEN 1
                   ELSE IF r.times < AntiShakeTick THEN r.times + 1 ELSE r.times
      /\ q = [read |-> q.read, times |-> q.times]
  BY DEF Reading
<1>2. /\ n.now = IF read # now /\ t + 1 > AntiShakeTick THEN read ELSE now
      /\ n.tick = IF read = now THEN now ELSE IF t + 1 > AntiShakeTick THEN 0 ELSE t + 1
  BY DEF anti_shake
<1>3. /\ t \in 0 .. AntiShakeTick /\ now \in {0, 1} /\ read \in {0, 1} /\ r.read \in {0, 1}
      /\ r.times \in 0 .. AntiShakeTick
      /\ t <= now + (IF r.read = now THEN 0 ELSE r.times)
  BY DEF KeyInv, Levels, KEY_ON, KEY_OFF
<1> HIDE DEF n, q
<1>4. q.times \in 0 .. AntiShakeTick
  BY <1>1, <1>3, ShakeAssumption
<1>5. /\ n.tick \in 0 .. AntiShakeTick
      /\ n.now \in {0, 1}
      /\ n.tick <= n.now + (IF q.read = n.now THEN 0 ELSE q.times)
      /\ n.now # now => q.read = n.now /\ q.times = AntiShakeTick
  BY <1>1, <1>2, <1>3, ShakeAssumption
<1>6. q \in [read : Levels, times : 0 .. AntiShakeTick]
  BY <1>1, <1>4
<1> QED  BY <1>5, <1>6 DEF KeyInv, Levels, KEY_ON, KEY_OFF, n, q

-------------------------------------------------------------------------------
(***************************************************************************)
(* The task.                                                               *)
(***************************************************************************)

(* The task and the RTC: a flag that is set leaves no alarm due before it  *)
(* is cleared, and is set from its test to there.                          *)
AlarmInv ==
  /\ at \in {"alarm", "report", "clear", "buttons"}
  /\ alarm \in {"off", "set", "due"}
  /\ base \in Times /\ alarmTime = InFiveSeconds(base)
  /\ {is_alarm, news} \subseteq BOOLEAN
  /\ is_alarm => alarm # "due"
  /\ at \in {"report", "clear"} => is_alarm
  /\ at = "clear" => ~news
  /\ news => is_alarm

ButtonsInv ==
  /\ turn \in 1 .. Len(Started) + 1
  /\ buttons \in [Handles -> Button] /\ \A h \in Handles : HandleInv(buttons[h])
  /\ acts \in [Handles -> ButtonEvents]
  /\ ExclusivePress

KeysInv ==
  /\ keyNow \in [Keys -> Levels] /\ keyLast \in [Keys -> Levels]
  /\ tick \in [Keys -> 0 .. AntiShakeTick]
  /\ run \in [Keys -> [read : Levels, times : 0 .. AntiShakeTick]]
  /\ \A k \in Keys : KeyInv(tick[k], keyNow[k], run[k])

IInv == AlarmInv /\ ButtonsInv /\ KeysInv

(* The invariant says what the properties say.                             *)
LEMMA Implied == IInv => TypeOK /\ ExclusivePress /\ AlarmKept /\ AlarmOnTime
BY FiveSeconds, TimesAssumption
   DEF IInv, AlarmInv, ButtonsInv, KeysInv, TypeOK, AlarmKept, AlarmOnTime

(* A button that is initialized is in state 0.                             *)
LEMMA Starts == Init => IInv
<1> SUFFICES ASSUME Init PROVE IInv
  OBVIOUS
<1>1. AlarmInv
  BY DEF Init, AlarmInv
<1>2. ButtonsInv
  <2>1. PICK levels \in [Handles -> Levels] : buttons = [h \in Handles |-> button_init(levels[h])]
    BY DEF Init
  <2>2. ASSUME NEW l \in Levels PROVE HandleInv(button_init(l))
    BY TicksAssumption
       DEF HandleInv, button_init, Button, ButtonEvents, DebounceCounts, TickCounts, CountMod, TicksMod
  <2>3. \A h \in Handles : HandleInv(buttons[h])
    BY <2>1, <2>2
  <2>4. buttons \in [Handles -> Button]
    BY <2>1, <2>3 DEF HandleInv
  <2>5. turn \in 1 .. Len(Started) + 1
    BY StartedAssumption DEF Init
  <2>6. acts \in [Handles -> ButtonEvents] /\ ExclusivePress
    BY DEF Init, ExclusivePress, Handles, ButtonEvents
  <2> QED  BY <2>3, <2>4, <2>5, <2>6 DEF ButtonsInv
<1>3. KeysInv
  <2>1. KEY_OFF \in Levels /\ 0 \in 0 .. AntiShakeTick
    BY ShakeAssumption DEF Levels
  <2> QED  BY <2>1, ShakeAssumption DEF Init, KeysInv, KeyInv, KEY_OFF
<1> QED  BY <1>1, <1>2, <1>3 DEF IInv

(* The tick of one button: the invariant, and its reported edges.          *)
LEMMA ButtonStep ==
  ASSUME ButtonsInv, ButtonTick
  PROVE  /\ ButtonsInv'
         /\ \A h \in Handles :
              /\ ~Active(buttons[h]) /\ Active(buttons'[h]) => buttons'[h].event = "PRESS_DOWN"
              /\ Active(buttons[h]) /\ ~Active(buttons'[h]) /\ buttons[h].state # 0
                   => buttons'[h].event = "PRESS_UP"
<1> DEFINE h == Started[turn]
<1>1. h \in Handles /\ turn' \in 1 .. Len(Started) + 1
  BY StartedAssumption DEF ButtonTick, ButtonsInv
<1> HIDE DEF h
<1>2. PICK level \in Levels :
        LET event == Raised(Sampled(buttons[h], level))
        IN /\ buttons' = [buttons EXCEPT ![h] = button_handler(@, level)]
           /\ acts' = IF event \in {"PRESS_DOWN", "PRESS_UP"}
                        THEN [acts EXCEPT ![h] = IF Ignored(h) THEN "NONE_PRESS" ELSE event]
                        ELSE acts
  BY DEF ButtonTick, h
<1> DEFINE b == buttons[h]
           e == Raised(Sampled(b, level))
           n == button_handler(b, level)
<1>3. /\ HandleInv(n) /\ e \in ButtonEvents
      /\ ~Active(b) /\ Active(n) => e = "PRESS_DOWN"
      /\ Active(b) /\ ~Active(n) /\ b.state # 0 => e = "PRESS_UP"
      /\ e # "NONE_PRESS" => n.event = e
  BY <1>1, HandlerStep DEF ButtonsInv
<1>4. /\ buttons' = [buttons EXCEPT ![h] = n]
      /\ acts' = IF e \in {"PRESS_DOWN", "PRESS_UP"}
                   THEN [acts EXCEPT ![h] = IF Ignored(h) THEN "NONE_PRESS" ELSE e] ELSE acts
  BY <1>2
<1> HIDE DEF e, n
<1>5. buttons \in [Handles -> Button] /\ acts \in [Handles -> ButtonEvents]
  BY DEF ButtonsInv
<1>6. buttons'[h] = n /\ \A g \in Handles \ {h} : buttons'[g] = buttons[g]
  BY <1>1, <1>4, <1>5
<1>7. buttons' \in [Handles -> Button] /\ \A g \in Handles : HandleInv(buttons'[g])
  <2>1. n \in Button
    BY <1>3 DEF HandleInv
  <2> QED  BY <1>1, <1>3, <1>4, <1>5, <1>6, <2>1 DEF ButtonsInv
<1>8. acts' \in [Handles -> ButtonEvents]
  BY <1>3, <1>4, <1>5 DEF ButtonEvents
<1>9. ExclusivePress'
  <2> SUFFICES ASSUME \A g \in {"btn0", "btn1"} : Active(buttons'[g]) /\ acts'[g] = "PRESS_DOWN"
               PROVE  FALSE
    BY DEF ExclusivePress
  <2>1. ~(Active(buttons["btn0"]) /\ acts["btn0"] = "PRESS_DOWN"
          /\ Active(buttons["btn1"]) /\ acts["btn1"] = "PRESS_DOWN")
    BY DEF ButtonsInv, ExclusivePress
  <2>2. CASE h \notin {"btn0", "btn1"}
    BY <1>4, <1>5, <1>6, <2>1, <2>2 DEF Handles
  <2>3. CASE h \in {"btn0", "btn1"} /\ e = "PRESS_DOWN"
    <3>1. PICK g \in Rivals(h) : g \in {"btn0", "btn1"} /\ g # h
      BY <2>3 DEF Rivals
    <3>2. Active(buttons[g])
      BY <1>6, <3>1 DEF Handles
    <3>3. Ignored(h)
      BY <3>1, <3>2 DEF Ignored
    <3> QED  BY <1>1, <1>4, <1>5, <2>3, <3>3
  <2>4. CASE h \in {"btn0", "btn1"} /\ e # "PRESS_DOWN"
    <3>1. Active(n) /\ Active(b)
      BY <1>3, <1>6, <2>4
    <3>2. acts'[h] = "PRESS_DOWN" => acts[h] = "PRESS_DOWN"
      BY <1>1, <1>4, <1>5, <2>4
    <3>3. \A g \in Handles \ {h} : acts'[g] = acts[g]
      BY <1>4, <1>5
    <3> QED  BY <1>6, <2>1, <2>4, <3>1, <3>2, <3>3 DEF Handles
  <2> QED  BY <2>2, <2>3, <2>4
<1>10. \A g \in Handles :
         /\ ~Active(buttons[g]) /\ Active(buttons'[g]) => buttons'[g].event = "PRESS_DOWN"
         /\ Active(buttons[g]) /\ ~Active(buttons'[g]) /\ buttons[g].state # 0
              => buttons'[g].event = "PRESS_UP"
  BY <1>3, <1>6
<1> QED  BY <1>1, <1>7, <1>8, <1>9, <1>10 DEF ButtonsInv

(* The scan of the keys: the invariant, and what their changes rest on.    *)
LEMMA KeyStep ==
  ASSUME KeysInv, ScanKeys
  PROVE  /\ KeysInv'
         /\ \A k \in Keys : keyNow'[k] # keyNow[k]
              => run'[k].read = keyNow'[k] /\ run'[k].times = AntiShakeTick
<1>1. PICK read \in [Keys -> Levels] :
        LET shaken == [k \in Keys |-> anti_shake(tick[k], keyNow[k], read[k])]
        IN /\ tick' = [k \in Keys |-> shaken[k].tick]
           /\ keyNow' = [k \in Keys |-> shaken[k].now]
           /\ keyLast' = keyNow'
           /\ run' = [k \in Keys |-> Reading(run[k], read[k])]
  BY DEF ScanKeys
<1>2. /\ tick' = [k \in Keys |-> anti_shake(tick[k], keyNow[k], read[k]).tick]
      /\ keyNow' = [k \in Keys |-> anti_shake(tick[k], keyNow[k], read[k]).now]
      /\ keyLast' = keyNow'
      /\ run' = [k \in Keys |-> Reading(run[k], read[k])]
  BY <1>1
<1>3. ASSUME NEW k \in Keys
      PROVE  /\ KeyInv(tick'[k], keyNow'[k], run'[k])
             /\ keyNow'[k] # keyNow[k] => run'[k].read = keyNow'[k] /\ run'[k].times = AntiShakeTick
  BY <1>2, <1>3, ShakeStep DEF KeysInv
<1> QED  BY <1>2, <1>3 DEF KeysInv, KeyInv

(* Every step keeps the invariant.                                         *)
LEMMA Inductive == IInv /\ [Next]_vars => IInv'
<1> SUFFICES ASSUME IInv, [Next]_vars PROVE IInv'
  OBVIOUS
<1> USE DEF IInv
<1>1. CASE RTC_Alarm_IRQHandler \/ ReadAlarm \/ ReportAlarm \/ ClearAlarm
  <2>1. UNCHANGED buttonVars /\ UNCHANGED keyVars
    BY <1>1 DEF RTC_Alarm_IRQHandler, ReadAlarm, ReportAlarm, ClearAlarm
  <2>2. AlarmInv'
    <3>1. CASE RTC_Alarm_IRQHandler
      BY <3>1 DEF AlarmInv, RTC_Alarm_IRQHandler
    <3>2. CASE ReadAlarm
      BY <3>2 DEF AlarmInv, ReadAlarm, PastAlarm
    <3>3. CASE ReportAlarm
      BY <3>3 DEF AlarmInv, ReportAlarm, rtcVars
    <3>4. CASE ClearAlarm
      BY <3>4 DEF AlarmInv, ClearAlarm, PastAlarm
    <3> QED  BY <1>1, <3>1, <3>2, <3>3, <3>4
  <2> QED  BY <2>1, <2>2 DEF ButtonsInv, KeysInv, buttonVars, keyVars, ExclusivePress
<1>2. CASE ButtonTick
  <2>1. UNCHANGED <<at, keyVars, rtcVars, is_alarm, news>>
    BY <1>2 DEF ButtonTick
  <2> QED  BY <1>2, <2>1, ButtonStep DEF AlarmInv, KeysInv, keyVars, rtcVars
<1>3. CASE ScanKeys
  <2>1. UNCHANGED <<buttons, acts>> /\ turn' = 1
    BY <1>3 DEF ScanKeys
  <2>2. ButtonsInv'
    BY <2>1, StartedAssumption DEF ButtonsInv, ExclusivePress
  <2>3. AlarmInv'
    BY <1>3 DEF ScanKeys, AlarmInv, rtcVars
  <2> QED  BY <1>3, <2>2, <2>3, KeyStep
<1>4. CASE UNCHANGED vars
  BY <1>4 DEF vars, buttonVars, keyVars, rtcVars, AlarmInv, ButtonsInv, KeysInv, ExclusivePress
<1> QED  BY <1>1, <1>2, <1>3, <1>4 DEF Next

(* Whatever DEBOUNCE_TICKS, SHORT_TICKS and LONG_TICKS are, the counts of  *)
(* a button stay within the 3 and 16 bits of struct Button and below the   *)
(* limits they are compared with, those of anti_shake below theirs, and    *)
(* the alarm is a time of the week.                                        *)
THEOREM TypeCorrect == Spec => []TypeOK
BY Starts, Inductive, Implied, PTL DEF Spec

(* Of the two buttons only one takes effect, in any order of presses.      *)
THEOREM PressesExclude == Spec => []ExclusivePress
BY Starts, Inductive, Implied, PTL DEF Spec

(* No alarm is cleared before it was reported.                             *)
THEOREM AlarmsAreKept == Spec => []AlarmKept
BY Starts, Inductive, Implied, PTL DEF Spec

(* The alarm is five seconds away, from any time of the week.              *)
THEOREM AlarmIsOnTime == Spec => []AlarmOnTime
BY Starts, Inductive, Implied, PTL DEF Spec

(* Every debounced edge is reported, but releases in state 0.              *)
THEOREM EdgesAreReported == Spec => EdgesReported
<1> DEFINE Edges == \A h \in Handles :
      /\ ~Active(buttons[h]) /\ Active(buttons'[h]) => buttons'[h].event = "PRESS_DOWN"
      /\ Active(buttons[h]) /\ ~Active(buttons'[h]) /\ buttons[h].state # 0
           => buttons'[h].event = "PRESS_UP"
<1>1. IInv /\ [Next]_vars => [Edges]_vars
  <2> SUFFICES ASSUME IInv, Next PROVE Edges
    BY DEF vars
  <2>1. CASE ButtonTick
    BY <2>1, ButtonStep DEF IInv
  <2>2. CASE ~ButtonTick
    <3>1. UNCHANGED buttons
      BY <2>2 DEF Next, RTC_Alarm_IRQHandler, ReadAlarm, ReportAlarm, ClearAlarm, ScanKeys, buttonVars
    <3> QED  BY <3>1
  <2> QED  BY <2>1, <2>2
<1> QED  BY <1>1, Starts, Inductive, PTL DEF Spec, EdgesReported

(* A key changes only after AntiShakeTick equal reads.                     *)
THEOREM KeysAreDebounced == Spec => KeysDebounced
<1> DEFINE Steady == \A k \in Keys : keyNow'[k] # keyNow[k]
                       => run'[k].read = keyNow'[k] /\ run'[k].times = AntiShakeTick
<1>1. IInv /\ [Next]_vars => [Steady]_vars
  <2> SUFFICES ASSUME IInv, Next PROVE Steady
    BY DEF vars
  <2>1. CASE ScanKeys
    BY <2>1, KeyStep DEF IInv
  <2>2. CASE ~ScanKeys
    <3>1. UNCHANGED keyNow
      BY <2>2 DEF Next, RTC_Alarm_IRQHandler, ReadAlarm, ReportAlarm, ClearAlarm, ButtonTick, keyVars
    <3> QED  BY <3>1
  <2> QED  BY <2>1, <2>2
<1> QED  BY <1>1, Starts, Inductive, PTL DEF Spec, KeysDebounced
=============================================================================
