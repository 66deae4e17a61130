------------------------------- MODULE Clocks -------------------------------
(***************************************************************************)
(* The arithmetic of time: the calibration of the delay loop and the       *)
(* conversion of durations (devices/timer.c), the divisor of the interval  *)
(* timer (devices/pit.c) and the reading of the clock chip while it runs   *)
(* (devices/rtc.c).                                                        *)
(***************************************************************************)
EXTENDS Integers, FiniteSets, SequencesExt

CONSTANTS
  TIMER_FREQ,   \* timer interrupts per second
  FirstBit,     \* the calibration starts with 2^FirstBit loops; the code has 10
  Thousand,     \* 1000 in the code
  UintBits      \* bits of an unsigned int

-----------------------------------------------------------------------------
\* A tick takes as long as perTick loops, and a little longer.
too_many_loops(loops, perTick) == loops > perTick

\* The first loop of timer_calibrate; 0 is the failed assertion.
RECURSIVE HighBit(_, _)
HighBit(loops_per_tick, perTick) ==
  LET twice == (2 * loops_per_tick) % 2^UintBits
  IN  IF too_many_loops(twice, perTick) \/ loops_per_tick = 0 THEN loops_per_tick
      ELSE HighBit(twice, perTick)

\* The second one.
RECURSIVE Refine(_, _, _, _)
Refine(loops_per_tick, test_bit, last, perTick) ==
  IF test_bit = last THEN loops_per_tick
  ELSE Refine(IF too_many_loops(loops_per_tick + test_bit, perTick)
                THEN loops_per_tick ELSE loops_per_tick + test_bit,
              test_bit \div 2, last, perTick)

timer_calibrate(perTick) ==
  LET high_bit == HighBit(2^FirstBit, perTick)
  IN  Refine(high_bit, high_bit \div 2, high_bit \div 2^FirstBit, perTick)

\* The loops of a busy wait, and the ticks or the loops of a sleep, for
\* num / denom seconds.
real_time_delay(num, denom, loops_per_tick) ==
  ((((loops_per_tick * num) \div Thousand) * TIMER_FREQ) \div (denom \div Thousand))
real_time_sleep(num, denom, loops_per_tick) ==
  LET ticks == (num * TIMER_FREQ) \div denom
  IN  IF ticks > 0 THEN [ticks |-> ticks, loops |-> 0]
      ELSE [ticks |-> 0, loops |-> real_time_delay(num, denom, loops_per_tick)]

PIT_HZ == 1193180

\* The 16-bit count that is loaded; 0 stands for 65536.
pit_configure_channel(frequency) ==
  CASE frequency < 19 -> 0
    [] frequency > PIT_HZ -> 2
    [] OTHER -> ((PIT_HZ + (frequency \div 2)) \div frequency) % 2^16

-----------------------------------------------------------------------------
(* The clock chip shows a time of day in BCD.  A moment is a sequence of   *)
(* second, minute, hour, day, month and year of the century.               *)

days_per_month == <<31, 28, 31, 30, 31, 30, 31, 31, 30, 31, 30, 31>>

Bcd(n) == 16 * (n \div 10) + (n % 10)
bcd_to_bin(x) == (x % 16) + ((x \div 16) * 10)

\* The seconds that rtc_get_time makes of the six numbers, year after 1970.
\* The days of the current month are added, too.
Seconds(sec, min, hour, mday, mon, year) ==
  LET months == FoldLeft(LAMBDA t, i : t + days_per_month[i], 0, [i \in 1..mon |-> i])
      leap == IF mon > 2 /\ year % 4 = 0 THEN 1 ELSE 0
      before == IF year = 0 THEN 0 ELSE (year - 1) \div 4
      days == year * 365 + before + months + leap + (mday - 1)
  IN  ((days * 24 + hour) * 60 + min) * 60 + sec

SinceEpoch(year) == IF year < 70 THEN year + 30 ELSE year - 70

\* The time read while shown[k] is on display at the k-th access to the chip.
\* An attempt takes seven accesses, the seventh again to the seconds.
RECURSIVE rtc_get_time(_, _)
rtc_get_time(shown, k) ==
  LET field(i) == bcd_to_bin(Bcd(shown[k + i][i]))
  IN  IF field(1) # bcd_to_bin(Bcd(shown[k + 7][1]))
        THEN rtc_get_time(shown, k + 7)
        ELSE Seconds(field(1), field(2), field(3), field(4), field(5), SinceEpoch(field(6)))

\* One second later.
DaysIn(mon, year) == IF mon = 2 /\ year % 4 = 0 THEN 29 ELSE days_per_month[mon]
Later(c) ==
  LET last == <<59, 59, 23, DaysIn(c[5], c[6]), 12, 99>>
      first == <<0, 0, 0, 1, 1, 0>>
      carry(i) == \A j \in 1..(i - 1) : c[j] = last[j]
  IN  [i \in 1..6 |-> IF ~carry(i) THEN c[i] ELSE IF c[i] = last[i] THEN first[i] ELSE c[i] + 1]

-----------------------------------------------------------------------------
\* The calibration comes within one part in 2^(FirstBit - 1) of the loops that
\* fit in a tick, and never above.
CalibrationOK(perTick) ==
  LET r == timer_calibrate(perTick)
  IN  perTick >= 2^FirstBit => r <= perTick /\ (perTick - r) * 2^(FirstBit - 1) < perTick

\* A sleep lasts no longer than asked for and is less than a tick short; one
\* of less than a tick is a busy wait that loses only what the two divisions
\* round off.
SleepOK(num, denom, perTick) ==
  LET s == real_time_sleep(num, denom, perTick)
      asked == num * TIMER_FREQ
  IN  IF asked >= denom
        THEN s.ticks * denom <= asked /\ asked < (s.ticks + 1) * denom
        ELSE /\ s.ticks = 0
             /\ s.loops * denom <= perTick * asked
             /\ perTick * asked < (s.loops + 1) * denom + TIMER_FREQ * Thousand

\* The count fits, and no other count comes closer to the frequency asked for.
FrequencyOK(frequency) ==
  LET c == pit_configure_channel(frequency)
      err == PIT_HZ - c * frequency
  IN  c \in 2..65535 /\ 2 * err <= frequency /\ -2 * err <= frequency

\* A time read while the clock goes on to the next second is one of the two
\* that were shown, not a mixture; and they are a second apart within a month.
ReadingOK(c, changes) ==
  LET shown == [k \in 1..14 |-> IF k < changes THEN c ELSE Later(c)]
      Fixed(m) == Seconds(m[1], m[2], m[3], m[4], m[5], SinceEpoch(m[6]))
  IN  /\ rtc_get_time(shown, 0) \in {Fixed(c), Fixed(Later(c))}
      /\ Later(c)[5] = c[5] => Fixed(Later(c)) = Fixed(c) + 1
=============================================================================
