------------------------------ MODULE Calendar ------------------------------
(***************************************************************************)
(* The time of day: include/asm/time.h reads the clock chip, kernel/time.c *)
(* turns that into seconds and counts on with the timer.  The chip keeps   *)
(* two decimal digits of everything.  The unit is an hour: minutes and     *)
(* seconds only add to it.  The registers are read until the seconds have  *)
(* not changed, so that a reading is one step.                             *)
(***************************************************************************)
EXTENDS Integers

CONSTANTS LastYear,   \* bounds: of the years after 2000, and of the hours
          MaxTicks,   \* that the kernel runs
          Words       \* what a word behind the table of months may hold

VARIABLES chip,       \* the date and time the clock chip shows
          hours,      \* the hours since 1970, counted by a calendar
          startup_time,
          booted,     \* the month of time_init, 0 before it
          ticks       \* jiffies / (HZ * HOUR)
vars == <<chip, hours, startup_time, booted, ticks>>

DAY == 24
YEAR == 365 * DAY
BCD(n) == 16 * (n \div 10) + (n % 10)
BCD_TO_BIN(val) == (val % 16) + (val \div 16) * 10

\* The month is made to start at zero before it is converted.
arch_read_time ==
  [hour |-> BCD_TO_BIN(BCD(chip.hour)), mday |-> BCD_TO_BIN(BCD(chip.mday)),
   mon |-> BCD_TO_BIN(BCD(chip.mon) - 1), year |-> BCD_TO_BIN(BCD(chip.year)) + 2000]

\* The hours before a month of a leap year, as it is tabulated.
month == [m \in 0..11 |->
            DAY * <<0, 31, 60, 91, 121, 152, 182, 213, 244, 274, 305, 335>>[m + 1]]
mktime(tm, word) ==
  LET year == tm.year - 1970
  IN YEAR * year + DAY * ((year + 1) \div 4)
     + (IF tm.mon \in 0..11 THEN month[tm.mon] ELSE word)
     - (IF tm.mon > 1 /\ (year + 2) % 4 # 0 THEN DAY ELSE 0)
     + DAY * (tm.mday - 1) + tm.hour
current_time == startup_time + ticks
-----------------------------------------------------------------------------
\* The chip: the calendar of the years from 2000 to 2099.
Length(mon, year) == IF mon = 2 THEN (IF year % 4 = 0 THEN 29 ELSE 28)
                     ELSE IF mon \in {4, 6, 9, 11} THEN 30 ELSE 31
Init == /\ chip = [year |-> 0, mon |-> 1, mday |-> 1, hour |-> 0]
        /\ hours = 10957 * DAY /\ startup_time = 0 /\ booted = 0 /\ ticks = 0

\* Some hours go by, and the timer counts them once the kernel runs.
Tick(n) ==
  LET last == chip.mday = Length(chip.mon, chip.year)
      midnight == chip.hour + n = DAY
      newyear == midnight /\ last /\ chip.mon = 12
  IN /\ chip.hour + n <= DAY /\ (newyear => chip.year < LastYear)
     /\ chip' = [year |-> IF newyear THEN chip.year + 1 ELSE chip.year,
                 mon |-> IF newyear THEN 1
                         ELSE IF midnight /\ last THEN chip.mon + 1 ELSE chip.mon,
                 mday |-> IF ~midnight THEN chip.mday ELSE IF last THEN 1 ELSE chip.mday + 1,
                 hour |-> IF midnight THEN 0 ELSE chip.hour + n]
     /\ hours' = hours + n
     /\ ticks' = (IF booted = 0 THEN 0 ELSE ticks + n) /\ ticks' <= MaxTicks
     /\ UNCHANGED <<startup_time, booted>>
time_init == /\ booted = 0 /\ booted' = chip.mon
             /\ \E word \in Words : startup_time' = mktime(arch_read_time, word)
             /\ UNCHANGED <<chip, hours, ticks>>
Next == Tick(11) \/ Tick(13) \/ time_init
Spec == Init /\ [][Next]_vars
-----------------------------------------------------------------------------
\* The hours since 1970 and the date that is shown agree with the calendar,
\* whenever the kernel started, but for October, whose two digits are taken
\* apart too late: time_init and sys_time.
ClockRightOutsideOctober ==
  /\ booted \notin {0, 10} => current_time = hours
  /\ chip.mon # 10 => arch_read_time = [chip EXCEPT !.mon = @ - 1, !.year = @ + 2000]
=============================================================================
