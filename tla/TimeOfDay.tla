------------------------------- MODULE TimeOfDay --------------------------------
(***************************************************************************)
(* gettimeofday, settimeofday, times and usleep of the HAL.  A time is     *)
(* seconds and microseconds.  The time zone is stored and given back, and  *)
(* left out.                                                               *)
(***************************************************************************)
EXTENDS SysClock

CONSTANTS US,          \* ALT_US, microseconds in a second
          Times,       \* what settimeofday is called with
          IntMax, LoopsPerUs, MaxSleep     \* of alt_busy_sleep

(* A rate that does not divide ALT_US makes the clock run back, see Now.   *)
ASSUME RateAssumption  == US \in Nat \ {0} /\ \A r \in Rates : US % r = 0
ASSUME TimesAssumption == Times \subseteq [sec : Nat, usec : 0..(US - 1)]
ASSUME SleepAssumption == /\ {LoopsPerUs, IntMax, MaxSleep} \subseteq Nat
                          /\ 1 <= LoopsPerUs /\ LoopsPerUs <= IntMax

VARIABLES alt_resettime,
          set,               \* the time that was set, and the ticks at that moment
          asked, slept       \* usleep: its argument, and the turns of its loops

dayVars == <<clock, alt_resettime, set, asked, slept>>

Never == [micros |-> -1, ticks |-> 0]

DayInit ==
  /\ ClockInit
  /\ alt_resettime = [sec |-> 0, usec |-> 0]
  /\ set = [micros |-> 0, ticks |-> 0]
  /\ asked = 0 /\ slept = 0

UsPerTick == US \div tick_rate
Micros(t) == t.sec * US + t.usec

-------------------------------------------------------------------------------
(* gettimeofday.  The product has 64 bits.                                 *)
NoBorrow(sec, usec) ==                             \* mutant of Carried
  IF usec >= US THEN [sec |-> sec + 1, usec |-> usec - US] ELSE [sec |-> sec, usec |-> usec]
Carried(sec, usec) ==
  IF usec < 0 /\ sec <= 0 THEN [sec |-> 0, usec |-> 0]
  ELSE IF usec < 0 THEN [sec |-> sec - 1, usec |-> usec + US]
  ELSE IF usec >= US THEN [sec |-> sec + 1, usec |-> usec - US]
  ELSE [sec |-> sec, usec |-> usec]
Now == Carried(alt_resettime.sec + nticks \div tick_rate,
               alt_resettime.usec + ((nticks * UsPerTick) % US))

(* settimeofday.  Here it has 32 bits: once nticks * UsPerTick does not    *)
(* fit, what gettimeofday gives is not what was set, and set is Never.     *)
alt_settimeofday(t) ==
  /\ tick_rate # 0
  /\ alt_resettime' = [sec  |-> t.sec - nticks \div tick_rate,
                       usec |-> t.usec - (((nticks * UsPerTick) % Wrap) % US)]
  /\ set' = IF nticks * UsPerTick < Wrap THEN [micros |-> Micros(t), ticks |-> nticks]
            ELSE Never
  /\ UNCHANGED <<clock, asked, slept>>

(* When the counter wraps, the time falls back by as much.                 *)
Tick ==
  /\ tick_rate # 0 /\ Count
  /\ set' = IF nticks' = 0 THEN Never ELSE set
  /\ UNCHANGED <<alt_resettime, asked, slept>>

StartClock == (\E rate \in Rates : alt_sysclk_init(rate)) /\ UNCHANGED <<alt_resettime, set, asked, slept>>

alt_times == nticks

-------------------------------------------------------------------------------
(* alt_busy_sleep: loops of at most IntMax turns.  A loop that tests for   *)
(* zero after it has counted down goes right round when it begins at zero; *)
(* the short sleeps use one that tests for more than zero.                 *)
UntilZero(n)    == IF n = 0 THEN 2 * (IntMax + 1) ELSE n
UntilNotMore(n) == IF n = 0 THEN 1 ELSE n

Big == IntMax \div LoopsPerUs
SkipRest(us) ==                                    \* mutant of Turns
  LET loops == us \div Big
  IN IF loops > 0 THEN loops * IntMax ELSE UntilNotMore(us * LoopsPerUs)
Turns(us) ==
  LET loops == us \div Big
  IN IF loops > 0 THEN loops * IntMax + UntilZero((us % Big) * LoopsPerUs)
     ELSE UntilNotMore(us * LoopsPerUs)

usleep(us) == asked' = us /\ slept' = Turns(us) /\ UNCHANGED <<clock, alt_resettime, set>>

DayNext ==
  \/ StartClock \/ Tick
  \/ \E t \in Times : alt_settimeofday(t)
  \/ \E us \in 0..MaxSleep : usleep(us)

DaySpec == DayInit /\ [][DayNext]_dayVars

-------------------------------------------------------------------------------
(* alt_settod.c 61-63, alt_gettod.c 82-104: gettimeofday gives the time    *)
(* that was set, and from then on a tick more at every tick, with the      *)
(* microseconds carried.                                                   *)
KeepsTime ==
  set # Never /\ tick_rate # 0 =>
    /\ Micros(Now) = set.micros + (nticks - set.ticks) * UsPerTick
    /\ Now.usec \in 0..(US - 1)

(* alt_busy_sleep.c 78-130: a sleep is as long as asked, and at most a     *)
(* microsecond longer for every loop; unless it is a multiple of Big, when *)
(* the last loop goes right round.                                         *)
SleepsAsAsked ==
  /\ slept >= asked * LoopsPerUs
  /\ asked % Big # 0 => slept <= (asked + asked \div Big) * LoopsPerUs
===============================================================================
