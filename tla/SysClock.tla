-------------------------------- MODULE SysClock --------------------------------
(***************************************************************************)
(* The system clock of the HAL: a tick counter that wraps, and a rate that *)
(* a timer's driver gives once.  The rate is zero until then, and every    *)
(* time service refuses.                                                   *)
(***************************************************************************)
EXTENDS Integers

CONSTANTS Wrap,      \* 2^32
          Rates      \* ticks per second, asked for by drivers

ASSUME ClockAssumption == Wrap \in Nat /\ Wrap > 3 /\ Rates \subseteq Nat \ {0}

VARIABLES nticks, tick_rate      \* _alt_nticks, _alt_tick_rate

clock == <<nticks, tick_rate>>

ClockInit == nticks = 0 /\ tick_rate = 0

(* A second driver is refused.                                             *)
alt_sysclk_init(rate) == tick_rate = 0 /\ tick_rate' = rate /\ UNCHANGED nticks

Count == nticks' = (nticks + 1) % Wrap /\ UNCHANGED tick_rate

ClockTypeOK == nticks \in 0..(Wrap - 1) /\ tick_rate \in Rates \cup {0}
===============================================================================
