--------------------------------- MODULE Alarms ---------------------------------
(***************************************************************************)
(* The alarms of the HAL: alt_tick.c, alt_alarm_start.c and the circular   *)
(* list of alt_llist.h.  alt_tick runs at interrupt level, so the program  *)
(* does not run between its steps; the callbacks do.  An entry outside the *)
(* list points to itself.  Its time and rollover are never read before the *)
(* next start writes them: here they are zero.                             *)
(***************************************************************************)
EXTENDS SysClock

CONSTANTS Alarm,
          ListHead,           \* alt_alarm_list
          MaxInterval     \* the longest interval asked for

ASSUME HeadAssumption == ListHead \notin Alarm

(* Intervals of Wrap - 1 are missed by the test for rollover, see OnTime.  *)
ASSUME IntervalAssumption == MaxInterval \in Nat /\ MaxInterval <= Wrap - 2

VARIABLES next, previous, time, rollover,
          at, alarm, following,   \* alt_tick: where it is, and its two pointers
          left                    \* ticks until the alarm is to be called

listEntries   == <<next, previous, time, rollover>>
walk      == <<at, alarm, following>>
alarmVars == <<clock, listEntries, walk, left>>

Nodes  == Alarm \cup {ListHead}
Linked == {a \in Alarm : next[a] # a}

AlarmInit ==
  /\ ClockInit
  /\ next = [n \in Nodes |-> n] /\ previous = [n \in Nodes |-> n]
  /\ time = [a \in Alarm |-> 0] /\ rollover = [a \in Alarm |-> FALSE]
  /\ at = "idle" /\ alarm = ListHead /\ following = ListHead
  /\ left = [a \in Alarm |-> 0]

-------------------------------------------------------------------------------
HalfInsert(a) ==                                   \* mutant of alt_llist_insert
  /\ next' = [next EXCEPT ![a] = next[ListHead], ![ListHead] = a]
  /\ previous' = [previous EXCEPT ![a] = ListHead]
alt_llist_insert(a) ==
  /\ next' = [next EXCEPT ![a] = next[ListHead], ![ListHead] = a]
  /\ previous' = [previous EXCEPT ![a] = ListHead, ![next[ListHead]] = a]

(* The entry is made to point to itself last; outside the list that is all *)
(* that is done.                                                           *)
alt_llist_remove(a) ==
  /\ next' = [[next EXCEPT ![previous[a]] = next[a]] EXCEPT ![a] = a]
  /\ previous' = [[previous EXCEPT ![next[a]] = previous[a]] EXCEPT ![a] = a]

(* With interrupts off.  Without a clock, or an alarm, it is refused.      *)
NoRollover(a, n) ==                                \* mutant of alt_alarm_start
  /\ tick_rate # 0
  /\ time' = [time EXCEPT ![a] = (n + nticks + 1) % Wrap]
  /\ rollover' = [rollover EXCEPT ![a] = FALSE]
  /\ left' = [left EXCEPT ![a] = n + 1]
  /\ alt_llist_insert(a)
  /\ UNCHANGED <<clock, walk>>
alt_alarm_start(a, n) ==
  /\ tick_rate # 0
  /\ time' = [time EXCEPT ![a] = (n + nticks + 1) % Wrap]
  /\ rollover' = [rollover EXCEPT ![a] = (n + nticks + 1) % Wrap < nticks]
  /\ left' = [left EXCEPT ![a] = n + 1]
  /\ alt_llist_insert(a)
  /\ UNCHANGED <<clock, walk>>

Forget(a) == /\ time' = [time EXCEPT ![a] = 0] /\ rollover' = [rollover EXCEPT ![a] = FALSE]
             /\ left' = [left EXCEPT ![a] = 0]
alt_alarm_stop(a) == alt_llist_remove(a) /\ Forget(a) /\ UNCHANGED <<clock, walk>>

(* The program starts what is not running, and may stop anything.          *)
Call == at = "idle" /\ \E a \in Alarm :
  \/ a \notin Linked /\ \E n \in 0..MaxInterval : alt_alarm_start(a, n)
  \/ a \in Linked /\ alt_alarm_stop(a)

-------------------------------------------------------------------------------
(* alt_tick: count, then go through the list.  The pointer to the next one *)
(* is taken before the callback.                                           *)
alt_tick ==
  /\ at = "idle" /\ tick_rate # 0
  /\ Count
  /\ at' = "walk" /\ alarm' = next[ListHead] /\ UNCHANGED following
  /\ left' = [a \in Alarm |-> IF a \in Linked THEN left[a] - 1 ELSE 0]
  /\ UNCHANGED listEntries

Visit ==
  /\ at = "walk" /\ alarm # ListHead
  /\ rollover' = [rollover EXCEPT ![alarm] = @ /\ nticks # 0]
  /\ following' = next[alarm]
  /\ IF time[alarm] <= nticks /\ ~rollover'[alarm]
     THEN at' = "callback" /\ UNCHANGED alarm
     ELSE alarm' = next[alarm] /\ UNCHANGED at
  /\ UNCHANGED <<clock, next, previous, time, left>>

(* A callback may start other alarms, and stop any, itself included.  Only *)
(* the one alt_tick goes to next it leaves alone here, see StopsNext.      *)
CallbackCalls == at = "callback" /\ \E a \in Alarm :
  \/ a \notin Linked \cup {alarm} /\ \E n \in 0..MaxInterval : alt_alarm_start(a, n)
  \/ a \in Linked \ {following} /\ alt_alarm_stop(a)

(* The callback stops that one too.  The walk will still visit it, so here *)
(* its time and flag are kept: they are read again.                        *)
StopsNext ==
  /\ at = "callback" /\ following \in Linked
  /\ alt_llist_remove(following)
  /\ left' = [left EXCEPT ![following] = 0]
  /\ UNCHANGED <<clock, time, rollover, walk>>

(* Zero ends the alarm, anything else is its next interval, also for an    *)
(* entry that points to itself while the walk stands on it.                *)
ReadAgain(interval) ==                             \* mutant of CallbackReturns
  /\ at = "callback"
  /\ IF interval = 0 THEN alt_llist_remove(alarm) /\ Forget(alarm)
     ELSE LET due == (time[alarm] + interval) % Wrap IN
          /\ time' = [time EXCEPT ![alarm] = due]
          /\ rollover' = [rollover EXCEPT ![alarm] = due < nticks]
          /\ left' = [left EXCEPT ![alarm] = interval]
          /\ UNCHANGED <<next, previous>>
  /\ at' = "walk" /\ alarm' = next'[alarm] /\ following' = ListHead
  /\ UNCHANGED clock
CallbackReturns(interval) ==
  /\ at = "callback"
  /\ IF interval = 0 THEN alt_llist_remove(alarm) /\ Forget(alarm)
     ELSE IF alarm \notin Linked \cup {following} THEN UNCHANGED <<listEntries, left>>
     ELSE LET due == (time[alarm] + interval) % Wrap IN
          /\ time' = [time EXCEPT ![alarm] = due]
          /\ rollover' = [rollover EXCEPT ![alarm] = due < nticks]
          /\ left' = [left EXCEPT ![alarm] = interval]
          /\ UNCHANGED <<next, previous>>
  /\ at' = "walk" /\ alarm' = following /\ following' = ListHead
  /\ UNCHANGED clock

TickEnds ==
  /\ at = "walk" /\ alarm = ListHead
  /\ at' = "idle" /\ following' = ListHead
  /\ UNCHANGED <<clock, listEntries, left, alarm>>

SetRate == /\ at = "idle" /\ \E rate \in Rates : alt_sysclk_init(rate)
           /\ UNCHANGED <<listEntries, walk, left>>

Ticking == Visit \/ TickEnds \/ \E interval \in 0..MaxInterval : CallbackReturns(interval)
AlarmNext == SetRate \/ Call \/ alt_tick \/ CallbackCalls \/ Ticking

AlarmSpec == AlarmInit /\ [][AlarmNext]_alarmVars /\ WF_alarmVars(Ticking)

(* With callbacks that stop whatever they like.                            *)
FreeNext == AlarmNext \/ StopsNext
FreeSpec == AlarmInit /\ [][FreeNext]_alarmVars

-------------------------------------------------------------------------------
AlarmsTypeOK ==
  /\ ClockTypeOK
  /\ next \in [Nodes -> Nodes] /\ previous \in [Nodes -> Nodes]
  /\ time \in [Alarm -> 0..(Wrap - 1)] /\ rollover \in [Alarm -> BOOLEAN]
  /\ at \in {"idle", "walk", "callback"} /\ alarm \in Nodes /\ following \in Nodes
  /\ at = "callback" => alarm \in Alarm

(* alt_llist.h 86-117: forwards and backwards the list is the same, even   *)
(* in the middle of a tick whose callbacks start and stop alarms, and so   *)
(* an alarm is stopped without losing others.                              *)
ListWhole == \A n \in Nodes : previous[next[n]] = n /\ next[previous[n]] = n

(* alt_tick.c 99-137, alt_alarm_start.c 79-95: an alarm is called at the   *)
(* tick it was started for, no sooner and no later, also when the counter  *)
(* wraps in between.                                                       *)
OnTime ==
  /\ at = "callback" => left[alarm] = 0
  /\ at = "idle" => \A a \in Linked : left[a] > 0

(* alt_tick.c 95-143: the walk ends, whatever the callbacks start, and     *)
(* whatever they stop but the entry it goes to next.                       *)
WalkEnds == at # "idle" ~> at = "idle"

(* alt_tick.c 76-77: alt_tick is there "to process the registered list of  *)
(* alarms", from which alt_alarm_stop has removed what it was given        *)
(* (60-62): the walk stands on a registered entry or at its end.           *)
WalksList == at = "walk" => alarm \in Linked \cup {ListHead}
===============================================================================
