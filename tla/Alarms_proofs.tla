----------------------------- MODULE Alarms_proofs -----------------------------
(***************************************************************************)
(* The alarm list for any number of alarms, any counter width, and any     *)
(* order in which the program and the callbacks start and stop them: the   *)
(* list is whole at every step of the walk.  The two links of an entry are *)
(* all the argument needs: that each is the other's inverse is kept by an  *)
(* insertion of what points to itself, and by every removal.               *)
(***************************************************************************)
EXTENDS Alarms, TLAPS

IInv == AlarmsTypeOK /\ ListWhole

LEMMA Remainder == ASSUME NEW n \in Nat PROVE n % Wrap \in 0..(Wrap - 1)
BY ClockAssumption

LEMMA InitIInv == AlarmInit => IInv
BY ClockAssumption
   DEF AlarmInit, ClockInit, IInv, AlarmsTypeOK, ClockTypeOK, ListWhole, Nodes

(* alt_llist.h 86-101: inserting what is outside the list.                 *)
LEMMA InsertKeepsWhole ==
  ASSUME IInv, NEW a \in Alarm, a \notin Linked, alt_llist_insert(a)
  PROVE  /\ next' \in [Nodes -> Nodes] /\ previous' \in [Nodes -> Nodes]
         /\ ListWhole'
<1>1. /\ a \in Nodes /\ ListHead \in Nodes /\ a # ListHead
      /\ next[a] = a /\ next[ListHead] \in Nodes
      /\ next \in [Nodes -> Nodes] /\ previous \in [Nodes -> Nodes]
  BY HeadAssumption DEF IInv, AlarmsTypeOK, Nodes, Linked
<1>2. next[ListHead] # a
  BY <1>1 DEF IInv, ListWhole
<1>3. next' \in [Nodes -> Nodes] /\ previous' \in [Nodes -> Nodes]
  BY <1>1 DEF alt_llist_insert
<1>4. ASSUME NEW n \in Nodes
      PROVE  previous'[next'[n]] = n /\ next'[previous'[n]] = n
  BY <1>1, <1>2 DEF IInv, ListWhole, alt_llist_insert
<1> QED
  BY <1>3, <1>4 DEF ListWhole

(* alt_llist.h 103-117: removing, from the list or from nowhere.           *)
LEMMA RemoveKeepsWhole ==
  ASSUME IInv, NEW a \in Alarm, alt_llist_remove(a)
  PROVE  /\ next' \in [Nodes -> Nodes] /\ previous' \in [Nodes -> Nodes]
         /\ ListWhole'
<1>1. /\ a \in Nodes /\ next[a] \in Nodes /\ previous[a] \in Nodes
      /\ next \in [Nodes -> Nodes] /\ previous \in [Nodes -> Nodes]
  BY DEF IInv, AlarmsTypeOK, Nodes
<1>2. next' \in [Nodes -> Nodes] /\ previous' \in [Nodes -> Nodes]
  BY <1>1 DEF alt_llist_remove
<1>3. ASSUME NEW n \in Nodes
      PROVE  previous'[next'[n]] = n /\ next'[previous'[n]] = n
  BY <1>1 DEF IInv, ListWhole, alt_llist_remove
<1> QED
  BY <1>2, <1>3 DEF ListWhole

LEMMA StartKeepsIInv ==
  ASSUME IInv, NEW a \in Alarm, a \notin Linked, NEW n \in 0..MaxInterval,
         alt_alarm_start(a, n)
  PROVE  IInv'
<1>1. next' \in [Nodes -> Nodes] /\ previous' \in [Nodes -> Nodes] /\ ListWhole'
  BY InsertKeepsWhole DEF alt_alarm_start
<1>2. n + nticks + 1 \in Nat
  BY IntervalAssumption, ClockAssumption DEF IInv, AlarmsTypeOK, ClockTypeOK
<1>3. (n + nticks + 1) % Wrap \in 0..(Wrap - 1)
  BY <1>2, Remainder
<1>4. time' \in [Alarm -> 0..(Wrap - 1)] /\ rollover' \in [Alarm -> BOOLEAN]
  <2>1. ((n + nticks + 1) % Wrap < nticks) \in BOOLEAN
    OBVIOUS
  <2> QED
    BY <1>3, <2>1 DEF alt_alarm_start, IInv, AlarmsTypeOK
<1>5. UNCHANGED <<nticks, tick_rate, at, alarm, following>>
  BY DEF alt_alarm_start, clock, walk
<1> QED
  BY <1>1, <1>4, <1>5 DEF IInv, AlarmsTypeOK, ClockTypeOK

LEMMA ForgetKeepsTypes ==
  ASSUME IInv, NEW a \in Alarm, Forget(a)
  PROVE  time' \in [Alarm -> 0..(Wrap - 1)] /\ rollover' \in [Alarm -> BOOLEAN]
BY ClockAssumption DEF Forget, IInv, AlarmsTypeOK

LEMMA StopKeepsIInv ==
  ASSUME IInv, NEW a \in Alarm, alt_alarm_stop(a)
  PROVE  IInv'
<1>1. next' \in [Nodes -> Nodes] /\ previous' \in [Nodes -> Nodes] /\ ListWhole'
  BY RemoveKeepsWhole DEF alt_alarm_stop
<1>2. time' \in [Alarm -> 0..(Wrap - 1)] /\ rollover' \in [Alarm -> BOOLEAN]
  BY ForgetKeepsTypes DEF alt_alarm_stop
<1>3. UNCHANGED <<nticks, tick_rate, at, alarm, following>>
  BY DEF alt_alarm_stop, clock, walk
<1> QED
  BY <1>1, <1>2, <1>3 DEF IInv, AlarmsTypeOK, ClockTypeOK

(* alt_tick.c 117-139: zero ends the alarm, anything else is added.        *)
LEMMA ReturnKeepsIInv ==
  ASSUME IInv, NEW interval \in 0..MaxInterval, CallbackReturns(interval)
  PROVE  IInv'
<1>1. alarm \in Alarm /\ following \in Nodes /\ ListHead \in Nodes
  BY DEF CallbackReturns, IInv, AlarmsTypeOK, Nodes
<1>2. UNCHANGED <<nticks, tick_rate>> /\ at' = "walk" /\ alarm' = following
      /\ following' = ListHead
  BY DEF CallbackReturns, clock
<1>3. CASE interval = 0
  <2>1. alt_llist_remove(alarm) /\ Forget(alarm)
    BY <1>3 DEF CallbackReturns
  <2>2. next' \in [Nodes -> Nodes] /\ previous' \in [Nodes -> Nodes] /\ ListWhole'
    BY <1>1, <2>1, RemoveKeepsWhole
  <2>3. time' \in [Alarm -> 0..(Wrap - 1)] /\ rollover' \in [Alarm -> BOOLEAN]
    BY <1>1, <2>1, ForgetKeepsTypes
  <2> QED
    BY <1>1, <1>2, <2>2, <2>3 DEF IInv, AlarmsTypeOK, ClockTypeOK
<1>4. CASE interval # 0 /\ alarm \notin Linked \cup {following}
  BY <1>1, <1>2, <1>4 DEF CallbackReturns, listEntries, IInv, AlarmsTypeOK, ClockTypeOK, ListWhole
<1>5. CASE interval # 0 /\ alarm \in Linked \cup {following}
  <2>1. time[alarm] + interval \in Nat
    BY <1>1, IntervalAssumption, ClockAssumption DEF IInv, AlarmsTypeOK
  <2>2. (time[alarm] + interval) % Wrap \in 0..(Wrap - 1)
    BY <2>1, Remainder
  <2>3. UNCHANGED <<next, previous>>
    BY <1>5 DEF CallbackReturns
  <2>4. time' \in [Alarm -> 0..(Wrap - 1)] /\ rollover' \in [Alarm -> BOOLEAN]
    <3>1. ((time[alarm] + interval) % Wrap < nticks) \in BOOLEAN
      OBVIOUS
    <3> QED
      BY <1>1, <1>5, <2>2, <3>1 DEF CallbackReturns, IInv, AlarmsTypeOK
  <2> QED
    BY <1>1, <1>2, <2>3, <2>4 DEF IInv, AlarmsTypeOK, ClockTypeOK, ListWhole
<1> QED
  BY <1>3, <1>4, <1>5

LEMMA StepIInv == IInv /\ [FreeNext]_alarmVars => IInv'
<1> SUFFICES ASSUME IInv, [FreeNext]_alarmVars PROVE IInv'
  OBVIOUS
<1>1. CASE UNCHANGED alarmVars
  BY <1>1 DEF alarmVars, clock, listEntries, walk, IInv, AlarmsTypeOK, ClockTypeOK, ListWhole
<1>2. CASE SetRate
  BY <1>2 DEF SetRate, alt_sysclk_init, listEntries, walk, IInv, AlarmsTypeOK, ClockTypeOK,
              ListWhole
<1>3. CASE Call
  BY <1>3, StartKeepsIInv, StopKeepsIInv DEF Call, Linked
<1>4. CASE alt_tick
  <2>1. nticks + 1 \in Nat
    BY ClockAssumption DEF IInv, AlarmsTypeOK, ClockTypeOK
  <2>2. nticks' \in 0..(Wrap - 1)
    BY <1>4, <2>1, Remainder DEF alt_tick, Count
  <2> QED
    BY <1>4, <2>2 DEF alt_tick, Count, listEntries, IInv, AlarmsTypeOK, ClockTypeOK, ListWhole, Nodes
<1>5. CASE CallbackCalls
  BY <1>5, StartKeepsIInv, StopKeepsIInv DEF CallbackCalls, Linked
<1>6. CASE Visit
  <2>1. alarm \in Alarm
    BY <1>6 DEF Visit, IInv, AlarmsTypeOK, Nodes
  <2>2. rollover' \in [Alarm -> BOOLEAN]
    BY <1>6, <2>1 DEF Visit, IInv, AlarmsTypeOK
  <2>3. UNCHANGED <<nticks, tick_rate, next, previous, time>>
    BY <1>6 DEF Visit, clock
  <2>4. following' \in Nodes /\ at' \in {"walk", "callback"} /\ alarm' \in Nodes
        /\ (at' = "callback" => alarm' \in Alarm)
    BY <1>6, <2>1 DEF Visit, IInv, AlarmsTypeOK, Nodes
  <2> QED
    BY <2>2, <2>3, <2>4 DEF IInv, AlarmsTypeOK, ClockTypeOK, ListWhole
<1>7. CASE TickEnds
  BY <1>7 DEF TickEnds, clock, listEntries, IInv, AlarmsTypeOK, ClockTypeOK, ListWhole, Nodes
<1>8. CASE \E interval \in 0..MaxInterval : CallbackReturns(interval)
  BY <1>8, ReturnKeepsIInv
<1>9. CASE StopsNext
  <2>1. following \in Alarm /\ alt_llist_remove(following)
    BY <1>9 DEF StopsNext, Linked
  <2>2. next' \in [Nodes -> Nodes] /\ previous' \in [Nodes -> Nodes] /\ ListWhole'
    BY <2>1, RemoveKeepsWhole
  <2>3. UNCHANGED <<nticks, tick_rate, time, rollover, at, alarm, following>>
    BY <1>9 DEF StopsNext, clock, walk
  <2> QED
    BY <2>2, <2>3 DEF IInv, AlarmsTypeOK, ClockTypeOK
<1> QED
  BY <1>1, <1>2, <1>3, <1>4, <1>5, <1>6, <1>7, <1>8, <1>9 DEF FreeNext, AlarmNext, Ticking

LEMMA FreeInvariant == FreeSpec => []IInv
BY InitIInv, StepIInv, PTL DEF FreeSpec

LEMMA AlarmInvariant == AlarmSpec => []IInv
<1>1. [AlarmNext]_alarmVars => [FreeNext]_alarmVars
  BY DEF FreeNext
<1> QED
  BY <1>1, InitIInv, StepIInv, PTL DEF AlarmSpec

(* Times and links are in range at every step of alt_tick.c.               *)
THEOREM TypeCorrect == AlarmSpec => []AlarmsTypeOK
BY AlarmInvariant, PTL DEF IInv

(* alt_llist.h 86-117: the list is the same forwards and backwards, also   *)
(* while alt_tick.c 99-141 walks it and callbacks change it.               *)
THEOREM AlarmListWhole == AlarmSpec => []ListWhole
BY AlarmInvariant, PTL DEF IInv

(* And also when a callback stops the entry the walk goes to next.         *)
THEOREM FreeListWhole == FreeSpec => []ListWhole
BY FreeInvariant, PTL DEF IInv
-------------------------------------------------------------------------------
(* What the walk still has to reach from x: the entries in every set that  *)
(* contains x and with each entry the next one, up to the head.  Said with *)
(* sets, it needs no induction along the list.                             *)
Closed(S) == \A n \in S \ {ListHead} : next[n] \in S
Ahead(x)  == {a \in Alarm : \A S \in SUBSET Nodes : x \in S /\ Closed(S) => a \in S}

(* Entries that are due now, or whose rollover flag the walk must clear.   *)
Pending == {a \in Linked : left[a] = 0 \/ (rollover[a] /\ nticks + left[a] < Wrap)}

(* The time kept in an entry and its flag say what left says.              *)
Timed(a) ==
  /\ nticks + left[a] < Wrap => time[a] = nticks + left[a] /\ (rollover[a] => nticks = 0)
  /\ nticks + left[a] >= Wrap => time[a] = nticks + left[a] - Wrap /\ rollover[a]

OInv ==
  /\ IInv
  /\ left \in [Alarm -> 0..(Wrap - 1)]
  /\ Linked \subseteq Ahead(next[ListHead])
  /\ \A a \in Linked : Timed(a)
  /\ at = "idle" => Pending = {}
  /\ at = "walk" => alarm \in Linked \cup {ListHead} /\ Pending \subseteq Ahead(alarm)
  /\ at = "callback" => /\ following \in Linked \cup {ListHead} /\ following # alarm
                        /\ left[alarm] = 0 /\ Pending \subseteq Ahead(following) \cup {alarm}

LEMMA WrapOnce ==
  ASSUME NEW m \in Nat, m < 2 * Wrap
  PROVE  m % Wrap = IF m < Wrap THEN m ELSE m - Wrap
BY ClockAssumption

LEMMA StepAhead ==
  ASSUME NEW x \in Nodes, x # ListHead, NEW b \in Ahead(x), b # x
  PROVE  b \in Ahead(next[x])
<1> SUFFICES ASSUME NEW S \in SUBSET Nodes, next[x] \in S, Closed(S) PROVE b \in S
  BY DEF Ahead
<1>1. S \cup {x} \in SUBSET Nodes /\ Closed(S \cup {x})
  BY DEF Closed
<1> QED
  BY <1>1 DEF Ahead

LEMMA NothingAheadOfHead == Ahead(ListHead) = {}
<1>1. {ListHead} \in SUBSET Nodes /\ Closed({ListHead})
  BY DEF Nodes, Closed
<1> QED
  BY <1>1, HeadAssumption DEF Ahead

LEMMA InsertAhead ==
  ASSUME IInv, NEW a \in Alarm, a \notin Linked, alt_llist_insert(a),
         NEW x \in Nodes, x # a, NEW b \in Ahead(x)
  PROVE  b \in Ahead(x)'
<1> SUFFICES ASSUME NEW S \in SUBSET Nodes, x \in S, Closed(S)' PROVE b \in S
  BY DEF Ahead
<1>1. /\ a \in Nodes /\ ListHead \in Nodes /\ a # ListHead
      /\ next \in [Nodes -> Nodes] /\ next[a] = a
  BY HeadAssumption DEF IInv, AlarmsTypeOK, Nodes, Linked
<1>2. ASSUME NEW n \in (S \ {a}) \ {ListHead} PROVE next[n] \in S \ {a}
  <2>1. next'[n] = next[n] /\ next'[n] \in S
    BY <1>1, <1>2 DEF alt_llist_insert, Closed
  <2>2. next[n] # a
    BY <1>1, <1>2 DEF IInv, ListWhole
  <2> QED
    BY <2>1, <2>2
<1>3. Closed(S \ {a}) /\ S \ {a} \in SUBSET Nodes /\ x \in S \ {a}
  BY <1>2 DEF Closed
<1> QED
  BY <1>3 DEF Ahead

LEMMA RemoveAhead ==
  ASSUME IInv, NEW a \in Alarm, alt_llist_remove(a),
         NEW x \in Nodes, x # a, NEW b \in Ahead(x), b # a
  PROVE  b \in Ahead(x)'
<1> SUFFICES ASSUME NEW S \in SUBSET Nodes, x \in S, Closed(S)' PROVE b \in S
  BY DEF Ahead
<1> DEFINE p == previous[a]
<1>1. /\ a \in Nodes /\ p \in Nodes /\ next[p] = a
      /\ next \in [Nodes -> Nodes] /\ previous \in [Nodes -> Nodes]
  BY DEF IInv, AlarmsTypeOK, Nodes, ListWhole
<1>2. \A n \in Nodes : n # p => next[n] # a
  BY <1>1 DEF IInv, ListWhole
<1>3. \A n \in Nodes : n \notin {a, p} => next'[n] = next[n]
  BY <1>1 DEF alt_llist_remove
<1>4. next'[p] = next[a]
  BY <1>1 DEF alt_llist_remove
<1> HIDE DEF p
<1>5. CASE p \in S \ {ListHead}
  <2>1. next[a] \in S
    BY <1>4, <1>5 DEF Closed
  <2>2. ASSUME NEW n \in (S \cup {a}) \ {ListHead} PROVE next[n] \in S \cup {a}
    BY <1>1, <1>3, <2>1 DEF Closed
  <2>3. Closed(S \cup {a}) /\ S \cup {a} \in SUBSET Nodes /\ x \in S \cup {a}
    BY <1>1, <2>2 DEF Closed
  <2> QED
    BY <2>3 DEF Ahead
<1>6. CASE p \notin S \ {ListHead}
  <2>1. ASSUME NEW n \in (S \ {a}) \ {ListHead} PROVE next[n] \in S \ {a}
    BY <1>1, <1>2, <1>3, <1>6 DEF Closed
  <2>2. Closed(S \ {a}) /\ S \ {a} \in SUBSET Nodes /\ x \in S \ {a}
    BY <2>1 DEF Closed
  <2> QED
    BY <2>2 DEF Ahead
<1> QED
  BY <1>5, <1>6

(* Whoever starts an alarm disturbs no other and leaves nothing pending.   *)
LEMMA StartStep ==
  ASSUME OInv, NEW a \in Alarm, a \notin Linked, NEW n \in 0..MaxInterval,
         alt_alarm_start(a, n)
  PROVE  /\ left' \in [Alarm -> 0..(Wrap - 1)]
         /\ \A c \in Alarm : c # a => left'[c] = left[c]
         /\ Linked' = Linked \cup {a}
         /\ Linked' \subseteq Ahead(next[ListHead])'
         /\ \A b \in Linked' : Timed(b)'
         /\ Pending' \subseteq Pending
<1>1. /\ a \in Nodes /\ ListHead \in Nodes /\ a # ListHead /\ next[a] = a
      /\ next \in [Nodes -> Nodes] /\ IInv /\ alt_llist_insert(a)
      /\ nticks \in 0..(Wrap - 1) /\ nticks' = nticks /\ Wrap \in Nat
  BY HeadAssumption, ClockAssumption
     DEF OInv, IInv, AlarmsTypeOK, ClockTypeOK, Nodes, Linked, alt_alarm_start, clock
<1>2. n + 1 \in 0..(Wrap - 1) /\ n + 1 > 0 /\ n + nticks + 1 \in Nat /\ n + nticks + 1 < 2 * Wrap
  BY <1>1, IntervalAssumption
<1>3. left' = [left EXCEPT ![a] = n + 1] /\ left \in [Alarm -> 0..(Wrap - 1)]
  BY DEF alt_alarm_start, OInv
<1>4. left' \in [Alarm -> 0..(Wrap - 1)] /\ left'[a] = n + 1
      /\ \A c \in Alarm : c # a => left'[c] = left[c]
  BY <1>2, <1>3
<1>5. \A c \in Alarm : c # a => time'[c] = time[c] /\ rollover'[c] = rollover[c]
  BY <1>1 DEF alt_alarm_start, IInv, AlarmsTypeOK
<1>6. PICK m \in Nat : m = n + nticks + 1
  BY <1>2
<1>7. time'[a] = m % Wrap /\ (rollover'[a] <=> m % Wrap < nticks)
  BY <1>1, <1>6 DEF alt_alarm_start, IInv, AlarmsTypeOK
<1>8. Timed(a)' /\ ~(rollover'[a] /\ nticks + left'[a] < Wrap)
  <2>1. m % Wrap = IF m < Wrap THEN m ELSE m - Wrap
    BY <1>2, <1>6, WrapOnce
  <2>2. nticks + left'[a] = m
    BY <1>1, <1>4, <1>6
  <2>3. CASE m < Wrap
    <3>1. time'[a] = m /\ ~rollover'[a]
      BY <1>1, <1>2, <1>6, <1>7, <2>1, <2>3
    <3> QED
      BY <1>1, <1>2, <1>4, <2>2, <2>3, <3>1 DEF Timed
  <2>4. CASE m >= Wrap
    <3>1. time'[a] = m - Wrap /\ rollover'[a]
      BY <1>1, <1>2, <1>6, <1>7, <2>1, <2>4
    <3> QED
      BY <1>1, <1>2, <1>4, <2>2, <2>4, <3>1 DEF Timed
  <2> QED
    BY <1>1, <2>3, <2>4
<1>9. Linked' = Linked \cup {a}
  <2>1. next[ListHead] # a
    BY <1>1 DEF IInv, ListWhole
  <2>2. next'[a] = next[ListHead] /\ \A c \in Alarm : c # a => next'[c] = next[c]
    BY <1>1, HeadAssumption DEF alt_llist_insert, Nodes
  <2> QED
    BY <2>1, <2>2 DEF Linked
<1>10. ASSUME NEW b \in Linked' PROVE b \in Ahead(next[ListHead])'
  <2> SUFFICES ASSUME NEW S \in SUBSET Nodes, next'[ListHead] \in S, Closed(S)' PROVE b \in S
    BY DEF Ahead, Linked
  <2>1. next'[ListHead] = a /\ next'[a] = next[ListHead]
    BY <1>1 DEF alt_llist_insert
  <2>2. next[ListHead] \in Nodes /\ next[ListHead] # a
    BY <1>1 DEF IInv, ListWhole
  <2>3. a \in S /\ next[ListHead] \in S
    BY <1>1, <2>1 DEF Closed
  <2>4. CASE b = a
    BY <2>3, <2>4
  <2>5. CASE b \in Linked
    <3>1. b \in Ahead(next[ListHead])
      BY <2>5 DEF OInv
    <3>2. \A x \in Nodes : x # a /\ b \in Ahead(x) => b \in Ahead(x)'
      BY <1>1, InsertAhead
    <3>3. \A T \in SUBSET Nodes : next[ListHead] \in T /\ Closed(T)' => b \in T
      BY <2>2, <3>1, <3>2 DEF Ahead
    <3> QED
      BY <2>3, <3>3
  <2> QED
    BY <1>9, <2>4, <2>5
<1>11. ASSUME NEW b \in Linked, b # a
       PROVE  Timed(b)' /\ (b \in Pending' => b \in Pending)
  BY <1>1, <1>4, <1>5, <1>11 DEF OInv, Timed, Pending, Linked
<1>12. a \notin Pending'
  BY <1>1, <1>2, <1>4, <1>8 DEF Pending
<1> QED
  BY <1>4, <1>8, <1>9, <1>10, <1>11, <1>12 DEF Pending

(* Whoever stops one takes it out of what is pending and keeps the rest in *)
(* the list.                                                               *)
LEMMA StopStep ==
  ASSUME OInv, NEW a \in Alarm, alt_llist_remove(a), Forget(a), nticks' = nticks
  PROVE  /\ left' \in [Alarm -> 0..(Wrap - 1)]
         /\ left'[a] = 0 /\ \A c \in Alarm : c # a => left'[c] = left[c]
         /\ Linked' = Linked \ {a}
         /\ Linked' \subseteq Ahead(next[ListHead])'
         /\ \A b \in Linked' : Timed(b)'
         /\ Pending' \subseteq Pending \ {a}
<1> DEFINE p == previous[a]
<1>1. /\ a \in Nodes /\ ListHead \in Nodes /\ a # ListHead
      /\ p \in Nodes /\ next[p] = a /\ next[a] \in Nodes /\ previous[next[a]] = a
      /\ next \in [Nodes -> Nodes] /\ IInv /\ Wrap \in Nat /\ Wrap > 0
  BY HeadAssumption, ClockAssumption DEF OInv, IInv, AlarmsTypeOK, Nodes, ListWhole
<1>2. /\ left' \in [Alarm -> 0..(Wrap - 1)] /\ left'[a] = 0
      /\ \A c \in Alarm : c # a =>
            left'[c] = left[c] /\ time'[c] = time[c] /\ rollover'[c] = rollover[c]
  BY <1>1 DEF Forget, OInv, IInv, AlarmsTypeOK
<1>3. /\ \A n \in Nodes : n \notin {a, p} => next'[n] = next[n]
      /\ next'[a] = a /\ next'[p] = next[a]
  BY <1>1 DEF alt_llist_remove
<1>4. \A n \in Nodes : n # p => next[n] # a
  BY <1>1 DEF IInv, ListWhole
<1>5. ASSUME NEW b \in Ahead(next[ListHead]), b # a PROVE b \in Ahead(next[ListHead])'
  <2> PICK h \in Nodes : h = IF next[ListHead] = a THEN next[a] ELSE next[ListHead]
    BY <1>1
  <2>1. next'[ListHead] = h
    BY <1>1, <1>3, <1>4
  <2>2. h # a
    BY <1>1, <1>4
  <2>3. b \in Ahead(h)
    BY <1>1, <1>5, StepAhead
  <2>4. b \in Ahead(h)'
    BY <1>1, <1>5, <2>2, <2>3, RemoveAhead
  <2> QED
    BY <2>1, <2>4 DEF Ahead
<1>6. Linked' \subseteq Linked \ {a}
  BY <1>1, <1>3 DEF Linked, Nodes
<1>7. ASSUME NEW b \in Linked, b # a PROVE b \in Linked'
  <2>1. b \in Nodes /\ b \in Alarm /\ next[b] # b
    BY DEF Linked, Nodes
  <2>2. CASE b # p
    BY <1>3, <1>7, <2>1, <2>2 DEF Linked
  <2>3. CASE b = p /\ next[a] # b
    BY <1>3, <1>7, <2>1, <2>3 DEF Linked
  <2>4. CASE b = p /\ next[a] = b
    <3> DEFINE S == Nodes \ {a, b}
    <3>1. \A n \in S : next[n] \in S
      BY <1>1, <1>4, <2>1, <2>4 DEF IInv, ListWhole
    <3>2. ListHead \in S
      BY <1>1, <2>1, HeadAssumption
    <3>3. Closed(S) /\ next[ListHead] \in S /\ S \in SUBSET Nodes
      BY <3>1, <3>2 DEF Closed
    <3>4. b \in S
      BY <3>3 DEF OInv, Ahead
    <3> QED
      BY <3>4
  <2> QED
    BY <2>2, <2>3, <2>4
<1>8. ASSUME NEW b \in Linked, b # a
      PROVE  Timed(b)' /\ (b \in Pending' => b \in Pending)
  BY <1>2, <1>8 DEF OInv, Timed, Pending, Linked
<1>9. \A b \in Linked' : b \in Ahead(next[ListHead])'
  BY <1>5, <1>6 DEF OInv
<1> QED
  BY <1>2, <1>6, <1>7, <1>8, <1>9 DEF Pending

LEMMA Types ==
  ASSUME OInv
  PROVE  /\ nticks \in 0..(Wrap - 1) /\ Wrap \in Nat /\ Wrap > 3
         /\ time \in [Alarm -> 0..(Wrap - 1)] /\ rollover \in [Alarm -> BOOLEAN]
         /\ left \in [Alarm -> 0..(Wrap - 1)]
         /\ next \in [Nodes -> Nodes] /\ ListHead \in Nodes /\ ListHead \notin Alarm
         /\ IInv
BY ClockAssumption, HeadAssumption DEF OInv, IInv, AlarmsTypeOK, ClockTypeOK, Nodes

(* From what is in the list, or the head, the walk comes to such again.    *)
LEMMA NextIsLinked ==
  ASSUME IInv, NEW x \in Linked \cup {ListHead}
  PROVE  next[x] \in Linked \cup {ListHead} /\ (x # ListHead => next[x] # x)
<1>1. x \in Nodes /\ next[x] \in Nodes /\ previous[next[x]] = x
  BY DEF IInv, AlarmsTypeOK, ListWhole, Linked, Nodes
<1>2. next[next[x]] = next[x] => next[x] = x
  BY <1>1 DEF IInv, ListWhole
<1> QED
  BY <1>1, <1>2, HeadAssumption DEF Linked, Nodes

LEMMA InitOInv == AlarmInit => OInv
<1> SUFFICES ASSUME AlarmInit PROVE OInv
  OBVIOUS
<1>1. Linked = {}
  BY DEF AlarmInit, Linked, Nodes
<1> QED
  BY <1>1, InitIInv, ClockAssumption DEF AlarmInit, OInv, Pending

(* A step that leaves links, times and the counter alone.                  *)
LEMMA SameList ==
  ASSUME OInv, UNCHANGED <<nticks, next, time, rollover, left>>
  PROVE  /\ left' \in [Alarm -> 0..(Wrap - 1)] /\ Linked' = Linked /\ Pending' = Pending
         /\ Linked' \subseteq Ahead(next[ListHead])' /\ \A a \in Linked' : Timed(a)'
         /\ \A x \in Nodes : Ahead(x)' = Ahead(x)
BY DEF OInv, Linked, Pending, Ahead, Closed, Timed

LEMMA TickKeepsOInv == ASSUME OInv, alt_tick, IInv' PROVE OInv'
<1>1. /\ UNCHANGED <<next, previous, time, rollover>> /\ nticks' = (nticks + 1) % Wrap
      /\ at = "idle" /\ at' = "walk" /\ alarm' = next[ListHead]
      /\ left' = [a \in Alarm |-> IF a \in Linked THEN left[a] - 1 ELSE 0]
  BY DEF alt_tick, Count, listEntries
<1>2. PICK m \in Nat : m = nticks + 1
  BY Types
<1>3. nticks' = IF m < Wrap THEN m ELSE m - Wrap
  BY <1>1, <1>2, Types, WrapOnce
<1>4. Linked' = Linked /\ \A x \in Nodes : Ahead(x)' = Ahead(x)
  BY <1>1 DEF Linked, Ahead, Closed
<1>5. \A a \in Linked : /\ left[a] > 0 /\ ~(rollover[a] /\ nticks + left[a] < Wrap)
                        /\ a \in Alarm
  BY <1>1, Types DEF OInv, Pending, Linked
<1>6. left' \in [Alarm -> 0..(Wrap - 1)]
  <2>1. ASSUME NEW a \in Alarm PROVE left'[a] \in 0..(Wrap - 1)
    BY <1>1, <1>5, Types
  <2> QED
    BY <1>1, <2>1
<1>7. ASSUME NEW a \in Linked PROVE Timed(a)'
  <2>1. left'[a] = left[a] - 1 /\ left[a] \in 1..(Wrap - 1)
    BY <1>1, <1>5, Types
  <2>2. Timed(a) /\ rollover[a] \in BOOLEAN /\ ~(rollover[a] /\ nticks + left[a] < Wrap)
    BY <1>5, Types DEF OInv
  <2>3. CASE m < Wrap
    BY <1>1, <1>2, <1>3, <2>1, <2>2, <2>3, Types DEF Timed
  <2>4. CASE m >= Wrap
    BY <1>1, <1>2, <1>3, <2>1, <2>2, <2>4, Types DEF Timed
  <2> QED
    BY <2>3, <2>4, Types
<1>8. next[ListHead] \in Linked \cup {ListHead} /\ next[ListHead] \in Nodes
  BY Types, NextIsLinked
<1>9. Linked' \subseteq Ahead(next[ListHead])' /\ Pending' \subseteq Ahead(alarm)'
  <2>1. Ahead(next[ListHead])' = Ahead(next[ListHead]) /\ Ahead(alarm)' = Ahead(next[ListHead])
    BY <1>1 DEF Ahead, Closed
  <2> QED
    BY <1>4, <2>1 DEF OInv, Pending
<1> QED
  BY <1>1, <1>4, <1>6, <1>7, <1>8, <1>9 DEF OInv

LEMMA VisitKeepsOInv == ASSUME OInv, Visit, IInv' PROVE OInv'
<1>1. /\ at = "walk" /\ alarm # ListHead /\ following' = next[alarm]
      /\ UNCHANGED <<nticks, next, previous, time, left>>
  BY DEF Visit, clock
<1>2. PICK c \in Alarm : c = alarm /\ c \in Linked /\ Pending \subseteq Ahead(c)
  BY <1>1 DEF OInv, Linked, Nodes
<1>3. PICK y \in Nodes : y = next[c] /\ y \in Linked \cup {ListHead} /\ y # c
  BY <1>1, <1>2, Types, NextIsLinked DEF Nodes
<1>4. Linked' = Linked /\ \A x \in Nodes : Ahead(x)' = Ahead(x)
  BY <1>1 DEF Linked, Ahead, Closed
<1>5. /\ rollover'[c] <=> rollover[c] /\ nticks # 0
      /\ \A a \in Alarm : a # c => rollover'[a] = rollover[a]
  BY <1>2, Types DEF Visit
<1>6. /\ Timed(c)' /\ ~(rollover'[c] /\ nticks + left[c] < Wrap)
      /\ time[c] <= nticks /\ ~rollover'[c] <=> left[c] = 0
  <2>1. Timed(c) /\ left[c] \in 0..(Wrap - 1) /\ time[c] \in 0..(Wrap - 1)
    BY <1>2, Types DEF OInv
  <2>2. CASE nticks + left[c] < Wrap
    BY <1>1, <1>5, <2>1, <2>2, Types DEF Timed
  <2>3. CASE nticks + left[c] >= Wrap
    BY <1>1, <1>5, <2>1, <2>3, Types DEF Timed
  <2> QED
    BY <2>1, <2>2, <2>3, Types
<1>7. ASSUME NEW a \in Linked, a # c
      PROVE  Timed(a)' /\ (a \in Pending' => a \in Pending)
  BY <1>1, <1>4, <1>5, <1>7 DEF OInv, Timed, Pending, Linked
<1>8. ASSUME NEW a \in Pending', a # c PROVE a \in Ahead(y)'
  <2>1. a \in Ahead(c)
    BY <1>2, <1>4, <1>7, <1>8 DEF Pending
  <2>2. a \in Ahead(y)
    BY <1>1, <1>2, <1>3, <1>8, <2>1, StepAhead DEF Nodes
  <2> QED
    BY <1>4, <2>2
<1>9. /\ left' \in [Alarm -> 0..(Wrap - 1)]
      /\ Linked' \subseteq Ahead(next[ListHead])' /\ \A a \in Linked' : Timed(a)'
  BY <1>1, <1>4, <1>6, <1>7, Types DEF OInv, Ahead, Closed
<1>10. CASE left[c] = 0
  <2>1. at' = "callback" /\ alarm' = c /\ following' = y /\ left'[c] = 0
    BY <1>1, <1>2, <1>3, <1>6, <1>10 DEF Visit
  <2>2. Pending' \subseteq Ahead(following)' \cup {c}
    BY <1>8, <2>1 DEF Ahead
  <2> QED
    BY <1>3, <1>4, <1>9, <2>1, <2>2 DEF OInv
<1>11. CASE left[c] # 0
  <2>1. at' = "walk" /\ alarm' = y
    BY <1>1, <1>2, <1>3, <1>6, <1>11 DEF Visit
  <2>2. c \notin Pending'
    BY <1>1, <1>6, <1>11 DEF Pending
  <2>3. Pending' \subseteq Ahead(alarm)'
    BY <1>8, <2>1, <2>2 DEF Ahead
  <2> QED
    BY <1>3, <1>4, <1>9, <2>1, <2>3 DEF OInv
<1> QED
  BY <1>10, <1>11

LEMMA ReturnKeepsOInv ==
  ASSUME OInv, NEW interval \in 0..MaxInterval, CallbackReturns(interval), IInv'
  PROVE  OInv'
<1>1. at = "callback" /\ at' = "walk" /\ alarm' = following /\ UNCHANGED nticks
  BY DEF CallbackReturns, clock
<1>2. PICK c \in Alarm : c = alarm /\ left[c] = 0
  BY <1>1 DEF OInv, IInv, AlarmsTypeOK
<1>3. PICK f \in Nodes : f = following /\ f \in Linked \cup {ListHead} /\ f # c
                        /\ Pending \subseteq Ahead(f) \cup {c}
  BY <1>1, <1>2 DEF OInv, Linked, Nodes
<1>4. SUFFICES /\ left' \in [Alarm -> 0..(Wrap - 1)] /\ f \in Linked' \cup {ListHead}
               /\ Linked' \subseteq Ahead(next[ListHead])' /\ \A a \in Linked' : Timed(a)'
               /\ \A a \in Pending' : a \in Ahead(f)'
  <2>1. Ahead(alarm)' = Ahead(f)'
    BY <1>1, <1>3 DEF Ahead
  <2> QED
    BY <1>1, <1>3, <2>1 DEF OInv
<1>5. CASE interval = 0
  <2>1. alt_llist_remove(c) /\ Forget(c)
    BY <1>2, <1>5 DEF CallbackReturns
  <2>2. ASSUME NEW a \in Pending' PROVE a \in Ahead(f)'
    <3>1. a # c /\ a \in Ahead(f)
      BY <1>1, <1>3, <2>1, StopStep
    <3> QED
      BY <1>3, <2>1, <3>1, RemoveAhead, Types
  <2> QED
    BY <1>1, <1>3, <2>1, <2>2, StopStep
<1>6. CASE interval # 0 /\ c \notin Linked
  <2>1. UNCHANGED <<nticks, next, time, rollover, left>>
    BY <1>1, <1>2, <1>3, <1>6 DEF CallbackReturns, listEntries
  <2> QED
    BY <1>3, <1>6, <2>1, SameList DEF Pending
<1>7. CASE interval # 0 /\ c \in Linked
  <2>1. /\ UNCHANGED <<next, previous>>
        /\ left' = [left EXCEPT ![c] = interval]
        /\ time' = [time EXCEPT ![c] = (time[c] + interval) % Wrap]
        /\ rollover' = [rollover EXCEPT ![c] = (time[c] + interval) % Wrap < nticks]
    BY <1>2, <1>7 DEF CallbackReturns
  <2>2. time[c] = nticks
    BY <1>2, <1>7, Types DEF OInv, Timed
  <2>3. interval \in 1..(Wrap - 1) /\ interval <= Wrap - 2
    BY <1>7, IntervalAssumption, Types
  <2>4. PICK m \in Nat : m = time[c] + interval
    BY <2>2, <2>3, Types
  <2>5. m % Wrap = IF m < Wrap THEN m ELSE m - Wrap
    BY <2>2, <2>3, <2>4, Types, WrapOnce
  <2>6. left' \in [Alarm -> 0..(Wrap - 1)] /\ left'[c] = interval
    BY <2>1, <2>3, Types
  <2>7. time'[c] = m % Wrap /\ (rollover'[c] <=> m % Wrap < nticks)
    BY <2>1, <2>4, Types
  <2>8. \A a \in Alarm : a # c => left'[a] = left[a] /\ time'[a] = time[a]
                                  /\ rollover'[a] = rollover[a]
    BY <2>1, Types
  <2>9. Timed(c)' /\ ~(rollover'[c] /\ nticks + left'[c] < Wrap)
    <3>1. nticks + left'[c] = m
      BY <2>2, <2>3, <2>4, <2>6, Types
    <3>2. CASE m < Wrap
      <4>1. time'[c] = m /\ ~rollover'[c]
        BY <2>2, <2>3, <2>4, <2>5, <2>7, <3>2, Types
      <4> QED
        BY <1>1, <2>3, <2>6, <3>1, <3>2, <4>1, Types DEF Timed
    <3>3. CASE m >= Wrap
      <4>1. time'[c] = m - Wrap /\ rollover'[c]
        BY <2>2, <2>3, <2>4, <2>5, <2>7, <3>3, Types
      <4> QED
        BY <1>1, <2>3, <2>6, <3>1, <3>3, <4>1, Types DEF Timed
    <3> QED
      BY <3>2, <3>3, Types
  <2>10. Linked' = Linked /\ \A x \in Nodes : Ahead(x)' = Ahead(x)
    BY <2>1 DEF Linked, Ahead, Closed
  <2>11. c \notin Pending'
    BY <1>1, <2>3, <2>6, <2>9 DEF Pending
  <2>12. ASSUME NEW a \in Linked, a # c
         PROVE  Timed(a)' /\ (a \in Pending' => a \in Pending)
    BY <1>1, <2>8, <2>12 DEF OInv, Timed, Pending, Linked
  <2>13. Linked' \subseteq Ahead(next[ListHead])'
    BY <2>1, <2>10 DEF OInv, Ahead, Closed
  <2> QED
    BY <1>3, <2>6, <2>9, <2>10, <2>11, <2>12, <2>13 DEF Pending
<1> QED
  BY <1>5, <1>6, <1>7

LEMMA StepOInv == OInv /\ [AlarmNext]_alarmVars => OInv'
<1> SUFFICES ASSUME OInv, [AlarmNext]_alarmVars PROVE OInv'
  OBVIOUS
<1>0. IInv'
  BY StepIInv DEF OInv, FreeNext
<1>1. CASE UNCHANGED alarmVars
  <2>1. UNCHANGED <<nticks, next, time, rollover, left, at, alarm, following>>
    BY <1>1 DEF alarmVars, clock, listEntries, walk
  <2>2. Ahead(alarm)' = Ahead(alarm) /\ Ahead(following)' = Ahead(following)
    BY <2>1 DEF Ahead, Closed
  <2> QED
    BY <1>0, <2>1, <2>2, SameList DEF OInv
<1>2. CASE SetRate
  <2>1. UNCHANGED <<nticks, next, time, rollover, left, at>> /\ at = "idle"
    BY <1>2 DEF SetRate, alt_sysclk_init, listEntries, walk
  <2> QED
    BY <1>0, <2>1, SameList DEF OInv
<1>3. CASE Call
  <2>1. at = "idle" /\ at' = "idle" /\ UNCHANGED nticks
    BY <1>3 DEF Call, alt_alarm_start, alt_alarm_stop, walk, clock
  <2>2. ASSUME NEW a \in Alarm, a \notin Linked, NEW n \in 0..MaxInterval, alt_alarm_start(a, n)
        PROVE  OInv'
    BY <1>0, <2>1, <2>2, StartStep DEF OInv
  <2>3. ASSUME NEW a \in Alarm, alt_alarm_stop(a)
        PROVE  OInv'
    BY <1>0, <2>1, <2>3, StopStep DEF OInv, alt_alarm_stop
  <2> QED
    BY <1>3, <2>2, <2>3 DEF Call
<1>4. CASE alt_tick
  BY <1>0, <1>4, TickKeepsOInv
<1>5. CASE CallbackCalls
  <2>1. at = "callback" /\ UNCHANGED <<nticks, at, alarm, following>>
    BY <1>5 DEF CallbackCalls, alt_alarm_start, alt_alarm_stop, walk, clock
  <2>2. PICK f \in Nodes : f = following /\ f \in Linked \cup {ListHead}
                          /\ Pending \subseteq Ahead(f) \cup {alarm}
    BY <2>1 DEF OInv, Linked, Nodes
  <2>3. Ahead(following)' = Ahead(f)' /\ alarm \in Alarm /\ left[alarm] = 0
    BY <2>1, <2>2 DEF Ahead, OInv, IInv, AlarmsTypeOK
  <2>4. ASSUME NEW a \in Alarm, a \notin Linked \cup {alarm}, NEW n \in 0..MaxInterval,
               alt_alarm_start(a, n)
        PROVE  OInv'
    <3>1. f # a /\ alt_llist_insert(a)
      BY <2>2, <2>4, HeadAssumption DEF alt_alarm_start
    <3>2. \A b \in Ahead(f) : b \in Ahead(f)'
      BY <2>4, <3>1, InsertAhead, Types
    <3>3. Pending' \subseteq Ahead(f)' \cup {alarm}
      BY <2>2, <2>4, <3>2, StartStep
    <3> QED
      BY <1>0, <2>1, <2>2, <2>3, <2>4, <3>3, StartStep DEF OInv
  <2>5. ASSUME NEW a \in Linked \ {following}, alt_alarm_stop(a)
        PROVE  OInv'
    <3>1. a \in Alarm /\ f # a /\ alt_llist_remove(a) /\ Forget(a)
      BY <2>2, <2>5 DEF alt_alarm_stop, Linked
    <3>2. \A b \in Ahead(f) : b # a => b \in Ahead(f)'
      BY <3>1, RemoveAhead, Types
    <3>3. Pending' \subseteq Ahead(f)' \cup {alarm}
      BY <2>1, <2>2, <3>1, <3>2, StopStep
    <3>4. left'[alarm] = 0
      BY <2>1, <2>3, <3>1, StopStep
    <3> QED
      BY <1>0, <2>1, <2>2, <2>3, <3>1, <3>3, <3>4, StopStep DEF OInv
  <2> QED
    BY <1>5, <2>4, <2>5 DEF CallbackCalls
<1>6. CASE Visit
  BY <1>0, <1>6, VisitKeepsOInv
<1>7. CASE TickEnds
  <2>1. /\ UNCHANGED <<nticks, next, time, rollover, left>>
        /\ at = "walk" /\ alarm = ListHead /\ at' = "idle"
    BY <1>7 DEF TickEnds, clock, listEntries
  <2>2. Pending = {}
    BY <2>1, NothingAheadOfHead DEF OInv
  <2> QED
    BY <1>0, <2>1, <2>2, SameList DEF OInv
<1>8. CASE \E interval \in 0..MaxInterval : CallbackReturns(interval)
  BY <1>0, <1>8, ReturnKeepsOInv
<1> QED
  BY <1>1, <1>2, <1>3, <1>4, <1>5, <1>6, <1>7, <1>8 DEF AlarmNext, Ticking

(* alt_alarm_start.c 79-95, alt_tick.c 99-137: an alarm is called at its   *)
(* tick, no sooner and no later, for every width of the counter and every  *)
(* order of starts and stops, by the program and by callbacks.             *)
THEOREM CalledOnTime == AlarmSpec => []OnTime
<1>1. OInv => OnTime
  <2> SUFFICES ASSUME OInv PROVE OnTime
    OBVIOUS
  <2>1. at = "idle" => \A a \in Linked : left[a] > 0
    BY Types DEF OInv, Pending, Linked
  <2> QED
    BY <2>1 DEF OInv, OnTime
<1> QED
  BY <1>1, InitOInv, StepOInv, PTL DEF AlarmSpec

(* alt_tick.c 95-141: as long as no callback stops the entry the walk goes *)
(* to next, it stands on registered entries only.                          *)
THEOREM WalkOnList == AlarmSpec => []WalksList
<1>1. OInv => WalksList
  BY DEF OInv, WalksList
<1> QED
  BY <1>1, InitOInv, StepOInv, PTL DEF AlarmSpec
===============================================================================
