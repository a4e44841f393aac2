---------------------------- MODULE Services_proofs ----------------------------
(***************************************************************************)
(* The services of the HAL for every size.  The time of day, the caches,   *)
(* the profiler, the log and the two small printf share no variable.  Each *)
(* has its own inductive invariant, the profiler two: for its memory and   *)
(* for its counts.                                                         *)
(***************************************************************************)
EXTENDS TimeOfDay, Cache, Profile, LogReports, Printf, SequenceTheorems, FiniteSetTheorems, TLAPS

(***************************************************************************)
(* Whole numbers.  The provers know division by what it leaves over.       *)
(***************************************************************************)
LEMMA Product == ASSUME NEW a \in Nat, NEW b \in Nat PROVE a * b \in Nat /\ a * b = b * a
OBVIOUS

LEMMA Zero == ASSUME NEW a \in Nat PROVE 0 * a = 0 /\ (a > 0 => 0 % a = 0)
<1>1. 0 = 0 * a + 0
  OBVIOUS
<1> QED
  BY <1>1

LEMMA Monotone ==
  ASSUME NEW a \in Nat, NEW b \in Nat, NEW w \in Nat, a <= b
  PROVE  a * w \in Nat /\ b * w \in Nat /\ a * w <= b * w
<1>1. PICK d \in Nat : b = a + d
  <2>1. b - a \in Nat /\ b = a + (b - a)
    OBVIOUS
  <2> QED
    BY <2>1
<1>2. b * w = a * w + d * w /\ a * w \in Nat /\ d * w \in Nat /\ b * w \in Nat
  BY <1>1
<1> QED
  BY <1>2

LEMMA Apart1 ==
  ASSUME NEW w \in Nat, NEW a \in Nat, NEW b \in Nat, a < b
  PROVE  a * w \in Nat /\ b * w \in Nat /\ a * w + w <= b * w
<1>1. (a + 1) * w <= b * w /\ (a + 1) * w \in Nat /\ b * w \in Nat
  BY Monotone
<1>2. (a + 1) * w = a * w + w /\ a * w \in Nat
  OBVIOUS
<1> QED
  BY <1>1, <1>2

LEMMA Split ==
  ASSUME NEW a \in Nat, NEW b \in Nat, b > 0
  PROVE  /\ a \div b \in Nat /\ a % b \in Nat /\ a % b < b
         /\ (a \div b) * b \in Nat /\ a = (a \div b) * b + (a % b)
<1>1. a \div b \in Nat /\ a % b \in 0..(b - 1) /\ a = b * (a \div b) + (a % b)
  OBVIOUS
<1>2. b * (a \div b) = (a \div b) * b /\ (a \div b) * b \in Nat
  BY <1>1, Product
<1> QED
  BY <1>1, <1>2

LEMMA Unique ==
  ASSUME NEW a \in Nat, NEW b \in Nat, NEW q \in Nat, NEW s \in Nat, s < b, a = q * b + s
  PROVE  a \div b = q /\ a % b = s
<1>1. /\ a \div b \in Nat /\ a % b \in Nat /\ a % b < b
      /\ (a \div b) * b \in Nat /\ a = (a \div b) * b + (a % b)
  BY Split
<1>2. CASE a \div b < q
  <2>1. (a \div b) * b + b <= q * b /\ q * b \in Nat
    BY <1>1, <1>2, Apart1
  <2> QED
    BY <1>1, <2>1
<1>3. CASE q < a \div b
  <2>1. q * b + b <= (a \div b) * b /\ q * b \in Nat
    BY <1>1, <1>3, Apart1
  <2> QED
    BY <1>1, <2>1
<1>4. CASE a \div b = q
  <2>1. q * b \in Nat
    BY Product
  <2> QED
    BY <1>1, <1>4, <2>1
<1> QED
  BY <1>1, <1>2, <1>3, <1>4

-------------------------------------------------------------------------------
(***************************************************************************)
(* The time of day.  A second has a whole number of ticks, so the seconds  *)
(* and microseconds of a number of ticks are those ticks' microseconds.    *)
(***************************************************************************)
LEMMA WholeTicks ==
  ASSUME NEW r \in Rates
  PROVE  /\ r \in Nat /\ r > 0 /\ US \in Nat /\ US > 0
         /\ US \div r \in Nat /\ (US \div r) * r = US
<1>1. r \in Nat /\ r > 0 /\ US \in Nat /\ US > 0 /\ US % r = 0
  BY ClockAssumption, RateAssumption
<1>2. US \div r \in Nat /\ (US \div r) * r \in Nat /\ US = (US \div r) * r + (US % r)
  BY <1>1, Split
<1> QED
  BY <1>1, <1>2

LEMMA TicksSplit ==
  ASSUME NEW r \in Rates, NEW n \in Nat
  PROVE  /\ n \div r \in Nat /\ n * (US \div r) \in Nat
         /\ (n * (US \div r)) % US \in 0..(US - 1)
         /\ (n \div r) * US \in Nat
         /\ (n \div r) * US + ((n * (US \div r)) % US) = n * (US \div r)
<1> DEFINE U == US \div r
           q == n \div r
           m == n % r
<1>1. r \in Nat /\ r > 0 /\ US \in Nat /\ US > 0 /\ U \in Nat /\ U * r = US
  BY WholeTicks
<1>2. q \in Nat /\ m \in Nat /\ m < r /\ q * r \in Nat /\ n = q * r + m
  BY <1>1, Split
<1> HIDE DEF U, q, m
<1>3. n * U = q * US + m * U
  <2>1. (q * r + m) * U = q * (U * r) + m * U
    BY <1>1, <1>2
  <2> QED
    BY <1>1, <1>2, <2>1
<1>4. U > 0
  BY <1>1
<1>5. m * U < US /\ m * U \in Nat
  <2>1. m * U + U <= r * U /\ m * U \in Nat /\ r * U = U * r
    BY <1>1, <1>2, Apart1, Product
  <2> QED
    BY <1>1, <1>4, <2>1
<1>6. n * U \in Nat /\ q * US \in Nat
  BY <1>1, <1>2, Product
<1>7. (n * U) % US = m * U
  <2> DEFINE N == n * U
             M == m * U
  <2>1. N \in Nat /\ M \in Nat /\ M < US /\ N = q * US + M
    BY <1>3, <1>5, <1>6
  <2> HIDE DEF N, M
  <2>2. N % US = M
    BY <1>1, <1>2, <2>1, Unique
  <2> QED
    BY <2>2 DEF N, M
<1> QED
  BY <1>1, <1>2, <1>3, <1>5, <1>6, <1>7 DEF U, q

(* As long as the set time counts, what is stored is the set time without  *)
(* the ticks there were by then.  Before the clock starts all is zero.     *)
Timing ==
  /\ ClockTypeOK
  /\ alt_resettime \in [sec : Int, usec : Int]
  /\ set \in [micros : Int, ticks : Nat]
  /\ tick_rate = 0 => nticks = 0 /\ alt_resettime = [sec |-> 0, usec |-> 0]
                      /\ set = [micros |-> 0, ticks |-> 0]
  /\ set # Never /\ tick_rate # 0 =>
       /\ Micros(alt_resettime) = set.micros - set.ticks * UsPerTick
       /\ alt_resettime.usec > -US /\ alt_resettime.usec < US
       /\ set.micros >= 0 /\ set.ticks <= nticks

(* The sleeper: the turns are those of the last argument.                  *)
Sleeping == asked \in Nat /\ (slept = Turns(asked) \/ (asked = 0 /\ slept = 0))

LEMMA DivisorOf == tick_rate \in Rates => UsPerTick = US \div tick_rate
BY DEF UsPerTick

LEMMA InitTiming == DayInit => Timing /\ Sleeping
BY ClockAssumption DEF DayInit, ClockInit, Timing, Sleeping, ClockTypeOK, Never

LEMMA SetTiming ==
  ASSUME Timing, NEW t \in Times, alt_settimeofday(t)
  PROVE  Timing'
<1>1. /\ nticks \in Nat /\ tick_rate \in Rates /\ tick_rate # 0
      /\ nticks' = nticks /\ tick_rate' = tick_rate
      /\ alt_resettime' = [sec  |-> t.sec - nticks \div tick_rate,
                           usec |-> t.usec - (((nticks * UsPerTick) % Wrap) % US)]
      /\ set' = IF nticks * UsPerTick < Wrap THEN [micros |-> Micros(t), ticks |-> nticks]
                ELSE Never
  BY ClockAssumption DEF Timing, ClockTypeOK, alt_settimeofday, clock
<1> DEFINE N == nticks * UsPerTick
           q == nticks \div tick_rate
           k == N % US
<1>2. /\ q \in Nat /\ N \in Nat /\ k \in 0..(US - 1) /\ q * US \in Nat /\ q * US + k = N
  BY <1>1, TicksSplit DEF UsPerTick
<1>3. /\ US \in Nat /\ US > 0 /\ UsPerTick \in Nat
  BY <1>1, WholeTicks DEF UsPerTick
<1>4. t.sec \in Nat /\ t.usec \in 0..(US - 1)
  BY TimesAssumption
<1> HIDE DEF N, q, k
<1>5. ClockTypeOK'
  BY <1>1 DEF Timing, ClockTypeOK
<1>6. /\ t.sec * US \in Nat /\ Micros(t) \in Nat
  BY <1>3, <1>4, Product DEF Micros
<1>7. (N % Wrap) \in Nat /\ ((N % Wrap) % US) \in Nat
  BY <1>2, <1>3, Split, ClockAssumption
<1>8. alt_resettime' \in [sec : Int, usec : Int]
  BY <1>1, <1>2, <1>4, <1>7 DEF q, N
<1>9. set' \in [micros : Int, ticks : Nat]
  BY <1>1, <1>6 DEF Never
<1>10. CASE N < Wrap
  <2>1. N % Wrap = N
    BY <1>2, <1>10, ClockAssumption
  <2>2. alt_resettime' = [sec |-> t.sec - q, usec |-> t.usec - k]
    BY <1>1, <2>1 DEF q, N, k
  <2>3. (t.sec - q) * US + (t.usec - k) = Micros(t) - N
    <3>1. (t.sec - q) * US = t.sec * US - q * US
      BY <1>2, <1>3, <1>4
    <3> QED
      BY <1>2, <1>3, <1>4, <1>6, <3>1 DEF Micros
  <2>4. set' = [micros |-> Micros(t), ticks |-> nticks]
    BY <1>1, <1>10 DEF N
  <2>5. UsPerTick' = UsPerTick
    BY <1>1 DEF UsPerTick
  <2>6. Micros(alt_resettime') = set'.micros - set'.ticks * UsPerTick'
    BY <2>2, <2>3, <2>4, <2>5 DEF Micros, N
  <2>7. alt_resettime'.usec > -US /\ alt_resettime'.usec < US
    BY <1>2, <1>3, <1>4, <2>2
  <2>8. set'.micros >= 0 /\ set'.ticks <= nticks'
    BY <1>1, <1>6, <2>4
  <2> QED
    BY <1>1, <1>5, <1>8, <1>9, <2>6, <2>7, <2>8 DEF Timing, Micros
<1>11. CASE ~(N < Wrap)
  <2>1. set' = Never
    BY <1>1, <1>11 DEF N
  <2> QED
    BY <1>1, <1>5, <1>8, <1>9, <2>1 DEF Timing, Never
<1> QED
  BY <1>10, <1>11

LEMMA StepTiming == Timing /\ [DayNext]_dayVars => Timing'
<1> SUFFICES ASSUME Timing, [DayNext]_dayVars PROVE Timing'
  OBVIOUS
<1>1. CASE UNCHANGED <<clock, alt_resettime, set>>
  BY <1>1 DEF Timing, clock, ClockTypeOK, Micros, UsPerTick
<1>2. ASSUME NEW rate \in Rates, alt_sysclk_init(rate), UNCHANGED <<alt_resettime, set>>
      PROVE  Timing'
  <2>1. /\ tick_rate = 0 /\ tick_rate' = rate /\ nticks' = nticks /\ rate # 0
        /\ nticks = 0 /\ alt_resettime' = [sec |-> 0, usec |-> 0]
        /\ set' = [micros |-> 0, ticks |-> 0]
    BY <1>2, ClockAssumption DEF alt_sysclk_init, Timing
  <2>2. US \in Nat /\ US > 0 /\ UsPerTick' \in Nat
    BY <2>1, WholeTicks DEF UsPerTick
  <2>3. 0 * US = 0
    BY <2>2, Zero
  <2>4. /\ alt_resettime'.sec = 0 /\ alt_resettime'.usec = 0
        /\ set'.micros = 0 /\ set'.ticks = 0
    BY <2>1
  <2>5. alt_resettime'.sec * US + alt_resettime'.usec = 0
    BY <2>2, <2>3, <2>4
  <2>6. set'.micros - set'.ticks * UsPerTick' = 0
    <3> DEFINE u == UsPerTick'
    <3>1. u \in Nat
      BY <2>2
    <3> HIDE DEF u
    <3>2. set'.micros - set'.ticks * u = 0
      BY <2>4, <3>1, Zero
    <3> QED
      BY <3>2 DEF u
  <2>7. ClockTypeOK'
    BY <1>2, <2>1, ClockAssumption DEF Timing, ClockTypeOK
  <2>8. alt_resettime' \in [sec : Int, usec : Int] /\ set' \in [micros : Int, ticks : Nat]
    BY <2>1
  <2>9. 0 > -US /\ 0 < US /\ 0 <= nticks'
    BY <2>1, <2>2
  <2> QED
    BY <2>1, <2>4, <2>5, <2>6, <2>7, <2>8, <2>9 DEF Timing, Micros
<1>3. CASE Tick
  <2>1. /\ tick_rate # 0 /\ tick_rate' = tick_rate /\ nticks' = (nticks + 1) % Wrap
        /\ set' = IF nticks' = 0 THEN Never ELSE set
        /\ alt_resettime' = alt_resettime
    BY <1>3 DEF Tick, Count
  <2>2. nticks \in 0..(Wrap - 1) /\ Wrap \in Nat /\ Wrap > 3
    BY ClockAssumption DEF Timing, ClockTypeOK
  <2>3. nticks' \in 0..(Wrap - 1) /\ (nticks' # 0 => nticks' = nticks + 1)
    <3>1. CASE nticks + 1 < Wrap
      BY <2>1, <2>2, <3>1
    <3>2. CASE nticks + 1 = Wrap
      BY <2>1, <2>2, <3>2
    <3> QED
      BY <2>2, <3>1, <3>2
  <2>4. set' \in [micros : Int, ticks : Nat] /\ (set' # Never => set' = set /\ nticks' = nticks + 1)
    BY <2>1, <2>3 DEF Timing, Never
  <2>5. UsPerTick' = UsPerTick
    BY <2>1 DEF UsPerTick
  <2>6. set' # Never => set'.ticks <= nticks' /\ set # Never
    BY <2>1, <2>2, <2>4 DEF Timing
  <2> QED
    BY <2>1, <2>3, <2>4, <2>5, <2>6 DEF Timing, ClockTypeOK, Micros
<1>4. ASSUME NEW t \in Times, alt_settimeofday(t) PROVE Timing'
  BY <1>4, SetTiming
<1> QED
  BY <1>1, <1>2, <1>3, <1>4 DEF DayNext, StartClock, usleep, dayVars

(* Carrying keeps the microseconds.                                        *)
LEMMA CarryKeeps ==
  ASSUME NEW s \in Int, NEW m \in Int, US \in Nat, US > 0, m > -US, m < 2 * US,
         s * US + m >= 0
  PROVE  Micros(Carried(s, m)) = s * US + m /\ Carried(s, m).usec \in 0..(US - 1)
<1>1. CASE m < 0 /\ s <= 0
  <2>1. s * US <= 0
    <3>1. -s \in Nat /\ (-s) * US \in Nat /\ (-s) * US = -(s * US) /\ s * US \in Int
      BY <1>1
    <3> QED
      BY <3>1
  <2>2. s * US \in Int
    OBVIOUS
  <2> QED
    BY <1>1, <2>1, <2>2
<1>2. CASE m < 0 /\ ~(s <= 0)
  <2>1. (s - 1) * US + (m + US) = s * US + m
    OBVIOUS
  <2> QED
    BY <1>2, <2>1 DEF Carried, Micros
<1>3. CASE m >= US
  <2>1. (s + 1) * US + (m - US) = s * US + m
    OBVIOUS
  <2> QED
    BY <1>3, <2>1 DEF Carried, Micros
<1>4. CASE m >= 0 /\ m < US
  BY <1>4 DEF Carried, Micros
<1> QED
  BY <1>1, <1>2, <1>3, <1>4

(* gettimeofday gives the time that was set and the ticks since, in        *)
(* seconds and microseconds (alt_gettod.c lines 82 to 104).                *)
THEOREM TimeIsKept == DaySpec => []KeepsTime
<1>1. ASSUME Timing, set # Never, tick_rate # 0
      PROVE  /\ Micros(Now) = set.micros + (nticks - set.ticks) * UsPerTick
             /\ Now.usec \in 0..(US - 1)
  <2> DEFINE N == nticks * UsPerTick
             q == nticks \div tick_rate
             k == N % US
             s == alt_resettime.sec
             m == alt_resettime.usec
  <2>1. nticks \in Nat /\ tick_rate \in Rates /\ s \in Int /\ m \in Int
        /\ set.micros \in Int /\ set.ticks \in Nat
    BY <1>1, ClockAssumption DEF Timing, ClockTypeOK
  <2>2. /\ q \in Nat /\ N \in Nat /\ k \in 0..(US - 1) /\ q * US \in Nat /\ q * US + k = N
    BY <2>1, TicksSplit DEF UsPerTick
  <2>3. /\ US \in Nat /\ US > 0 /\ UsPerTick \in Nat
    BY <2>1, WholeTicks DEF UsPerTick
  <2>4. /\ s * US + m = set.micros - set.ticks * UsPerTick
        /\ m > -US /\ m < US /\ set.micros >= 0 /\ set.ticks <= nticks
    BY <1>1 DEF Timing, Micros
  <2>5. Now = Carried(s + q, m + k)
    BY DEF Now
  <2>6. set.ticks * UsPerTick \in Nat /\ set.ticks * UsPerTick <= N
    BY <2>1, <2>3, <2>4, Monotone DEF N
  <2>7. (nticks - set.ticks) * UsPerTick = N - set.ticks * UsPerTick
    BY <2>1, <2>3 DEF N
  <2> HIDE DEF N, q, k, s, m
  <2>8. (s + q) * US + (m + k) = set.micros - set.ticks * UsPerTick + N
    <3>1. (s + q) * US = s * US + q * US /\ s * US \in Int
      BY <2>1, <2>2, <2>3
    <3> QED
      BY <2>1, <2>2, <2>3, <2>4, <2>6, <3>1
  <2>9. s + q \in Int /\ m + k \in Int /\ m + k > -US /\ m + k < 2 * US
    BY <2>1, <2>2, <2>3, <2>4
  <2>10. (s + q) * US + (m + k) >= 0
    BY <2>1, <2>2, <2>4, <2>6, <2>8
  <2>11. /\ Micros(Carried(s + q, m + k)) = (s + q) * US + (m + k)
         /\ Carried(s + q, m + k).usec \in 0..(US - 1)
    BY <2>3, <2>9, <2>10, CarryKeeps
  <2>12. set.micros - set.ticks * UsPerTick + N = set.micros + (N - set.ticks * UsPerTick)
    BY <2>1, <2>2, <2>6
  <2> QED
    BY <2>5, <2>7, <2>8, <2>11, <2>12
<1>2. Timing => KeepsTime
  BY <1>1 DEF KeepsTime
<1> QED
  BY <1>2, InitTiming, StepTiming, PTL DEF DaySpec

LEMMA StepSleeping == Sleeping /\ [DayNext]_dayVars => Sleeping'
BY SleepAssumption DEF Sleeping, DayNext, StartClock, Tick, alt_settimeofday, usleep, dayVars, Turns

(* usleep turns its loops as often as the microseconds ask for, and at     *)
(* most one microsecond more for each whole loop, but for a multiple of    *)
(* the longest loop (alt_busy_sleep.c lines 78 to 130).                    *)
THEOREM LongEnough == DaySpec => []SleepsAsAsked
<1>1. ASSUME NEW us \in Nat
      PROVE  /\ Turns(us) >= us * LoopsPerUs
             /\ us % Big # 0 => Turns(us) <= (us + us \div Big) * LoopsPerUs
  <2> DEFINE L == LoopsPerUs
             e == IntMax % L
             n == us \div Big
             rest == us % Big
  <2>1. L \in Nat /\ L > 0 /\ IntMax \in Nat /\ IntMax >= L
    BY SleepAssumption
  <2>2. Big \in Nat /\ e \in Nat /\ e < L /\ Big * L \in Nat /\ IntMax = Big * L + e
    BY <2>1, Split DEF Big
  <2>3. Big > 0
    BY <2>1, <2>2
  <2>4. n \in Nat /\ rest \in Nat /\ rest < Big /\ n * Big \in Nat /\ us = n * Big + rest
    BY <2>2, <2>3, Split
  <2> HIDE DEF L, e, n, rest
  <2>5. /\ rest * L \in Nat /\ n * (Big * L) \in Nat /\ n * e \in Nat /\ n * L \in Nat
        /\ us * L \in Nat /\ n * IntMax \in Nat
    BY <2>1, <2>2, <2>4, Product
  <2>6. us * L = n * (Big * L) + rest * L
    <3>1. (n * Big + rest) * L = n * (Big * L) + rest * L
      BY <2>1, <2>2, <2>4
    <3> QED
      BY <2>4, <3>1
  <2>7. n * IntMax = n * (Big * L) + n * e
    BY <2>1, <2>2, <2>4
  <2>8. n * e <= n * L
    <3>1. e * n <= L * n /\ e * n = n * e /\ L * n = n * L
      BY <2>1, <2>2, <2>4, Monotone, Product
    <3> QED
      BY <3>1
  <2>9. (us + n) * L = us * L + n * L
    BY <2>1, <2>4
  <2>10. rest # 0 => rest * L > 0
    <3>1. rest # 0 => 1 * L <= rest * L
      BY <2>1, <2>4, Monotone
    <3> QED
      BY <2>1, <2>5, <3>1
  <2>11. CASE n > 0
    <3>1. Turns(us) = n * IntMax + UntilZero(rest * L)
      BY <2>11 DEF Turns, n, rest, L
    <3>2. UntilZero(rest * L) \in Nat /\ UntilZero(rest * L) >= rest * L
          /\ (rest # 0 => UntilZero(rest * L) = rest * L)
      BY <2>1, <2>5, <2>10 DEF UntilZero
    <3>3. Turns(us) >= us * L
      BY <2>5, <2>6, <2>7, <3>1, <3>2
    <3>4. rest # 0 => Turns(us) <= (us + n) * L
      BY <2>5, <2>6, <2>7, <2>8, <2>9, <3>1, <3>2
    <3> QED
      BY <3>3, <3>4 DEF n, rest, L
  <2>12. CASE n = 0
    <3>1. Turns(us) = UntilNotMore(us * L)
      BY <2>12 DEF Turns, n, L
    <3>2. us = rest
      BY <2>2, <2>4, <2>12, Zero
    <3>3. UntilNotMore(us * L) >= us * L /\ (rest # 0 => UntilNotMore(us * L) = us * L)
      BY <2>5, <2>10, <3>2 DEF UntilNotMore
    <3>4. us * L <= (us + n) * L
      BY <2>5, <2>9
    <3> QED
      BY <2>5, <3>1, <3>3, <3>4 DEF n, rest, L
  <2> QED
    BY <2>4, <2>11, <2>12
<1>2. Sleeping => SleepsAsAsked
  <2>1. 0 * LoopsPerUs = 0 /\ 0 % Big = 0
    <3>1. LoopsPerUs \in Nat /\ IntMax \in Nat /\ IntMax >= LoopsPerUs /\ LoopsPerUs > 0
      BY SleepAssumption
    <3>2. Big \in Nat /\ (IntMax % LoopsPerUs) < LoopsPerUs /\ Big * LoopsPerUs \in Nat
          /\ IntMax = Big * LoopsPerUs + (IntMax % LoopsPerUs) /\ IntMax % LoopsPerUs \in Nat
      BY <3>1, Split DEF Big
    <3>3. Big > 0
      BY <3>1, <3>2
    <3> QED
      BY <3>1, <3>2, <3>3, Zero
  <2> QED
    BY <1>1, <2>1 DEF Sleeping, SleepsAsAsked
<1> QED
  BY <1>2, InitTiming, StepSleeping, PTL DEF DaySpec

-------------------------------------------------------------------------------
(***************************************************************************)
(* The log.  What is echoed is a copy of at most EchoLen characters, and   *)
(* one more.                                                               *)
(***************************************************************************)
LEMMA EchoOf ==
  ASSUME NEW V, "nl" \in V, "D" \in V, NEW s \in Seq(V), NEW n \in Nat, 2 <= n, n <= Len(s)
  PROVE  LET line == NoCtrlD([SubSeq(s, 1, n) EXCEPT ![n] = "nl"]) IN
           line \in Seq(V) /\ Len(line) = n /\ \A i \in 1..n : line[i] # "ctrl-D"
<1> DEFINE sub == SubSeq(s, 1, n)
           part == [sub EXCEPT ![n] = "nl"]
           line == NoCtrlD(part)
<1>1. sub \in Seq(V) /\ Len(sub) = n
  BY ElementOfSeq, SubSeqProperties
<1> HIDE DEF sub
<1>2. part \in Seq(V) /\ Len(part) = n
  BY <1>1, ExceptSeq
<1>3. \A i \in 1..n : part[i] \in V
  BY <1>2, ElementOfSeq
<1> HIDE DEF part
<1>4. line = [i \in 1..n |-> IF part[i] = "ctrl-D" THEN "D" ELSE part[i]]
  BY <1>2 DEF NoCtrlD
<1> HIDE DEF line
<1>5. line \in [1..n -> V]
  BY <1>3, <1>4
<1>6. line \in Seq(V) /\ Len(line) = n
  BY <1>4, <1>5
<1>7. \A i \in 1..n : line[i] # "ctrl-D"
  BY <1>4
<1> QED
  BY <1>6, <1>7 DEF line, part, sub

LEMMA WriteSafe ==
  ASSUME NEW s \in Buffers, alt_log_write(s) PROVE EchoIsSafe'
<1> DEFINE V == {s[i] : i \in DOMAIN s} \cup {"nl", "D", "cr"}
           n == EchoedLength(s)
           line == NoCtrlD([SubSeq(s, 1, n) EXCEPT ![n] = "nl"])
<1>1. s \in Seq(V) /\ "nl" \in V /\ "D" \in V /\ "cr" \in V /\ EchoLen \in Nat
  <2>1. s \in Seq({s[i] : i \in DOMAIN s})
    BY ReportAssumption
  <2>2. {s[i] : i \in DOMAIN s} \subseteq V
    OBVIOUS
  <2> HIDE DEF V
  <2>3. s \in Seq(V)
    BY <2>1, <2>2, SeqMonotonic
  <2> QED
    BY <2>3, ReportAssumption DEF V
<1> HIDE DEF V
<1>2. n \in Nat /\ 2 <= n /\ n <= Len(s) /\ n <= EchoLen
  <2>1. Len(s) \in Nat
    BY <1>1
  <2> QED
    BY <1>1, <2>1 DEF alt_log_write, EchoedLength
<1>3. echo' = Append(line, "cr")
  BY DEF alt_log_write
<1> HIDE DEF n
<1>4. line \in Seq(V) /\ Len(line) = n /\ \A i \in 1..n : line[i] # "ctrl-D"
  BY <1>1, <1>2, EchoOf
<1> HIDE DEF line
<1>5. /\ Len(echo') = n + 1 /\ echo'[n + 1] = "cr"
      /\ \A i \in 1..n : echo'[i] = line[i]
  BY <1>1, <1>3, <1>4, AppendProperties
<1>6. ASSUME NEW i \in 1..(n + 1) PROVE echo'[i] # "ctrl-D"
  BY <1>2, <1>4, <1>5
<1> QED
  BY <1>1, <1>2, <1>5, <1>6 DEF EchoIsSafe

(* What is echoed fits the buffer of EchoLen + 2 characters, with the zero *)
(* at its end, and holds no ctrl-D (alt_log_printf.c lines 440 to 462).    *)
THEOREM EchoFits == ReportSpec => []EchoIsSafe
<1>1. ReportInit => EchoIsSafe
  BY DEF ReportInit, EchoIsSafe
<1>2. EchoIsSafe /\ [ReportNext]_reportVars => EchoIsSafe'
  <2>1. ASSUME EchoIsSafe, UNCHANGED echo PROVE EchoIsSafe'
    BY <2>1 DEF EchoIsSafe
  <2> QED
    BY <2>1, WriteSafe DEF ReportNext, SetFlag, ReportTick, reportVars
<1> QED
  BY <1>1, <1>2, PTL DEF ReportSpec

-------------------------------------------------------------------------------
(***************************************************************************)
(* The caches.  A byte that is old in memory and not given up is in a      *)
(* dirty line, so it comes back when the line goes; a byte that is old in  *)
(* a line was given up, or is flash's, and flash's lines are never dirty.  *)
(***************************************************************************)
DataSide ==
  /\ memOld \subseteq Address /\ memOld \cap Bytes(Flash) = {}
  /\ dirty \subseteq cached /\ dirty \cap Flash = {}
  /\ \A j, k \in cached : j % DLines = k % DLines => j = k
  /\ cacheOld \subseteq Bytes(cached)
  /\ cacheOld \subseteq discarded \cup Bytes(Flash)
  /\ memOld \ discarded \subseteq Bytes(dirty)
  /\ discarded \cap Bytes(Code) = {}
  /\ cacheOld \cap Bytes(Flash) \subseteq failed

(* Uncached blocks are of whole lines, none of them in the cache.          *)
WholeBlock(b) ==
  /\ b \in [first : Nat, size : Nat, bypass : BOOLEAN]
  /\ b.first % LineSize = 0 /\ b.size % LineSize = 0
BlockSide ==
  /\ \A b \in allocated : WholeBlock(b)
  /\ Uncached \cap Bytes(cached) = {}
  /\ ~Running => allocated = {}

(* What is executed has been copied, then written back, then flushed from  *)
(* the instruction cache.                                                  *)
CodeSide ==
  /\ loading \in [at : {"copy", "icache", "run"}, left : SUBSET Bytes(Code)]
  /\ icached \subseteq Code /\ icacheOld \subseteq Bytes(icached)
  /\ \A j, k \in icached : j % ILines = k % ILines => j = k
  /\ loading.at # "copy" => memOld \cap Bytes(Code) = {}
  /\ Running => icacheOld \cap Bytes(Code) = {}

Coherent == DataSide /\ BlockSide /\ CodeSide

LEMMA CacheSizes ==
  /\ LineSize \in Nat /\ LineSize > 0 /\ DLines \in Nat /\ DLines > 0
  /\ ILines \in Nat /\ ILines > 0 /\ Block \in Nat /\ Block > 0
  /\ Ram \subseteq Nat /\ Code \subseteq Nat /\ Flash \subseteq Nat
  /\ Block % LineSize = 0
  /\ Ram \cap Code = {} /\ Ram \cap Flash = {} /\ Code \cap Flash = {}
BY CacheAssumption

LEMMA InLine ==
  ASSUME NEW a \in Nat
  PROVE  /\ Line(a) \in Nat /\ a % LineSize \in Nat /\ a % LineSize < LineSize
         /\ Line(a) * LineSize \in Nat /\ a = Line(a) * LineSize + (a % LineSize)
BY CacheSizes, Split DEF Line

(* A byte is below a line's first byte just when its line is below.        *)
LEMMA LineBelow ==
  ASSUME NEW a \in Nat, NEW m \in Nat
  PROVE  m * LineSize \in Nat /\ (a < m * LineSize <=> Line(a) < m)
<1> DEFINE q == Line(a)
           s == a % LineSize
<1>1. q \in Nat /\ s \in Nat /\ s < LineSize /\ q * LineSize \in Nat /\ a = q * LineSize + s
  BY InLine
<1> HIDE DEF q, s
<1>2. LineSize \in Nat /\ m * LineSize \in Nat
  BY CacheSizes, Product
<1>3. CASE q < m
  <2>1. q * LineSize + LineSize <= m * LineSize
    BY <1>1, <1>2, <1>3, Apart1
  <2> QED
    BY <1>1, <1>2, <1>3, <2>1 DEF q
<1>4. CASE m <= q
  <2>1. m * LineSize <= q * LineSize
    BY <1>1, <1>2, <1>4, Monotone
  <2> QED
    BY <1>1, <1>2, <1>4, <2>1 DEF q
<1> QED
  BY <1>1, <1>3, <1>4

LEMMA LinePlus ==
  ASSUME NEW a \in Nat, NEW k \in Nat
  PROVE  (a + k * LineSize) \div LineSize = Line(a) + k
<1> DEFINE q == Line(a)
           s == a % LineSize
           b == a + k * LineSize
           m == q + k
<1>1. q \in Nat /\ s \in Nat /\ s < LineSize /\ q * LineSize \in Nat /\ a = q * LineSize + s
  BY InLine
<1> HIDE DEF q, s
<1>2. LineSize \in Nat /\ LineSize > 0 /\ k * LineSize \in Nat
  BY CacheSizes, Product
<1>3. (q + k) * LineSize = q * LineSize + k * LineSize
  BY <1>1, <1>2
<1>4. b \in Nat /\ m \in Nat /\ b = m * LineSize + s
  BY <1>1, <1>2, <1>3
<1> HIDE DEF b, m
<1>5. b \div LineSize = m
  BY <1>1, <1>2, <1>4, Unique
<1> QED
  BY <1>5 DEF b, m, q

LEMMA FirstOfLine ==
  ASSUME NEW l \in Nat
  PROVE  l * LineSize \in Nat /\ Line(l * LineSize) = l /\ (l * LineSize) % LineSize = 0
<1> DEFINE a == l * LineSize
<1>1. a \in Nat /\ a = l * LineSize + 0 /\ LineSize \in Nat /\ 0 < LineSize
  BY CacheSizes, Product
<1> HIDE DEF a
<1>2. a \div LineSize = l /\ a % LineSize = 0
  BY <1>1, Unique
<1> QED
  BY <1>1, <1>2 DEF a, Line

LEMMA AddressIs ==
  ASSUME NEW a \in Address PROVE a \in Nat /\ Line(a) \in Ram \cup Code \cup Flash
<1>1. PICK l \in Ram \cup Code \cup Flash, k \in 0..(LineSize - 1) : a = l * LineSize + k
  BY DEF Address
<1>2. l \in Nat /\ k \in Nat /\ k < LineSize /\ LineSize \in Nat
  BY <1>1, CacheSizes
<1>3. a \in Nat
  BY <1>1, <1>2, Product
<1>4. a \div LineSize = l
  BY <1>1, <1>2, <1>3, Unique
<1> QED
  BY <1>3, <1>4 DEF Line

LEMMA BytesAre ==
  ASSUME NEW lines, NEW a PROVE a \in Bytes(lines) <=> a \in Address /\ Line(a) \in lines
BY DEF Bytes, Line

-------------------------------------------------------------------------------
(* The turns of a flush's loop cover the length.                           *)
LEMMA TurnsCover ==
  ASSUME NEW len \in Nat
  PROVE  /\ LineTurns(len) \in Nat /\ LineTurns(len) * LineSize \in Nat
         /\ len <= LineTurns(len) * LineSize
<1> DEFINE n == len + LineSize - 1
<1>1. LineSize \in Nat /\ LineSize > 0 /\ n \in Nat
  BY CacheSizes
<1>2. /\ n \div LineSize \in Nat /\ n % LineSize \in Nat /\ n % LineSize < LineSize
      /\ (n \div LineSize) * LineSize \in Nat
      /\ n = (n \div LineSize) * LineSize + (n % LineSize)
  <2> HIDE DEF n
  <2> QED
    BY <1>1, Split
<1> QED
  BY <1>1, <1>2 DEF LineTurns

LastTurn(start, len) == IF start % LineSize = 0 THEN LineTurns(len) - 1 ELSE LineTurns(len)

LEMMA WalkedIs ==
  ASSUME NEW start \in Nat, NEW len \in Nat, NEW l
  PROVE  l \in Walked(start, len) <=> \E k \in Nat : k <= LastTurn(start, len) /\ l = Line(start) + k
<1>1. LastTurn(start, len) \in Int
  BY TurnsCover DEF LastTurn
<1>2. Walked(start, len) = {(start + k * LineSize) \div LineSize : k \in 0..LastTurn(start, len)}
  BY DEF Walked, LastTurn
<1>3. \A k \in 0..LastTurn(start, len) : k \in Nat /\ (start + k * LineSize) \div LineSize = Line(start) + k
  BY <1>1, LinePlus
<1>4. \A k \in Nat : k <= LastTurn(start, len) => k \in 0..LastTurn(start, len)
  BY <1>1
<1>5. \A k \in 0..LastTurn(start, len) : k <= LastTurn(start, len)
  BY <1>1
<1> HIDE DEF LastTurn
<1> QED
  BY <1>2, <1>3, <1>4, <1>5

(* Every line with a byte of the region is gone through.                   *)
LEMMA WalkReaches ==
  ASSUME NEW start \in Nat, NEW len \in Nat, NEW a \in Region(start, len)
  PROVE  a \in Nat /\ Line(a) \in Walked(start, len)
<1>1. a \in Nat /\ start <= a /\ a < start + len
  BY DEF Region
<1> DEFINE q == Line(start)
           s == start % LineSize
           T == LineTurns(len)
<1>2. /\ q \in Nat /\ s \in Nat /\ s < LineSize /\ q * LineSize \in Nat
      /\ start = q * LineSize + s /\ Line(a) \in Nat
  BY <1>1, InLine
<1>3. T \in Nat /\ T * LineSize \in Nat /\ len <= T * LineSize /\ LineSize \in Nat
  BY TurnsCover, CacheSizes
<1>4. (s = 0) <=> (LastTurn(start, len) = T - 1)
  BY <1>3 DEF LastTurn, s
<1>5. s # 0 => LastTurn(start, len) = T
  BY DEF LastTurn, s
<1> HIDE DEF q, s, T
<1>6. q <= Line(a)
  <2>1. ~(a < q * LineSize)
    BY <1>1, <1>2
  <2>2. ~(Line(a) < q)
    BY <1>1, <1>2, <2>1, LineBelow
  <2> QED
    BY <1>2, <2>2
<1>7. CASE s = 0
  <2>1. (q + T) * LineSize = q * LineSize + T * LineSize /\ q + T \in Nat
    BY <1>2, <1>3
  <2>2. a < (q + T) * LineSize
    BY <1>1, <1>2, <1>3, <1>7, <2>1
  <2>3. Line(a) < q + T
    BY <1>1, <2>1, <2>2, LineBelow
  <2>4. Line(a) - q \in Nat /\ Line(a) - q <= T - 1 /\ Line(a) = q + (Line(a) - q)
    BY <1>2, <1>3, <1>6, <2>3
  <2> QED
    BY <1>1, <1>4, <1>7, <2>4, WalkedIs DEF q
<1>8. CASE s # 0
  <2>1. (q + T + 1) * LineSize = q * LineSize + T * LineSize + LineSize /\ q + T + 1 \in Nat
    BY <1>2, <1>3
  <2>2. a < (q + T + 1) * LineSize
    BY <1>1, <1>2, <1>3, <2>1
  <2>3. Line(a) < q + T + 1
    BY <1>1, <2>1, <2>2, LineBelow
  <2>4. Line(a) - q \in Nat /\ Line(a) - q <= T /\ Line(a) = q + (Line(a) - q)
    BY <1>2, <1>3, <1>6, <2>3
  <2> QED
    BY <1>1, <1>5, <1>8, <2>4, WalkedIs DEF q
<1> QED
  BY <1>7, <1>8

(* A region of whole lines: only its own bytes are gone through, and a     *)
(* line is in it with all its bytes or with none.                          *)
LEMMA WholeTurns ==
  ASSUME NEW len \in Nat, len % LineSize = 0
  PROVE  LineTurns(len) * LineSize = len /\ LineTurns(len) \in Nat
<1> DEFINE t == len \div LineSize
           n == len + LineSize - 1
<1>1. LineSize \in Nat /\ LineSize > 0 /\ t \in Nat /\ t * LineSize = len
  BY CacheSizes, Split
<1> HIDE DEF t
<1>2. n \in Nat /\ n = t * LineSize + (LineSize - 1) /\ LineSize - 1 \in Nat /\ LineSize - 1 < LineSize
  BY <1>1
<1> HIDE DEF n
<1>3. n \div LineSize = t
  BY <1>1, <1>2, Unique
<1> QED
  BY <1>1, <1>3 DEF LineTurns, n

LEMMA WholeRegion ==
  ASSUME NEW start \in Nat, NEW len \in Nat, start % LineSize = 0, len % LineSize = 0,
         NEW a \in Nat
  PROVE  a \in Region(start, len) <=> /\ Line(start) <= Line(a)
                                      /\ Line(a) < Line(start) + LineTurns(len)
<1> DEFINE q == Line(start)
           T == LineTurns(len)
<1>1. q \in Nat /\ q * LineSize \in Nat /\ start = q * LineSize /\ Line(a) \in Nat
  <2>1. start = Line(start) * LineSize + (start % LineSize) /\ Line(start) * LineSize \in Nat
    BY InLine
  <2>2. Line(start) \in Nat /\ Line(a) \in Nat
    BY InLine
  <2> QED
    BY <2>1, <2>2
<1>2. T \in Nat /\ T * LineSize = len /\ LineSize \in Nat
  BY WholeTurns, CacheSizes
<1> HIDE DEF q, T
<1>3. q + T \in Nat /\ (q + T) * LineSize = start + len
  <2>1. (q + T) * LineSize = q * LineSize + T * LineSize
    BY <1>1, <1>2
  <2> QED
    BY <1>1, <1>2, <2>1
<1>4. a < start <=> Line(a) < q
  BY <1>1, LineBelow
<1>5. a < start + len <=> Line(a) < q + T
  BY <1>3, LineBelow
<1>6. a \in Region(start, len) <=> ~(a < start) /\ a < start + len
  BY DEF Region
<1>7. ~(Line(a) < q) <=> q <= Line(a)
  BY <1>1
<1> QED
  BY <1>4, <1>5, <1>6, <1>7 DEF q, T

LEMMA WholeWalk ==
  ASSUME NEW start \in Nat, NEW len \in Nat, start % LineSize = 0, len % LineSize = 0,
         NEW a \in Nat, Line(a) \in Walked(start, len)
  PROVE  a \in Region(start, len)
<1>1. PICK k \in Nat : k <= LineTurns(len) - 1 /\ Line(a) = Line(start) + k
  BY WalkedIs DEF LastTurn
<1>2. Line(start) \in Nat /\ LineTurns(len) \in Nat
  BY InLine, TurnsCover
<1>3. Line(start) <= Line(a) /\ Line(a) < Line(start) + LineTurns(len)
  BY <1>1, <1>2
<1> QED
  BY <1>3, WholeRegion

(* Any ILines lines that follow each other reach every index.              *)
LEMMA Residue ==
  ASSUME NEW base \in Nat, NEW l \in Nat, NEW n \in Nat, n > 0
  PROVE  \E k \in Nat : k < n /\ (base + k) % n = l % n
<1> DEFINE q == base \div n
           b == base % n
           m == l % n
<1>1. q \in Nat /\ b \in Nat /\ b < n /\ q * n \in Nat /\ base = q * n + b /\ m \in Nat /\ m < n
  BY Split
<1> HIDE DEF q, b, m
<1>2. CASE b <= m
  <2>1. m - b \in Nat /\ m - b < n /\ base + (m - b) \in Nat /\ base + (m - b) = q * n + m
    BY <1>1, <1>2
  <2>2. (base + (m - b)) % n = m
    BY <1>1, <2>1, Unique
  <2> QED
    BY <2>1, <2>2 DEF m
<1>3. CASE m < b
  <2> DEFINE k == m + n - b
  <2>1. k \in Nat /\ k < n /\ base + k \in Nat /\ base + k = (q + 1) * n + m /\ q + 1 \in Nat
    <3>1. (q + 1) * n = q * n + n
      BY <1>1
    <3> QED
      BY <1>1, <1>3, <3>1
  <2> HIDE DEF k
  <2>2. (base + k) % n = m
    BY <1>1, <2>1, Unique
  <2> QED
    BY <2>1, <2>2 DEF m
<1> QED
  BY <1>1, <1>2, <1>3

LEMMA WholeCache ==
  ASSUME NEW start \in Nat, NEW l \in Nat
  PROVE  \E k \in Walked(start, ILines * LineSize) : k % ILines = l % ILines
<1> DEFINE n == ILines * LineSize
<1>1. n \in Nat /\ n % LineSize = 0 /\ ILines \in Nat /\ ILines > 0 /\ LineSize \in Nat /\ LineSize > 0
  BY CacheSizes, FirstOfLine, Product
<1>2. LineTurns(n) = ILines
  <2>1. LineTurns(n) \in Nat /\ LineTurns(n) * LineSize = ILines * LineSize
    BY <1>1, WholeTurns
  <2>2. CASE LineTurns(n) < ILines
    BY <1>1, <2>1, <2>2, Apart1
  <2>3. CASE ILines < LineTurns(n)
    BY <1>1, <2>1, <2>3, Apart1
  <2> QED
    BY <1>1, <2>1, <2>2, <2>3
<1> HIDE DEF n
<1>3. Line(start) \in Nat
  BY InLine
<1>4. PICK k \in Nat : k < ILines /\ (Line(start) + k) % ILines = l % ILines
  BY <1>1, <1>3, Residue
<1>5. k <= LastTurn(start, n)
  BY <1>1, <1>2, <1>4 DEF LastTurn
<1>6. Line(start) + k \in Walked(start, n)
  BY <1>1, <1>5, WalkedIs
<1> QED
  BY <1>4, <1>6 DEF n

LEMMA FlushIReaches ==
  ASSUME NEW start \in Nat, NEW len \in Nat, NEW a \in Region(start, len), Line(a) \in icached
  PROVE  Line(a) \in IWalked(start, len)
<1>1. a \in Nat /\ Line(a) \in Walked(start, len)
  BY WalkReaches
<1>2. Line(a) \in Nat
  BY <1>1, InLine
<1>3. CASE len > ILines * LineSize
  BY <1>2, <1>3, WholeCache DEF IWalked
<1>4. CASE ~(len > ILines * LineSize)
  BY <1>1, <1>4 DEF IWalked
<1> QED
  BY <1>3, <1>4

LEMMA FlushAllI ==
  ASSUME icached \subseteq Nat PROVE IWalked(0, ILines * LineSize) = icached
<1>1. \A l \in icached : \E k \in Walked(0, ILines * LineSize) : k % ILines = l % ILines
  BY WholeCache
<1> QED
  BY <1>1 DEF IWalked

LEMMA RegionIs ==
  ASSUME NEW r \in Regions PROVE r.start \in Nat /\ r.len \in Nat /\ Region(r.start, r.len) \subseteq Address
BY AddressIs, CacheAssumption DEF Regions

-------------------------------------------------------------------------------
(* One step of the data side.  Lines go, written back or not.              *)
LEMMA BytesSets ==
  ASSUME NEW A, NEW B
  PROVE  /\ Bytes(A \cup B) = Bytes(A) \cup Bytes(B)
         /\ Bytes(A \ B) = Bytes(A) \ Bytes(B)
         /\ Bytes(A \cap B) = Bytes(A) \cap Bytes(B)
         /\ A \cap B = {} => Bytes(A) \cap Bytes(B) = {}
         /\ A \subseteq B => Bytes(A) \subseteq Bytes(B)
         /\ Bytes(A) \subseteq Address
BY DEF Bytes

LEMMA Regions3 == Bytes(Ram) \cap Bytes(Code) = {} /\ Bytes(Ram) \cap Bytes(Flash) = {}
                  /\ Bytes(Code) \cap Bytes(Flash) = {}
BY CacheSizes, BytesSets

(* What is written back is only what was given up.                         *)
LEMMA WriteBack ==
  ASSUME DataSide, NEW lines
  PROVE  /\ WrittenBack(lines) \subseteq Address /\ WrittenBack(lines) \cap Bytes(Flash) = {}
         /\ WrittenBack(lines) \subseteq memOld \cup discarded
         /\ WrittenBack(lines) \ discarded \subseteq Bytes(dirty \ lines)
<1>1. /\ memOld \subseteq Address /\ memOld \cap Bytes(Flash) = {} /\ cacheOld \subseteq Address
      /\ dirty \cap Flash = {} /\ cacheOld \subseteq discarded \cup Bytes(Flash)
      /\ memOld \ discarded \subseteq Bytes(dirty)
  BY BytesSets DEF DataSide
<1>2. Bytes(lines \cap dirty) \cap Bytes(Flash) = {}
  BY <1>1, BytesSets
<1>3. Bytes(dirty \ lines) = Bytes(dirty) \ Bytes(lines \cap dirty)
  BY DEF Bytes
<1> QED
  BY <1>1, <1>2, <1>3 DEF WrittenBack

LEMMA FlushData ==
  ASSUME DataSide, NEW lines, Drop(lines), memOld' = WrittenBack(lines),
         discarded' = discarded, cacheOld \cap Bytes(Flash) \cap Bytes(cached \ lines) \subseteq failed'
  PROVE  DataSide'
<1>1. /\ memOld' \subseteq Address /\ memOld' \cap Bytes(Flash) = {}
      /\ memOld' \ discarded' \subseteq Bytes(dirty')
  BY WriteBack DEF Drop
<1>2. /\ dirty' \subseteq cached' /\ dirty' \cap Flash = {}
      /\ \A j, k \in cached' : j % DLines = k % DLines => j = k
  BY DEF DataSide, Drop
<1>3. cacheOld' \subseteq Bytes(cached') /\ cacheOld' \subseteq cacheOld
  <2>1. cacheOld' = cacheOld \ Bytes(lines) /\ cached' = cached \ lines /\ cacheOld \subseteq Bytes(cached)
    BY DEF DataSide, Drop
  <2>2. Bytes(cached \ lines) = Bytes(cached) \ Bytes(lines)
    BY BytesSets
  <2> QED
    BY <2>1, <2>2
<1>4. cacheOld' \cap Bytes(Flash) \subseteq failed'
  BY <1>3 DEF Drop
<1> QED
  BY <1>1, <1>2, <1>3, <1>4 DEF DataSide, Bytes

LEMMA DropData ==
  ASSUME DataSide, NEW lines, Drop(lines), memOld' = memOld, failed' = failed,
         discarded \subseteq discarded', memOld \cap Bytes(lines) \subseteq discarded',
         discarded' \cap Bytes(Code) = {}
  PROVE  DataSide'
<1>1. /\ cacheOld' = cacheOld \ Bytes(lines) /\ cached' = cached \ lines /\ dirty' = dirty \ lines
  BY DEF Drop
<1>2. /\ Bytes(cached \ lines) = Bytes(cached) \ Bytes(lines)
      /\ Bytes(dirty \ lines) = Bytes(dirty) \ Bytes(lines)
  BY BytesSets
<1>3. cacheOld' \subseteq Bytes(cached') /\ memOld' \ discarded' \subseteq Bytes(dirty')
  BY <1>1, <1>2 DEF DataSide
<1>4. cacheOld' \subseteq discarded' \cup Bytes(Flash) /\ cacheOld' \cap Bytes(Flash) \subseteq failed'
  BY <1>1 DEF DataSide
<1>5. /\ dirty' \subseteq cached' /\ dirty' \cap Flash = {}
      /\ \A j, k \in cached' : j % DLines = k % DLines => j = k
  BY <1>1 DEF DataSide
<1> QED
  BY <1>3, <1>4, <1>5 DEF DataSide, Bytes

(* A line comes in and another goes.                                       *)
LEMMA FillData ==
  ASSUME DataSide, NEW l
  PROVE  /\ FillOld(l) \subseteq Bytes((cached \ Evicted(l)) \cup {l})
         /\ FillOld(l) \subseteq discarded \cup Bytes(Flash) \cup (memOld \cap Bytes({l}))
         /\ FillOld(l) \cap Bytes(Flash) \subseteq failed
<1> DEFINE gone == Evicted(l)
<1>1. l \in cached => gone = {}
  BY DEF DataSide, Evicted
<1>2. Bytes((cached \ gone) \cup {l}) = (Bytes(cached) \ Bytes(gone)) \cup Bytes({l})
  BY DEF Bytes
<1>3. /\ WrittenBack(gone) \subseteq memOld \cup discarded
      /\ WrittenBack(gone) \cap Bytes(Flash) = {}
  BY WriteBack
<1>4. /\ cacheOld \subseteq Bytes(cached) /\ cacheOld \subseteq discarded \cup Bytes(Flash)
      /\ cacheOld \cap Bytes(Flash) \subseteq failed /\ dirty \subseteq cached
  BY DEF DataSide
<1> HIDE DEF gone
<1>5. FillOld(l) = IF l \in cached THEN cacheOld
                   ELSE (cacheOld \ Bytes(gone)) \cup (WrittenBack(gone) \cap Bytes({l}))
  BY DEF FillOld, gone
<1>6. FillOld(l) \subseteq Bytes((cached \ gone) \cup {l})
  BY <1>1, <1>2, <1>4, <1>5
<1>7. FillOld(l) \cap Bytes(Flash) \subseteq failed
  BY <1>3, <1>4, <1>5
<1> QED
  BY <1>3, <1>4, <1>5, <1>6, <1>7 DEF gone

LEMMA CachedOne ==
  ASSUME DataSide, NEW l, cached' = (cached \ Evicted(l)) \cup {l}
  PROVE  \A j, k \in cached' : j % DLines = k % DLines => j = k
BY DEF DataSide, Evicted

LEMMA ReadData ==
  ASSUME DataSide, NEW a \in Address, Read(a), failed' = failed PROVE DataSide'
<1> DEFINE l == Line(a)
           gone == Evicted(l)
<1>1. /\ memOld' = WrittenBack(gone) /\ cached' = (cached \ gone) \cup {l} /\ dirty' = dirty \ gone
      /\ cacheOld' = FillOld(l) /\ discarded' = discarded
  BY DEF Read
<1> HIDE DEF l
<1>2. \A j, k \in cached' : j % DLines = k % DLines => j = k
  BY <1>1, CachedOne
<1>3. /\ memOld' \subseteq Address /\ memOld' \cap Bytes(Flash) = {}
      /\ memOld' \ discarded' \subseteq Bytes(dirty')
  BY <1>1, WriteBack
<1>4. /\ cacheOld' \subseteq Bytes(cached') /\ cacheOld' \cap Bytes(Flash) \subseteq failed'
  BY <1>1, FillData
<1>5. dirty' \subseteq cached' /\ dirty' \cap Flash = {}
  BY <1>1 DEF DataSide
<1>6. cacheOld' \subseteq discarded' \cup Bytes(Flash)
  <2>1. CASE l \in cached
    BY <1>1, <2>1 DEF DataSide, FillOld
  <2>2. CASE l \notin cached
    <3>1. memOld \cap Bytes({l}) \subseteq discarded
      BY <2>2 DEF DataSide, Bytes
    <3> QED
      BY <1>1, <3>1, FillData
  <2> QED
    BY <2>1, <2>2
<1> QED
  BY <1>1, <1>2, <1>3, <1>4, <1>5, <1>6 DEF DataSide, Bytes

LEMMA WriteData ==
  ASSUME DataSide, NEW a \in Address, Line(a) \notin Flash, Write(a), failed' = failed
  PROVE  DataSide'
<1> DEFINE l == Line(a)
           gone == Evicted(l)
<1>1. /\ memOld' = WrittenBack(gone) \cup {a} /\ cached' = (cached \ gone) \cup {l}
      /\ dirty' = (dirty \ gone) \cup {l}
      /\ cacheOld' = FillOld(l) \ {a} /\ discarded' = discarded \ {a}
  BY DEF Write
<1>2. l \notin Flash /\ a \notin Bytes(Flash) /\ a \in Bytes({l})
  BY DEF Bytes, Line
<1> HIDE DEF l
<1>3. \A j, k \in cached' : j % DLines = k % DLines => j = k
  BY <1>1, CachedOne
<1>4. /\ Bytes((dirty \ gone) \cup {l}) = Bytes(dirty \ gone) \cup Bytes({l})
  BY BytesSets
<1>5. /\ memOld' \subseteq Address /\ memOld' \cap Bytes(Flash) = {}
      /\ memOld' \ discarded' \subseteq Bytes(dirty')
  BY <1>1, <1>2, <1>4, WriteBack
<1>6. /\ cacheOld' \subseteq Bytes(cached') /\ cacheOld' \cap Bytes(Flash) \subseteq failed'
  BY <1>1, FillData
<1>7. dirty' \subseteq cached' /\ dirty' \cap Flash = {}
  BY <1>1, <1>2 DEF DataSide
<1>8. FillOld(l) \subseteq discarded \cup Bytes(Flash)
  <2>1. CASE l \in cached
    BY <2>1 DEF DataSide, FillOld
  <2>2. CASE l \notin cached
    <3>1. memOld \cap Bytes({l}) \subseteq discarded
      BY <2>2 DEF DataSide, Bytes
    <3> QED
      BY <3>1, FillData
  <2> QED
    BY <2>1, <2>2
<1>9. cacheOld' \subseteq discarded' \cup Bytes(Flash) /\ discarded' \cap Bytes(Code) = {}
  BY <1>1, <1>8 DEF DataSide
<1> QED
  BY <1>3, <1>5, <1>6, <1>7, <1>9 DEF DataSide, Bytes

-------------------------------------------------------------------------------
(* Blocks and lines.                                                       *)
LEMMA BlockApart ==
  ASSUME BlockSide, NEW a \in Address, a \notin Uncached PROVE Uncached \cap Bytes({Line(a)}) = {}
<1> SUFFICES ASSUME NEW c \in Uncached, c \in Bytes({Line(a)}) PROVE FALSE
  OBVIOUS
<1>1. PICK b \in allocated : b.bypass /\ c \in Region(b.first, b.size)
  BY DEF Uncached, BlockBytes
<1>2. b.first \in Nat /\ b.size \in Nat /\ b.first % LineSize = 0 /\ b.size % LineSize = 0
  BY <1>1 DEF BlockSide, WholeBlock
<1>3. c \in Nat /\ a \in Nat /\ Line(c) = Line(a)
  BY AddressIs, BytesAre
<1>4. a \in Region(b.first, b.size)
  BY <1>1, <1>2, <1>3, WholeRegion
<1> QED
  BY <1>1, <1>4 DEF Uncached, BlockBytes

LEMMA FewerLines ==
  ASSUME BlockSide, allocated' = allocated, loading' = loading,
         Bytes(cached') \cap Uncached = {}
  PROVE  BlockSide'
BY DEF BlockSide, Uncached, Running, WholeBlock, BlockBytes, Bytes

LEMMA CodeKept ==
  ASSUME DataSide, CodeSide, loading' = loading, memOld' \cap Bytes(Code) \subseteq memOld \cup discarded,
         icached' = icached, icacheOld' \subseteq Bytes(icached'),
         icacheOld' \cap Bytes(Code) \subseteq icacheOld
  PROVE  CodeSide'
<1>1. memOld \cap Bytes(Code) = {} => memOld' \cap Bytes(Code) = {}
  BY DEF DataSide
<1> QED
  BY <1>1 DEF CodeSide, Running, Bytes

LEMMA AddressBytes == ASSUME NEW lines, NEW a \in Bytes(lines) PROVE a \in Address /\ Line(a) \in lines
BY BytesAre

LEMMA LoadStep == ASSUME Coherent, Load PROVE Coherent'
<1>1. PICK a \in Address \ Uncached : Read(a) /\ UNCHANGED <<allocated, failed, loading>>
  BY DEF Load
<1>2. DataSide'
  BY <1>1, ReadData DEF Coherent
<1>3. BlockSide'
  <2>1. cached' \subseteq cached \cup {Line(a)}
    BY <1>1 DEF Read
  <2>2. Bytes(cached') \subseteq Bytes(cached) \cup Bytes({Line(a)})
    BY <2>1 DEF Bytes
  <2>3. Uncached \cap Bytes({Line(a)}) = {}
    BY <1>1, BlockApart DEF Coherent
  <2> QED
    BY <1>1, <2>2, <2>3, FewerLines DEF Coherent, BlockSide
<1>4. CodeSide'
  <2>1. memOld' \subseteq memOld \cup discarded
    BY <1>1, WriteBack DEF Read, Coherent
  <2>2. icached' = icached /\ icacheOld' = icacheOld
    BY <1>1 DEF Read, iside
  <2> QED
    BY <1>1, <2>1, <2>2, CodeKept DEF Coherent, CodeSide
<1> QED
  BY <1>2, <1>3, <1>4 DEF Coherent

LEMMA StoreStep == ASSUME Coherent, Store PROVE Coherent'
<1>1. PICK a \in Bytes(Ram) \ Uncached : Write(a) /\ UNCHANGED <<allocated, failed, loading>>
  BY DEF Store
<1>2. a \in Address /\ Line(a) \in Ram /\ a \notin Bytes(Code)
  BY <1>1, AddressBytes, Regions3
<1>3. DataSide'
  BY <1>1, <1>2, WriteData, CacheSizes DEF Coherent
<1>4. BlockSide'
  <2>1. cached' \subseteq cached \cup {Line(a)}
    BY <1>1 DEF Write
  <2>2. Bytes(cached') \subseteq Bytes(cached) \cup Bytes({Line(a)})
    BY <2>1 DEF Bytes
  <2>3. Uncached \cap Bytes({Line(a)}) = {}
    BY <1>1, <1>2, BlockApart DEF Coherent
  <2> QED
    BY <1>1, <2>2, <2>3, FewerLines DEF Coherent, BlockSide
<1>5. CodeSide'
  <2>1. memOld' \subseteq memOld \cup discarded \cup {a}
    BY <1>1, WriteBack DEF Write, Coherent
  <2>2. icached' = icached /\ icacheOld' = icacheOld \cup (Bytes(icached) \cap {a})
    BY <1>1 DEF Write
  <2>3. icacheOld' \subseteq Bytes(icached')
    BY <2>2 DEF Coherent, CodeSide
  <2> QED
    BY <1>1, <1>2, <2>1, <2>2, <2>3, CodeKept DEF Coherent
<1> QED
  BY <1>3, <1>4, <1>5 DEF Coherent

LEMMA StoreUncachedStep == ASSUME Coherent, StoreUncached PROVE Coherent'
<1>1. PICK a \in Uncached :
        /\ memOld' = memOld \ {a}
        /\ cacheOld' = cacheOld \cup (Bytes(cached) \cap {a})
        /\ discarded' = discarded \ {a}
        /\ UNCHANGED <<cached, dirty, iside, allocated, failed, loading>>
  BY DEF StoreUncached
<1>2. a \notin Bytes(cached) /\ a \notin cacheOld /\ cacheOld' = cacheOld
  BY <1>1 DEF Coherent, BlockSide, DataSide
<1>3. DataSide'
  BY <1>1, <1>2 DEF Coherent, DataSide, Bytes
<1>4. BlockSide'
  BY <1>1, FewerLines DEF Coherent, BlockSide
<1>5. CodeSide'
  BY <1>1, CodeKept DEF Coherent, CodeSide, iside
<1> QED
  BY <1>3, <1>4, <1>5 DEF Coherent

LEMMA FetchStep == ASSUME Coherent, Fetch PROVE Coherent'
<1>1. PICK l \in Code :
        LET gone == {k \in icached \ {l} : k % ILines = l % ILines} IN
        /\ icached' = (icached \ gone) \cup {l}
        /\ icacheOld' = IF l \in icached THEN icacheOld
                        ELSE (icacheOld \ Bytes(gone)) \cup (memOld \cap Bytes({l}))
  BY DEF Fetch
<1> DEFINE gone == {k \in icached \ {l} : k % ILines = l % ILines}
<1>2. UNCHANGED <<dside, allocated, ghosts, loading>>
  BY DEF Fetch
<1>3. DataSide' /\ BlockSide'
  BY <1>2 DEF Coherent, DataSide, BlockSide, Uncached, Running, WholeBlock, BlockBytes, Bytes, dside, ghosts
<1>4. \A j, k \in icached' : j % ILines = k % ILines => j = k
  BY <1>1 DEF Coherent, CodeSide
<1>5. l \in icached => gone = {}
  BY DEF Coherent, CodeSide
<1>6. /\ icached' = (icached \ gone) \cup {l}
      /\ icacheOld' = IF l \in icached THEN icacheOld
                      ELSE (icacheOld \ Bytes(gone)) \cup (memOld \cap Bytes({l}))
  BY <1>1
<1> HIDE DEF gone
<1>7. icacheOld' \subseteq Bytes(icached')
  <2>1. Bytes((icached \ gone) \cup {l}) = (Bytes(icached) \ Bytes(gone)) \cup Bytes({l})
    BY DEF Bytes
  <2> QED
    BY <1>5, <1>6, <2>1 DEF Coherent, CodeSide, Bytes
<1>8. Running => icacheOld' \cap Bytes(Code) = {}
  BY <1>6 DEF Coherent, CodeSide, Running
<1>9. icached' \subseteq Code /\ loading' = loading /\ memOld' = memOld
  BY <1>2, <1>6 DEF Coherent, CodeSide, dside
<1> QED
  BY <1>3, <1>4, <1>7, <1>8, <1>9 DEF Coherent, CodeSide, Running, Bytes

-------------------------------------------------------------------------------
(* The flushes, of the program and of the start.                           *)
LEMMA FlushStep ==
  ASSUME Coherent, NEW start, NEW len, alt_dcache_flush(start, len),
         UNCHANGED <<iside, allocated, ghosts, loading>>
  PROVE  Coherent'
<1> DEFINE lines == Walked(start, len)
<1>1. Drop(lines) /\ memOld' = WrittenBack(lines) /\ discarded' = discarded /\ failed' = failed
  BY DEF alt_dcache_flush, ghosts
<1> HIDE DEF lines
<1>2. DataSide'
  BY <1>1, FlushData DEF Coherent, DataSide
<1>3. BlockSide'
  <2>1. cached' \subseteq cached
    BY <1>1 DEF Drop
  <2>2. Bytes(cached') \subseteq Bytes(cached)
    BY <2>1 DEF Bytes
  <2> QED
    BY <2>2, FewerLines DEF Coherent, BlockSide
<1>4. CodeSide'
  <2>1. memOld' \subseteq memOld \cup discarded
    BY <1>1, WriteBack DEF Coherent
  <2> QED
    BY <2>1, CodeKept DEF Coherent, CodeSide, iside
<1> QED
  BY <1>2, <1>3, <1>4 DEF Coherent

LEMMA FlushIStep ==
  ASSUME Coherent, NEW start, NEW len, alt_icache_flush(start, len),
         UNCHANGED <<dside, allocated, ghosts, loading>>
  PROVE  Coherent'
<1>1. DataSide' /\ BlockSide'
  BY DEF Coherent, DataSide, BlockSide, Uncached, Running, WholeBlock, BlockBytes, Bytes, dside, ghosts
<1> DEFINE lines == IWalked(start, len)
<1>2. icached' = icached \ lines /\ icacheOld' = icacheOld \ Bytes(lines)
  BY DEF alt_icache_flush
<1> HIDE DEF lines
<1>3. icacheOld' \subseteq Bytes(icached')
  <2>1. Bytes(icached \ lines) = Bytes(icached) \ Bytes(lines)
    BY BytesSets
  <2> QED
    BY <1>2, <2>1 DEF Coherent, CodeSide
<1> QED
  BY <1>1, <1>2, <1>3 DEF Coherent, CodeSide, Running, Bytes, dside

LEMMA GiveUpStep ==
  ASSUME Coherent, Running, NEW r \in Regions, WholeLines(r),
         alt_dcache_flush_no_writeback(r.start, r.len), UNCHANGED <<iside, allocated, failed, loading>>
  PROVE  Coherent'
<1> DEFINE lines == Walked(r.start, r.len)
<1>1. /\ Drop(lines) /\ memOld' = memOld
      /\ discarded' = discarded \cup (memOld \cap Region(r.start, r.len))
  BY DEF alt_dcache_flush_no_writeback
<1>2. Bytes(lines) \subseteq Region(r.start, r.len)
  <2> SUFFICES ASSUME NEW a \in Bytes(lines) PROVE a \in Region(r.start, r.len)
    OBVIOUS
  <2>1. a \in Nat /\ Line(a) \in lines
    BY AddressIs, BytesAre
  <2>2. r.start \in Nat /\ r.len \in Nat /\ r.start % LineSize = 0 /\ r.len % LineSize = 0
    BY RegionIs DEF WholeLines
  <2> QED
    BY <2>1, <2>2, WholeWalk
<1> HIDE DEF lines
<1>3. memOld \cap Bytes(Code) = {}
  BY DEF Coherent, CodeSide, Running
<1>4. DataSide'
  <2>1. discarded' \cap Bytes(Code) = {}
    BY <1>1, <1>3 DEF Coherent, DataSide
  <2> QED
    BY <1>1, <1>2, <2>1, DropData DEF Coherent
<1>5. BlockSide'
  <2>1. cached' \subseteq cached
    BY <1>1 DEF Drop
  <2>2. Bytes(cached') \subseteq Bytes(cached)
    BY <2>1 DEF Bytes
  <2> QED
    BY <2>2, FewerLines DEF Coherent, BlockSide
<1>6. CodeSide'
  BY <1>1, CodeKept DEF Coherent, CodeSide, iside
<1> QED
  BY <1>4, <1>5, <1>6 DEF Coherent

LEMMA FlushesStep == ASSUME Coherent, Flush PROVE Coherent'
<1>1. Running
  BY DEF Flush
<1>2. PICK r \in Regions :
        \/ alt_dcache_flush(r.start, r.len) /\ UNCHANGED <<iside, allocated, ghosts, loading>>
        \/ alt_icache_flush(r.start, r.len) /\ UNCHANGED <<dside, allocated, ghosts, loading>>
        \/ /\ WholeLines(r)
           /\ alt_dcache_flush_no_writeback(r.start, r.len)
           /\ UNCHANGED <<iside, allocated, failed, loading>>
  BY DEF Flush
<1> QED
  BY <1>1, <1>2, FlushStep, FlushIStep, GiveUpStep

LEMMA LoadSectionStep == ASSUME Coherent, alt_load_section PROVE Coherent'
<1>1. PICK a \in loading.left : Write(a) /\ loading' = [loading EXCEPT !.left = @ \ {a}]
  BY DEF alt_load_section
<1>2. loading.at = "copy" /\ UNCHANGED <<allocated, failed>>
  BY DEF alt_load_section
<1>3. loading \in [at : {"copy", "icache", "run"}, left : SUBSET Bytes(Code)]
  BY DEF Coherent, CodeSide
<1>4. a \in Address /\ Line(a) \in Code
  BY <1>1, <1>3, AddressBytes
<1>5. /\ loading' \in [at : {"copy", "icache", "run"}, left : SUBSET Bytes(Code)]
      /\ loading'.at = "copy"
  BY <1>1, <1>2, <1>3
<1>6. DataSide'
  BY <1>1, <1>2, <1>4, WriteData, CacheSizes DEF Coherent
<1>7. allocated = {} /\ allocated' = {}
  BY <1>2 DEF Coherent, BlockSide, Running
<1>8. BlockSide'
  BY <1>7 DEF BlockSide, Uncached
<1>9. icached' = icached /\ icacheOld' = icacheOld \cup (Bytes(icached) \cap {a})
  BY <1>1 DEF Write
<1> QED
  BY <1>5, <1>6, <1>8, <1>9 DEF Coherent, CodeSide, Running, Bytes

LEMMA LoadFlushesDataStep == ASSUME Coherent, LoadFlushesData PROVE Coherent'
<1>1. /\ Drop(cached) /\ memOld' = WrittenBack(cached) /\ UNCHANGED <<iside, allocated, ghosts>>
      /\ loading.at = "copy" /\ loading' = [loading EXCEPT !.at = "icache"]
  BY DEF LoadFlushesData, alt_dcache_flush_all
<1>2. DataSide'
  BY <1>1, FlushData DEF Coherent, DataSide, ghosts
<1>3. loading' \in [at : {"copy", "icache", "run"}, left : SUBSET Bytes(Code)] /\ loading'.at = "icache"
  BY <1>1 DEF Coherent, CodeSide
<1>4. allocated = {} /\ allocated' = {}
  BY <1>1 DEF Coherent, BlockSide, Running
<1>5. BlockSide'
  BY <1>4 DEF BlockSide, Uncached
<1>6. memOld' \cap Bytes(Code) = {}
  <2>1. WrittenBack(cached) \ discarded \subseteq Bytes(dirty \ cached)
    BY WriteBack DEF Coherent
  <2>2. dirty \ cached = {} /\ Bytes({}) = {}
    BY DEF Coherent, DataSide, Bytes
  <2>3. WrittenBack(cached) \subseteq discarded
    BY <2>1, <2>2
  <2> QED
    BY <1>1, <2>3 DEF Coherent, DataSide
<1> QED
  BY <1>1, <1>2, <1>3, <1>5, <1>6 DEF Coherent, CodeSide, Running, Bytes, iside

LEMMA LoadFlushesInstructionsStep == ASSUME Coherent, LoadFlushesInstructions PROVE Coherent'
<1>1. /\ loading.at = "icache" /\ loading' = [loading EXCEPT !.at = "run"]
      /\ alt_icache_flush(0, ILines * LineSize) /\ UNCHANGED <<dside, allocated, ghosts>>
  BY DEF LoadFlushesInstructions, alt_icache_flush_all
<1>2. loading' \in [at : {"copy", "icache", "run"}, left : SUBSET Bytes(Code)] /\ loading'.at = "run"
  BY <1>1 DEF Coherent, CodeSide
<1>3. IWalked(0, ILines * LineSize) = icached
  BY FlushAllI, CacheSizes DEF Coherent, CodeSide
<1>4. icached' = {} /\ icacheOld' = {}
  BY <1>1, <1>3 DEF alt_icache_flush, Coherent, CodeSide
<1>5. DataSide'
  BY <1>1 DEF Coherent, DataSide, Bytes, dside, ghosts
<1>6. allocated = {} /\ allocated' = {}
  BY <1>1 DEF Coherent, BlockSide, Running
<1>7. BlockSide'
  BY <1>6 DEF BlockSide, Uncached
<1>8. memOld' = memOld
  BY <1>1 DEF dside
<1> QED
  BY <1>1, <1>2, <1>4, <1>5, <1>7, <1>8 DEF Coherent, CodeSide, Running, Bytes

-------------------------------------------------------------------------------
(* Blocks given and taken back, and the flash.                             *)
LEMMA GivenWhole ==
  ASSUME NEW size \in Nat
  PROVE  Whole(size) \in Nat /\ Whole(size) % LineSize = 0
BY TurnsCover, FirstOfLine DEF Whole

LEMMA MallocStep ==
  ASSUME Coherent, Running, NEW size \in Nat, alt_uncached_malloc(size) PROVE Coherent'
<1>1. PICK first \in {l * LineSize : l \in Ram} :
        LET b == [first |-> first, size |-> Whole(size), bypass |-> TRUE] IN
        /\ BlockBytes(b) \subseteq Bytes(Ram)
        /\ allocated' = allocated \cup {b}
        /\ alt_dcache_flush(first, Whole(size))
        /\ UNCHANGED <<iside, ghosts, loading>>
  BY DEF alt_uncached_malloc
<1> DEFINE b == [first |-> first, size |-> Whole(size), bypass |-> TRUE]
           lines == Walked(first, Whole(size))
<1>2. first \in Nat /\ first % LineSize = 0 /\ WholeBlock(b)
  <2>1. first \in Nat /\ first % LineSize = 0
    <3>1. PICK l \in Ram : first = l * LineSize
      BY <1>1
    <3>2. l \in Nat
      BY CacheSizes
    <3> QED
      BY <3>1, <3>2, FirstOfLine
  <2> QED
    BY <2>1, GivenWhole DEF WholeBlock
<1>3. /\ Drop(lines) /\ memOld' = WrittenBack(lines) /\ discarded' = discarded /\ failed' = failed
      /\ UNCHANGED <<iside, loading>>
  BY <1>1 DEF alt_dcache_flush, ghosts
<1>4. Region(first, Whole(size)) \cap Bytes(cached \ lines) = {}
  <2> SUFFICES ASSUME NEW a \in Region(first, Whole(size)), a \in Bytes(cached \ lines) PROVE FALSE
    OBVIOUS
  <2>1. Line(a) \in lines
    BY <1>2, GivenWhole, WalkReaches
  <2> QED
    BY <2>1, BytesAre
<1>5. allocated' = allocated \cup {b}
  BY <1>1
<1>6. b.first = first /\ b.size = Whole(size)
  OBVIOUS
<1> HIDE DEF lines, b
<1>7. DataSide'
  BY <1>3, FlushData DEF Coherent, DataSide
<1>8. Uncached' \subseteq Uncached \cup Region(first, Whole(size))
  BY <1>5, <1>6 DEF Uncached, BlockBytes
<1>9. BlockSide'
  <2>1. Bytes(cached \ lines) \subseteq Bytes(cached) /\ cached' = cached \ lines
    BY <1>3 DEF Bytes, Drop
  <2>2. Uncached' \cap Bytes(cached') = {}
    BY <1>4, <1>8, <2>1 DEF Coherent, BlockSide
  <2>3. \A c \in allocated' : WholeBlock(c)
    BY <1>2, <1>5 DEF Coherent, BlockSide
  <2>4. Running'
    BY <1>3 DEF Running
  <2> QED
    BY <2>2, <2>3, <2>4 DEF BlockSide, WholeBlock, Bytes
<1>10. CodeSide'
  <2>1. memOld' \subseteq memOld \cup discarded
    BY <1>3, WriteBack DEF Coherent
  <2> QED
    BY <1>3, <2>1, CodeKept DEF Coherent, CodeSide, iside
<1> QED
  BY <1>7, <1>9, <1>10 DEF Coherent

LEMMA TakeBackStep ==
  ASSUME Coherent, Running, NEW b \in allocated,
         alt_uncached_free(b) \/ alt_remap_cached(b)
  PROVE  Coherent'
<1>1. UNCHANGED <<dside, iside, ghosts, loading>>
  BY DEF alt_uncached_free, alt_remap_cached
<1>2. DataSide' /\ CodeSide'
  BY <1>1 DEF Coherent, DataSide, CodeSide, Running, Bytes, dside, iside, ghosts
<1> DEFINE d == [b EXCEPT !.bypass = FALSE]
<1>3. allocated' \subseteq allocated \cup {d}
  BY DEF alt_uncached_free, alt_remap_cached
<1>4. WholeBlock(b)
  BY DEF Coherent, BlockSide
<1>5. WholeBlock(d) /\ ~d.bypass
  BY <1>4 DEF WholeBlock
<1> HIDE DEF d
<1>6. \A c \in allocated' : WholeBlock(c)
  BY <1>3, <1>5 DEF Coherent, BlockSide
<1>7. Uncached' \subseteq Uncached
  BY <1>3, <1>5 DEF Uncached
<1>8. cached' = cached /\ Running'
  BY <1>1 DEF dside, Running
<1> QED
  BY <1>2, <1>6, <1>7, <1>8 DEF Coherent, BlockSide, WholeBlock, Bytes

LEMMA FlashStep ==
  ASSUME Coherent, NEW start \in Nat, NEW len \in Nat, Region(start, len) \subseteq Bytes(Flash),
         FlashSucceeds(start, len) \/ FlashFails(Region(start, len))
  PROVE  Coherent'
<1>1. CASE FlashSucceeds(start, len)
  <2> DEFINE lines == Walked(start, len)
  <2>1. /\ Drop(lines) /\ memOld' = WrittenBack(lines) /\ discarded' = discarded
        /\ failed' = failed \ Region(start, len) /\ UNCHANGED <<iside, allocated, loading>>
    BY <1>1 DEF FlashSucceeds, alt_dcache_flush
  <2>2. Bytes(cached \ lines) \cap Region(start, len) = {}
    <3> SUFFICES ASSUME NEW a \in Region(start, len), a \in Bytes(cached \ lines) PROVE FALSE
      OBVIOUS
    <3>1. Line(a) \in lines
      BY WalkReaches
    <3> QED
      BY <3>1, BytesAre
  <2> HIDE DEF lines
  <2>3. DataSide'
    BY <2>1, <2>2, FlushData DEF Coherent, DataSide
  <2>4. BlockSide'
    <3>1. Bytes(cached') \subseteq Bytes(cached)
      BY <2>1 DEF Drop, Bytes
    <3> QED
      BY <2>1, <3>1, FewerLines DEF Coherent, BlockSide
  <2>5. CodeSide'
    <3>1. memOld' \subseteq memOld \cup discarded
      BY <2>1, WriteBack DEF Coherent
    <3> QED
      BY <2>1, <3>1, CodeKept DEF Coherent, CodeSide, iside
  <2> QED
    BY <2>3, <2>4, <2>5 DEF Coherent
<1>2. CASE FlashFails(Region(start, len))
  <2>1. PICK some \in SUBSET Region(start, len) :
          cacheOld' = Changed(some) /\ failed' = failed \cup some
    BY <1>2 DEF FlashFails
  <2>2. UNCHANGED <<memOld, cached, dirty, iside, allocated, discarded, loading>>
    BY <1>2 DEF FlashFails
  <2>3. cacheOld' = cacheOld \cup (some \cap Bytes(cached)) /\ some \subseteq Bytes(Flash)
    BY <2>1 DEF Changed
  <2>4. DataSide'
    BY <2>1, <2>2, <2>3 DEF Coherent, DataSide, Bytes
  <2>5. BlockSide' /\ CodeSide'
    BY <2>2 DEF Coherent, BlockSide, CodeSide, Uncached, Running, WholeBlock, BlockBytes, Bytes, iside
  <2> QED
    BY <2>4, <2>5 DEF Coherent
<1> QED
  BY <1>1, <1>2

LEMMA InitCoherent == CacheInit => Coherent
<1> SUFFICES ASSUME CacheInit PROVE Coherent
  OBVIOUS
<1>1. DataSide
  BY DEF CacheInit, DataSide
<1>2. BlockSide
  BY DEF CacheInit, BlockSide, Uncached
<1>3. CodeSide
  BY DEF CacheInit, CodeSide, Running
<1> QED
  BY <1>1, <1>2, <1>3 DEF Coherent

LEMMA StepCoherent == Coherent /\ [CacheNext]_cacheVars => Coherent'
<1> SUFFICES ASSUME Coherent, [CacheNext]_cacheVars PROVE Coherent'
  OBVIOUS
<1>1. CASE UNCHANGED cacheVars
  BY <1>1 DEF cacheVars, dside, iside, ghosts, Coherent, DataSide, BlockSide, CodeSide, Uncached,
              Running, WholeBlock, BlockBytes, Bytes
<1>2. CASE Running /\ UncachedMemory
  <2>1. 1..Cardinality(Bytes(Ram)) \subseteq Nat
    OBVIOUS
  <2> QED
    BY <1>2, <2>1, MallocStep, TakeBackStep DEF UncachedMemory
<1>3. CASE Running /\ alt_erase_flash_block
  <2>1. PICK a \in Bytes(Flash) :
          /\ Region(a, Block) \subseteq Bytes(Flash)
          /\ FlashSucceeds(a, Block) \/ FlashFails(Region(a, Block))
    BY <1>3 DEF alt_erase_flash_block
  <2>2. a \in Nat /\ Block \in Nat
    BY AddressBytes, AddressIs, CacheSizes
  <2> QED
    BY <2>1, <2>2, FlashStep
<1>4. CASE Running /\ alt_write_flash_block
  <2>1. PICK a \in Bytes(Flash), len \in 1..Block :
          /\ Region(a, len) \subseteq Bytes(Flash)
          /\ FlashSucceeds(a, len) \/ FlashFails(Region(a, len))
    BY <1>4 DEF alt_write_flash_block
  <2>2. a \in Nat /\ len \in Nat
    BY AddressBytes, AddressIs, CacheSizes
  <2> QED
    BY <2>1, <2>2, FlashStep
<1> QED
  BY <1>1, <1>2, <1>3, <1>4, FetchStep, LoadStep, StoreStep, StoreUncachedStep, FlushesStep,
     LoadSectionStep, LoadFlushesDataStep, LoadFlushesInstructionsStep DEF CacheNext

LEMMA CacheInvariant == CacheSpec => []Coherent
BY InitCoherent, StepCoherent, PTL DEF CacheSpec

(* The last value of a byte that was not given up is in memory or in the   *)
(* cache (alt_dcache_flush_no_writeback.c lines 44 to 69).                 *)
THEOREM NoValueLost == CacheSpec => []NothingLost
<1>1. Coherent => NothingLost
  <2> SUFFICES ASSUME Coherent, NEW a \in memOld \ discarded PROVE Line(a) \in cached /\ a \notin cacheOld
    BY DEF NothingLost
  <2>1. Line(a) \in dirty
    BY BytesAre DEF Coherent, DataSide
  <2> QED
    BY <2>1 DEF Coherent, DataSide
<1> QED
  BY <1>1, CacheInvariant, PTL

(* A flush reaches every line of its region, what is executed is what      *)
(* alt_load copied, flash is never read as it was before a change that     *)
(* succeeded, and uncached memory is in no line of the cache.              *)
THEOREM NothingStale == CacheSpec => []NeverStale
<1>1. ASSUME Coherent, NEW r \in Regions, NEW a \in Region(r.start, r.len)
      PROVE  /\ Line(a) \in Walked(r.start, r.len)
             /\ Line(a) \in icached => Line(a) \in IWalked(r.start, r.len)
  <2>1. r.start \in Nat /\ r.len \in Nat
    BY RegionIs
  <2> QED
    BY <2>1, WalkReaches, FlushIReaches
<1>2. Coherent => FlushReaches
  BY <1>1 DEF FlushReaches
<1>3. Coherent => NeverStale
  BY <1>2 DEF NeverStale, Coherent, DataSide, BlockSide, CodeSide, Running
<1> QED
  BY <1>3, CacheInvariant, PTL

-------------------------------------------------------------------------------
(***************************************************************************)
(* The profiler.  Interrupts are off from "extend" to "link", so what a    *)
(* context took out of the heap or the slab there is still true at its     *)
(* next step, and an interrupted program is never between them.            *)
(***************************************************************************)
Unmasked == {"run", "app", "search", "count", "record", "init", "histogram", "disable"}
Masked   == {"extend", "allocate", "slab", "link"}
Uses     == {"app", "histogram", "slab"}

Fields(c) == c \in [pc : Unmasked \cup Masked, self : {c.self}, from : {c.from},
                    entry : {c.entry}, arc : {c.arc}, count : {c.count}, data : Int,
                    incr : Nat, ret : Uses \cup {"run"}, irq : Seq(BOOLEAN)]

Buckets == (TextBytes \div BucketBytes) * 2
HasBlock(use, a, n) == \E k \in 1..Len(blocks) :
  blocks[k].use = use /\ blocks[k].first = a /\ blocks[k].size = n
Inside(use, a, n) == \E k \in 1..Len(blocks) :
  /\ blocks[k].use = use /\ blocks[k].first <= a
  /\ a + n <= blocks[k].first + blocks[k].size
NoRecordIn(a, n) == \A i \in 1..Len(records) : Apart(records[i], Record, a, n)

(* Between two steps of a context others may run, but not in Masked.       *)
Held(c) == c.pc = "histogram" => c.data = -1 \/ HasBlock("histogram", c.data, Buckets)
Exclusive(c) ==
  /\ c.pc \in Masked => ~statusPIE /\ Len(c.irq) >= 1
  /\ c.pc = "extend" =>
       /\ c.data = RoundUp(heap_end) /\ c.ret \in Uses
       /\ c.ret = "histogram" => c.incr = Buckets
       /\ c.ret = "slab" => c.incr = SlabIncrement /\ Len(c.irq) >= 2 /\ ~Found(c)
  /\ c.pc = "slab" =>
       \/ c.data = -1
       \/ HasBlock("slab", c.data, SlabIncrement) /\ NoRecordIn(c.data, SlabIncrement)
  /\ c.pc = "link" => c.data = mcount_slab_ptr /\ Record <= mcount_slab_size

Stack ==
  \/ Len(contexts) = 1 /\ contexts = <<contexts[1]>>
  \/ Len(contexts) = 2 /\ contexts = <<contexts[1], contexts[2]>> /\ contexts[1].pc \notin Masked
Nested ==
  /\ statusPIE \in BOOLEAN /\ Stack
  /\ \A k \in 1..Len(contexts) : Fields(contexts[k]) /\ Held(contexts[k])
  /\ Exclusive(Context)

(* Blocks lie in the heap one after the other, records in slabs, and what  *)
(* is left of the newest slab is free.                                     *)
HeapInOrder ==
  /\ heap_end \in Nat
  /\ blocks \in Seq([use : Uses, first : Nat, size : Nat])
  /\ \A k \in 1..Len(blocks) : /\ blocks[k].first + blocks[k].size <= HeapLimit
                               /\ blocks[k].first + blocks[k].size <= heap_end
  /\ \A j, k \in 1..Len(blocks) : j < k => blocks[j].first + blocks[j].size <= blocks[k].first
SlabFree ==
  /\ mcount_slab_ptr \in Nat /\ mcount_slab_size \in Nat /\ records \in Seq(Nat)
  /\ \A i, j \in 1..Len(records) : i < j => Apart(records[i], Record, records[j], Record)
  /\ \A i \in 1..Len(records) : Inside("slab", records[i], Record)
  /\ mcount_slab_size = 0 \/ Inside("slab", mcount_slab_ptr, mcount_slab_size)
  /\ NoRecordIn(mcount_slab_ptr, mcount_slab_size)
Sampling ==
  /\ alarmStarts \in Nat
  /\ alarmStarts > 0 => HasBlock("histogram", s_pcsamples, Buckets)
  /\ \A i \in 1..Len(sampled) : Inside("histogram", sampled[i], 2)

Profiling == ~wild => Nested /\ HeapInOrder /\ SlabFree /\ Sampling

LEMMA ProfileSizes ==
  /\ Align \in Nat /\ Align > 0 /\ Record \in Nat /\ Record > 0
  /\ SlabIncrement \in Nat /\ Record <= SlabIncrement
  /\ BucketBytes \in Nat /\ BucketBytes > 0 /\ HeapLimit \in Nat /\ AppBytes \subseteq Nat
  /\ TextBytes \in Nat /\ TextBytes \div BucketBytes \in Nat /\ Buckets \in Nat
  /\ TextBytes = (TextBytes \div BucketBytes) * BucketBytes
<1>1. /\ Align \in Nat /\ Align > 0 /\ Record \in Nat /\ Record > 0
      /\ SlabIncrement \in Nat /\ Record <= SlabIncrement
      /\ BucketBytes \in Nat /\ BucketBytes > 0 /\ HeapLimit \in Nat /\ AppBytes \subseteq Nat
      /\ TextBytes \in Nat /\ TextBytes % BucketBytes = 0
  BY SizeAssumption, TextAssumption
<1>2. /\ TextBytes \div BucketBytes \in Nat /\ (TextBytes \div BucketBytes) * BucketBytes \in Nat
      /\ TextBytes = (TextBytes \div BucketBytes) * BucketBytes + (TextBytes % BucketBytes)
  BY <1>1, Split
<1>3. Buckets \in Nat
  BY <1>2 DEF Buckets
<1> QED
  BY <1>1, <1>2, <1>3

LEMMA RoundsUp == ASSUME NEW n \in Nat PROVE RoundUp(n) \in Nat /\ n <= RoundUp(n)
<1> DEFINE m == n + Align - 1
<1>1. m \in Nat /\ m = n + Align - 1 /\ Align \in Nat /\ Align > 0
  BY ProfileSizes
<1>2. RoundUp(n) = (m \div Align) * Align
  BY DEF RoundUp
<1> HIDE DEF m
<1>3. /\ m % Align \in Nat /\ m % Align < Align
      /\ (m \div Align) * Align \in Nat /\ m = (m \div Align) * Align + (m % Align)
  BY <1>1, Split
<1> QED
  BY <1>1, <1>2, <1>3

(* A sample of an address of the text is counted in a bucket.              *)
LEMMA BucketInside ==
  ASSUME NEW pc \in 0..(TextBytes - 1)
  PROVE  pc \div BucketBytes \in Nat /\ 2 * (pc \div BucketBytes) + 2 <= Buckets
<1> DEFINE q == pc \div BucketBytes
           t == TextBytes \div BucketBytes
<1>1. /\ pc \in Nat /\ pc < TextBytes /\ BucketBytes \in Nat /\ BucketBytes > 0
      /\ TextBytes \in Nat /\ t \in Nat /\ TextBytes = t * BucketBytes /\ Buckets = t * 2
  BY ProfileSizes DEF Buckets
<1>2. q \in Nat /\ q * BucketBytes \in Nat /\ q * BucketBytes <= pc
  BY <1>1, Split
<1> HIDE DEF q, t
<1>3. q < t
  <2> SUFFICES ASSUME t <= q PROVE FALSE
    BY <1>1, <1>2
  <2>1. t * BucketBytes <= q * BucketBytes
    BY <1>1, <1>2, Monotone
  <2> QED
    BY <1>1, <1>2, <2>1
<1>4. 2 * q + 2 <= Buckets
  BY <1>1, <1>2, <1>3
<1> QED
  BY <1>2, <1>4 DEF q

(* The heap only grows.                                                    *)
Grown == /\ Len(blocks) <= Len(blocks)'
         /\ \A k \in 1..Len(blocks) : k \in 1..Len(blocks)' /\ blocks'[k] = blocks[k]

LEMMA BlocksStay ==
  ASSUME Grown, NEW use, NEW a, NEW n
  PROVE  /\ HasBlock(use, a, n) => HasBlock(use, a, n)'
         /\ Inside(use, a, n) => Inside(use, a, n)'
<1>1. ASSUME NEW k \in 1..Len(blocks) PROVE k \in 1..Len(blocks)' /\ blocks'[k] = blocks[k]
  BY DEF Grown
<1>2. HasBlock(use, a, n) => HasBlock(use, a, n)'
  BY <1>1 DEF HasBlock
<1>3. Inside(use, a, n) => Inside(use, a, n)'
  BY <1>1 DEF Inside
<1> QED
  BY <1>2, <1>3

LEMMA PutTop ==
  ASSUME Stack, NEW c, Put(c)
  PROVE  /\ Stack' /\ Context' = c /\ Len(contexts)' = Len(contexts)
         /\ Len(contexts) = 1 => contexts' = <<c>>
         /\ Len(contexts) = 2 => contexts' = <<contexts[1], c>>
<1>1. CASE Len(contexts) = 1
  <2>1. contexts' = <<c>>
    BY <1>1 DEF Stack, Put
  <2> QED
    BY <1>1, <2>1 DEF Stack, Context
<1>2. CASE Len(contexts) = 2
  <2>1. contexts' = <<contexts[1], c>>
    BY <1>2 DEF Stack, Put
  <2> QED
    BY <1>2, <2>1 DEF Stack, Context
<1> QED
  BY <1>1, <1>2 DEF Stack

LEMMA TopIs ==
  ASSUME Nested
  PROVE  /\ Len(contexts) \in {1, 2} /\ Context = contexts[Len(contexts)]
         /\ Fields(Context) /\ Held(Context) /\ Exclusive(Context)
BY DEF Nested, Stack, Context

LEMMA NestedStep ==
  ASSUME Nested, Grown, NEW c, Put(c), statusPIE' \in BOOLEAN, Fields(c), Held(c)', Exclusive(c)'
  PROVE  Nested'
<1>1. Stack' /\ Context' = c
  BY PutTop DEF Nested
<1>2. Exclusive(Context)'
  BY <1>1 DEF Exclusive, Found
<1>3. ASSUME NEW k \in 1..Len(contexts)' PROVE (Fields(contexts[k]) /\ Held(contexts[k]))'
  <2>1. CASE contexts'[k] = c
    BY <2>1 DEF Fields, Held, HasBlock
  <2>2. CASE Len(contexts) = 2 /\ k = 1
    <3>1. PICK d : d = contexts[1]
      OBVIOUS
    <3>2. contexts'[1] = d /\ Fields(d) /\ Held(d)
      BY <2>2, <3>1, PutTop DEF Nested
    <3>3. HasBlock("histogram", d.data, Buckets) => HasBlock("histogram", d.data, Buckets)'
      BY BlocksStay
    <3>4. Held(d)'
      BY <3>2, <3>3 DEF Held
    <3>5. Held(contexts[1])'
      BY <3>2, <3>4 DEF Held, HasBlock
    <3> QED
      BY <2>2, <3>2, <3>5 DEF Fields
  <2> QED
    BY <2>1, <2>2, PutTop DEF Nested, Stack
<1> QED
  BY <1>1, <1>2, <1>3 DEF Nested

LEMMA MemoryStays ==
  ASSUME HeapInOrder, SlabFree, Sampling, UNCHANGED <<heap, slab, s_pcsamples, alarmStarts, sampled>>
  PROVE  HeapInOrder' /\ SlabFree' /\ Sampling' /\ Grown
<1>1. /\ heap_end' = heap_end /\ blocks' = blocks /\ records' = records /\ sampled' = sampled
      /\ mcount_slab_ptr' = mcount_slab_ptr /\ mcount_slab_size' = mcount_slab_size
      /\ s_pcsamples' = s_pcsamples /\ alarmStarts' = alarmStarts
  BY DEF heap, slab
<1>2. HeapInOrder'
  BY <1>1 DEF HeapInOrder
<1>3. SlabFree'
  BY <1>1 DEF SlabFree, Inside, NoRecordIn
<1>4. Sampling'
  BY <1>1 DEF Sampling, HasBlock, Inside
<1>5. Grown
  BY <1>1 DEF Grown, HeapInOrder
<1> QED
  BY <1>2, <1>3, <1>4, <1>5

(* A step that takes nothing, to a point where interrupts may be on.       *)
LEMMA QuietStep ==
  ASSUME Profiling, ~wild, UNCHANGED <<heap, slab, s_pcsamples, alarmStarts, sampled>>,
         NEW c, Put(c), statusPIE' \in BOOLEAN, Fields(c), c.pc \in Unmasked \ {"histogram"}
  PROVE  Profiling'
<1>1. HeapInOrder' /\ SlabFree' /\ Sampling' /\ Grown
  BY MemoryStays DEF Profiling
<1>2. c.pc # "histogram" /\ c.pc \notin Masked
  BY DEF Unmasked, Masked
<1>3. Held(c)' /\ Exclusive(c)'
  BY <1>2 DEF Held, Exclusive, Masked
<1>4. Nested'
  BY <1>1, <1>3, NestedStep DEF Profiling
<1> QED
  BY <1>1, <1>4 DEF Profiling

(* A step that takes nothing, with interrupts off.                         *)
LEMMA MaskedStep ==
  ASSUME Profiling, ~wild, UNCHANGED <<heap, slab, s_pcsamples, alarmStarts, sampled>>,
         NEW c, Put(c), statusPIE' \in BOOLEAN, Fields(c), c.pc \in Masked, Exclusive(c)'
  PROVE  Profiling'
<1>1. HeapInOrder' /\ SlabFree' /\ Sampling' /\ Grown
  BY MemoryStays DEF Profiling
<1>2. Held(c)'
  BY DEF Held, Masked
<1>3. Nested'
  BY <1>1, <1>2, NestedStep DEF Profiling
<1> QED
  BY <1>1, <1>3 DEF Profiling

LEMMA IdleFields == Fields(Idle) /\ Idle.pc = "run" /\ Idle.irq = <<>>
BY DEF Fields, Idle, Unmasked, Masked, Uses

LEMMA OffIs ==
  ASSUME NEW c, Fields(c), statusPIE \in BOOLEAN
  PROVE  /\ Off(c).irq \in Seq(BOOLEAN) /\ Len(Off(c).irq) = Len(c.irq) + 1
         /\ ~statusPIE => ~Found(Off(c))
<1>1. c.irq \in Seq(BOOLEAN) /\ Off(c).irq = Append(c.irq, statusPIE)
  BY DEF Fields, Off
<1> DEFINE s == c.irq
           t == Append(s, statusPIE)
<1>2. s \in Seq(BOOLEAN)
  BY <1>1
<1> HIDE DEF s
<1>3. t \in Seq(BOOLEAN) /\ Len(t) = Len(s) + 1 /\ t[Len(s) + 1] = statusPIE
  BY <1>2, AppendProperties
<1> HIDE DEF t
<1>4. Off(c).irq = t
  BY <1>1 DEF s, t
<1>5. Found(Off(c)) = t[Len(t)]
  BY <1>4 DEF Found
<1>6. Len(s) + 1 = Len(t)
  BY <1>3
<1>7. ~statusPIE => ~Found(Off(c))
  BY <1>3, <1>5, <1>6, Zenon
<1> QED
  BY <1>3, <1>4, <1>7 DEF s

(* sbrk from wherever it is called.                                        *)
LEMMA SbrkStep ==
  ASSUME Profiling, ~wild, UNCHANGED <<slab, s_pcsamples, alarmStarts, sampled>>,
         NEW c, Fields(c), NEW incr \in Nat, NEW ret \in Uses, sbrk(c, incr, ret),
         ret = "histogram" => incr = Buckets,
         ret = "slab" => incr = SlabIncrement /\ ~statusPIE /\ Len(c.irq) >= 1
  PROVE  Profiling'
<1>1. PICK d : d = [Off(c) EXCEPT !.pc = "extend", !.data = RoundUp(heap_end), !.incr = incr, !.ret = ret]
  OBVIOUS
<1>2. Put(d) /\ statusPIE' = FALSE /\ UNCHANGED heap
  BY <1>1 DEF sbrk
<1>3. /\ Off(c).irq \in Seq(BOOLEAN) /\ Len(Off(c).irq) = Len(c.irq) + 1 /\ Len(c.irq) \in Nat
      /\ ~statusPIE => ~Found(Off(c))
  BY OffIs DEF Fields, Profiling, Nested
<1>4. heap_end \in Nat /\ RoundUp(heap_end) \in Nat
  BY RoundsUp DEF Profiling, HeapInOrder
<1>5. d.irq = Off(c).irq /\ d.pc = "extend" /\ d.data = RoundUp(heap_end) /\ d.incr = incr /\ d.ret = ret
  BY <1>1 DEF Off, Fields
<1>6. Fields(d)
  <2>1. PICK o : o = Off(c)
    OBVIOUS
  <2>2. Fields(o)
    BY <1>3, <2>1 DEF Off, Fields
  <2>3. d = [o EXCEPT !.pc = "extend", !.data = RoundUp(heap_end), !.incr = incr, !.ret = ret]
    BY <1>1, <2>1
  <2>4. RoundUp(heap_end) \in Int /\ "extend" \in Unmasked \cup Masked /\ ret \in Uses \cup {"run"}
    BY <1>4 DEF Masked
  <2> QED
    BY <2>2, <2>3, <2>4 DEF Fields
<1>7. heap_end' = heap_end
  BY <1>2 DEF heap
<1>8. Exclusive(d)'
  <2>1. Len(d.irq) >= 1 /\ (ret = "slab" => Len(d.irq) >= 2)
    BY <1>3, <1>5
  <2>2. ret = "slab" => ~Found(d)
    <3>1. Found(d) = Found(Off(c))
      BY <1>5 DEF Found
    <3> QED
      BY <1>3, <3>1, Zenon
  <2>3. RoundUp(heap_end)' = RoundUp(heap_end)
    BY <1>7 DEF RoundUp
  <2>4. d.pc # "slab" /\ d.pc # "link"
    BY <1>5
  <2>5. d.ret = "histogram" => d.incr = Buckets
    BY <1>5
  <2> QED
    BY <1>2, <1>5, <2>1, <2>2, <2>3, <2>4, <2>5 DEF Exclusive, Found
<1> QED
  BY <1>2, <1>5, <1>6, <1>8, MaskedStep DEF Masked

LEMMA MallocKeeps == ASSUME Profiling, Malloc PROVE Profiling'
<1>1. ~wild /\ UNCHANGED <<slab, s_pcsamples, alarmStarts, sampled>>
  BY DEF Malloc, In, sampler
<1>2. PICK n \in AppBytes : sbrk(Idle, n, "app")
  BY DEF Malloc
<1>3. n \in Nat
  BY ProfileSizes
<1> QED
  BY <1>1, <1>2, <1>3, IdleFields, SbrkStep DEF Uses

(* Steps of the top context that take nothing.                             *)
LEMMA QuietActions ==
  ASSUME Profiling,
         \/ Malloced \/ Search \/ CountUp \/ NeedInit
         \/ \E f \in Functions, from \in Callers : Mcount(f, from)
  PROVE  Profiling'
<1>1. /\ ~wild /\ UNCHANGED <<heap, slab, s_pcsamples, alarmStarts, sampled>>
      /\ statusPIE' = statusPIE
  BY DEF Malloced, Search, CountUp, NeedInit, Mcount, In, sampler
<1>2. Nested /\ statusPIE \in BOOLEAN
  BY <1>1 DEF Profiling, Nested
<1>3. statusPIE' \in BOOLEAN
  BY <1>1, <1>2
<1>4. CASE Malloced \/ CountUp
  <2>1. Put(Idle)
    BY <1>4 DEF Malloced, CountUp
  <2> QED
    BY <1>1, <1>3, <2>1, IdleFields, QuietStep DEF Unmasked
<1>5. ASSUME NEW f \in Functions, NEW from \in Callers, Mcount(f, from) PROVE Profiling'
  <2>1. PICK c : c = [Idle EXCEPT !.pc = "search", !.self = f, !.from = from]
    OBVIOUS
  <2>2. Put(c)
    BY <1>5, <2>1 DEF Mcount
  <2>3. c.pc = "search" /\ Fields(c)
    <3>1. PICK o : o = Idle /\ Fields(o)
      BY IdleFields
    <3> QED
      BY <2>1, <3>1 DEF Fields, Unmasked
  <2> QED
    BY <1>1, <1>3, <2>2, <2>3, QuietStep DEF Unmasked
<1>6. CASE Search
  <2> DEFINE is == EntriesOf(Context.self)
             i == Newest(is)
             js == ArcsOf(i, Context.from)
  <2>1. \/ Put([Context EXCEPT !.pc = "record"])
        \/ Put([Context EXCEPT !.pc = IF js = {} THEN "record" ELSE "count",
                        !.entry = i, !.arc = IF js = {} THEN 0 ELSE Newest(js),
                        !.count = IF js = {} THEN 0 ELSE entries[i].arcs[Newest(js)].count])
    BY <1>6 DEF Search
  <2> HIDE DEF js, i, is
  <2>2. PICK o : o = Context /\ Fields(o)
    BY <1>2, TopIs
  <2>3. CASE Put([Context EXCEPT !.pc = "record"])
    <3>1. PICK c : c = [o EXCEPT !.pc = "record"]
      OBVIOUS
    <3>2. Put(c) /\ c.pc = "record" /\ Fields(c)
      BY <2>2, <2>3, <3>1 DEF Fields, Unmasked
    <3> QED
      BY <1>1, <1>3, <3>2, QuietStep DEF Unmasked
  <2>4. ASSUME NEW pc \in {"record", "count"}, NEW entry, NEW arc, NEW count,
               Put([Context EXCEPT !.pc = pc, !.entry = entry, !.arc = arc, !.count = count])
        PROVE  Profiling'
    <3>1. PICK c : c = [o EXCEPT !.pc = pc, !.entry = entry, !.arc = arc, !.count = count]
      OBVIOUS
    <3>2. Put(c) /\ c.pc = pc /\ Fields(c)
      BY <2>2, <2>4, <3>1 DEF Fields, Unmasked
    <3> QED
      BY <1>1, <1>3, <3>2, QuietStep DEF Unmasked
  <2>5. (IF js = {} THEN "record" ELSE "count") \in {"record", "count"}
    OBVIOUS
  <2> QED
    BY <2>1, <2>3, <2>4, <2>5
<1>7. CASE NeedInit
  <2>1. PICK pc \in {"init", "disable"} : Put([Context EXCEPT !.pc = pc])
    BY <1>7 DEF NeedInit
  <2>2. PICK c : c = [Context EXCEPT !.pc = pc]
    OBVIOUS
  <2>3. Put(c) /\ c.pc = pc /\ Fields(c)
    BY <1>2, <2>1, <2>2, TopIs DEF Fields, Unmasked
  <2> QED
    BY <1>1, <1>3, <2>3, QuietStep DEF Unmasked
<1> QED
  BY <1>4, <1>5, <1>6, <1>7

LEMMA InitKeeps == ASSUME Profiling, nios2_pcsample_init PROVE Profiling'
<1>1. ~wild /\ UNCHANGED <<slab, s_pcsamples, alarmStarts, sampled>>
  BY DEF nios2_pcsample_init, In
<1>2. Nested /\ statusPIE \in BOOLEAN /\ Fields(Context)
  BY <1>1, TopIs DEF Profiling, Nested
<1>3. CASE clockRuns
  <2>1. sbrk(Context, Buckets, "histogram") /\ Buckets \in Nat
    BY <1>3, ProfileSizes DEF nios2_pcsample_init, Buckets
  <2>2. PICK c : c = Context
    OBVIOUS
  <2>3. sbrk(c, Buckets, "histogram") /\ Fields(c)
    BY <1>2, <2>1, <2>2
  <2> QED
    BY <1>1, <2>1, <2>3, SbrkStep DEF Uses
<1>4. CASE ~clockRuns
  <2>1. PICK c : c = [Context EXCEPT !.pc = "disable"]
    OBVIOUS
  <2>2. Put(c) /\ UNCHANGED <<heap, statusPIE>>
    BY <1>4, <2>1 DEF nios2_pcsample_init
  <2>3. c.pc = "disable" /\ Fields(c)
    BY <1>2, <2>1 DEF Fields, Unmasked
  <2>4. UNCHANGED <<heap, slab, s_pcsamples, alarmStarts, sampled>> /\ statusPIE' \in BOOLEAN
    BY <1>1, <1>2, <2>2
  <2> QED
    BY <1>1, <2>2, <2>3, <2>4, QuietStep DEF Unmasked
<1> QED
  BY <1>3, <1>4

LEMMA DisableKeeps == ASSUME Profiling, Disable PROVE Profiling'
<1>1. ~wild /\ UNCHANGED <<heap, slab, s_pcsamples, alarmStarts, sampled>> /\ statusPIE' = FALSE
  BY DEF Disable, In, sampler
<1>2. Fields(Context) /\ statusPIE \in BOOLEAN
  BY <1>1, TopIs DEF Profiling, Nested
<1>3. PICK o : o = Context
  OBVIOUS
<1>4. PICK c : c = [Off(o) EXCEPT !.pc = "allocate"]
  OBVIOUS
<1>5. Put(c)
  BY <1>3, <1>4 DEF Disable
<1>6. Off(o).irq \in Seq(BOOLEAN) /\ Len(Off(o).irq) = Len(o.irq) + 1 /\ Len(o.irq) \in Nat /\ Fields(o)
  BY <1>2, <1>3, OffIs DEF Fields
<1>7. Fields(Off(o))
  <2>1. Off(o) = [o EXCEPT !.irq = Off(o).irq]
    BY <1>6 DEF Off, Fields
  <2>2. PICK s \in Seq(BOOLEAN) : s = Off(o).irq
    BY <1>6
  <2> QED
    BY <1>6, <2>1, <2>2 DEF Fields
<1>8. Fields(c) /\ c.pc = "allocate" /\ Len(c.irq) >= 1
  <2>1. PICK q : q = Off(o)
    OBVIOUS
  <2>2. Fields(q) /\ c = [q EXCEPT !.pc = "allocate"] /\ Len(q.irq) >= 1
    BY <1>4, <1>6, <1>7, <2>1
  <2> QED
    BY <2>2 DEF Fields, Masked
<1>9. Exclusive(c)'
  BY <1>1, <1>8 DEF Exclusive
<1> QED
  BY <1>1, <1>5, <1>8, <1>9, MaskedStep DEF Masked

LEMMA AllocateKeeps == ASSUME Profiling, mcount_allocate PROVE Profiling'
<1>1. ~wild /\ UNCHANGED <<slab, s_pcsamples, alarmStarts, sampled>>
  BY DEF mcount_allocate, In, sampler
<1>2. /\ Fields(Context) /\ statusPIE \in BOOLEAN /\ ~statusPIE /\ Len(Context.irq) >= 1
      /\ mcount_slab_ptr \in Nat /\ mcount_slab_size \in Nat
  BY <1>1, TopIs DEF Profiling, Nested, SlabFree, mcount_allocate, In, Exclusive, Masked
<1>3. PICK o : o = Context
  OBVIOUS
<1>4. CASE Record > mcount_slab_size
  <2>1. sbrk(o, SlabIncrement, "slab") /\ SlabIncrement \in Nat
    BY <1>3, <1>4, ProfileSizes DEF mcount_allocate
  <2> QED
    BY <1>1, <1>2, <1>3, <2>1, SbrkStep DEF Uses
<1>5. CASE ~(Record > mcount_slab_size)
  <2>1. PICK c : c = [o EXCEPT !.pc = "link", !.data = mcount_slab_ptr]
    OBVIOUS
  <2>2. Put(c) /\ UNCHANGED <<heap, statusPIE>>
    BY <1>3, <1>5, <2>1 DEF mcount_allocate
  <2>3. Fields(c) /\ c.pc = "link" /\ c.data = mcount_slab_ptr /\ c.irq = o.irq
    <3>1. mcount_slab_ptr \in Int /\ "link" \in Unmasked \cup Masked /\ Fields(o)
      BY <1>2, <1>3 DEF Masked
    <3> QED
      BY <2>1, <3>1 DEF Fields
  <2>4. Record <= mcount_slab_size
    BY <1>2, <1>5, ProfileSizes
  <2>5. /\ UNCHANGED <<heap, slab, s_pcsamples, alarmStarts, sampled>> /\ statusPIE' = statusPIE
        /\ mcount_slab_ptr' = mcount_slab_ptr /\ mcount_slab_size' = mcount_slab_size
    BY <1>1, <2>2 DEF slab
  <2>6. Exclusive(c)'
    BY <1>2, <1>3, <2>3, <2>4, <2>5 DEF Exclusive
  <2>7. statusPIE' \in BOOLEAN
    BY <1>2, <2>5
  <2> QED
    BY <1>1, <2>2, <2>3, <2>5, <2>6, <2>7, MaskedStep DEF Masked
<1> QED
  BY <1>4, <1>5

LEMMA SecondAppended ==
  ASSUME NEW S, NEW one \in Seq(S), NEW b \in S, Len(one) = 1
  PROVE  /\ Append(one, b) \in Seq(S) /\ Len(Append(one, b)) = 2
         /\ Append(one, b)[1] = one[1] /\ Append(one, b)[2] = b
<1>1. Append(one, b) \in Seq(S) /\ Len(Append(one, b)) = Len(one) + 1
  OBVIOUS
<1>2. Append(one, b)[Len(one) + 1] = b
  BY AppendProperties
<1>3. \A i \in 1..Len(one) : Append(one, b)[i] = one[i]
  BY AppendProperties
<1>4. 1 \in 1..Len(one) /\ Len(one) + 1 = 2
  OBVIOUS
<1> QED
  BY <1>1, <1>2, <1>3, <1>4

LEMMA FirstTaken ==
  ASSUME NEW S, NEW s \in Seq(S), Len(s) = 2, NEW t \in Seq(S), Len(t) = 1, t[1] = s[1]
  PROVE  SubSeq(s, 1, 1) = t
<1>1. SubSeq(s, 1, 1) \in Seq(S) /\ Len(SubSeq(s, 1, 1)) = 1 /\ SubSeq(s, 1, 1)[1] = s[1]
  OBVIOUS
<1> QED
  BY <1>1, SeqEqual

LEMMA PairOf ==
  ASSUME NEW a, NEW b PROVE Append(<<a>>, b) = <<a, b>> /\ SubSeq(<<a, b>>, 1, 1) = <<a>>
<1> DEFINE S == {a, b}
           one == <<a>>
           two == <<a, b>>
           app == Append(one, b)
<1>1. /\ one \in Seq(S) /\ Len(one) = 1 /\ two \in Seq(S) /\ Len(two) = 2
      /\ one[1] = a /\ two[1] = a /\ two[2] = b /\ b \in S
  OBVIOUS
<1> HIDE DEF S, one, two
<1>2. app \in Seq(S) /\ Len(app) = 2 /\ app[1] = a /\ app[2] = b
  BY <1>1, SecondAppended
<1>3. SubSeq(two, 1, 1) = one
  BY <1>1, FirstTaken
<1> HIDE DEF app
<1>4. app = two
  BY <1>1, <1>2, SeqEqual
<1> QED
  BY <1>3, <1>4 DEF app, one, two

LEMMA BlockTypes ==
  ASSUME HeapInOrder, NEW k \in 1..Len(blocks)
  PROVE  blocks[k] \in [use : Uses, first : Nat, size : Nat]
BY ElementOfSeq DEF HeapInOrder

(* The clock and the interrupts.                                           *)
LEMMA InterruptsKeep ==
  ASSUME Profiling, TimerStarts \/ Interrupt \/ Return PROVE Profiling'
<1>1. ~wild /\ UNCHANGED <<heap, slab, s_pcsamples, alarmStarts, sampled>>
  BY DEF TimerStarts, Interrupt, Return, In, sampler
<1>2. HeapInOrder' /\ SlabFree' /\ Sampling' /\ Grown
  BY <1>1, MemoryStays DEF Profiling
<1>3. Nested
  BY <1>1 DEF Profiling
<1>4. /\ blocks' = blocks /\ heap_end' = heap_end /\ records' = records
      /\ mcount_slab_ptr' = mcount_slab_ptr /\ mcount_slab_size' = mcount_slab_size
  BY <1>1 DEF heap, slab
<1>5. CASE TimerStarts
  <2>1. contexts' = contexts /\ statusPIE' = statusPIE
    BY <1>5 DEF TimerStarts
  <2>2. Nested'
    BY <1>3, <1>4, <2>1 DEF Nested, Stack, Fields, Held, HasBlock, Exclusive, Context, RoundUp, Found,
                           NoRecordIn
  <2> QED
    BY <1>2, <2>2 DEF Profiling
<1>6. CASE Interrupt
  <2>1. PICK d : d = contexts[1]
    OBVIOUS
  <2>2. contexts = <<d>> /\ Context = d
    BY <1>3, <1>6, <2>1 DEF Interrupt, Nested, Stack, Context
  <2>3. d.pc \notin Masked /\ Fields(d) /\ Held(d)
    BY <1>3, <1>6, <2>2, TopIs DEF Interrupt, Exclusive
  <2>4. contexts' = <<d, Idle>> /\ statusPIE' = FALSE
    BY <1>6, <2>2, PairOf DEF Interrupt
  <2>5. Stack' /\ Context' = Idle
    BY <2>3, <2>4 DEF Stack, Context, Idle
  <2>6. Held(d)' /\ Held(Idle)'
    BY <1>4, <2>3 DEF Held, HasBlock, Idle
  <2>7. \A k \in 1..Len(contexts)' : (Fields(contexts[k]) /\ Held(contexts[k]))'
    BY <2>3, <2>4, <2>6, IdleFields DEF Fields, Held, HasBlock
  <2>8. Exclusive(Context)'
    BY <2>4, <2>5, IdleFields DEF Exclusive, Masked
  <2> QED
    BY <1>2, <2>4, <2>5, <2>7, <2>8 DEF Profiling, Nested
<1>7. CASE Return
  <2>1. PICK d : d = contexts[1]
    OBVIOUS
  <2>2. Len(contexts) = 2 /\ contexts = <<d, contexts[2]>> /\ d.pc \notin Masked
    BY <1>3, <1>7, <2>1 DEF Return, Nested, Stack
  <2>3. Fields(d) /\ Held(d)
    BY <1>3, <2>1, <2>2 DEF Nested
  <2>4. contexts' = <<d>> /\ statusPIE' = TRUE
    <3>1. contexts' = SubSeq(contexts, 1, 1) /\ statusPIE' = TRUE
      BY <1>7 DEF Return
    <3> QED
      BY <2>2, <3>1, PairOf
  <2>5. Stack' /\ Context' = d
    BY <2>4 DEF Stack, Context
  <2>6. Held(d)'
    BY <1>4, <2>3 DEF Held, HasBlock
  <2>7. \A k \in 1..Len(contexts)' : (Fields(contexts[k]) /\ Held(contexts[k]))'
    BY <2>3, <2>4, <2>6 DEF Fields, Held, HasBlock
  <2>8. Exclusive(Context)'
    BY <2>2, <2>4, <2>5 DEF Exclusive, Masked
  <2> QED
    BY <1>2, <2>4, <2>5, <2>7, <2>8 DEF Profiling, Nested
<1> QED
  BY <1>5, <1>6, <1>7

LEMMA WildKeeps == ASSUME wild, wild' PROVE Profiling'
BY DEF Profiling

(* The histogram: its alarm is started for memory that sbrk gave.          *)
LEMMA SamplerKeeps == ASSUME Profiling, StartSampler PROVE Profiling'
<1>1. /\ ~wild /\ Context.pc = "histogram"
      /\ s_pcsamples' = Context.data /\ wild' = (Context.data = -1)
      /\ UNCHANGED <<heap, slab, sampled, statusPIE>>
      /\ alarmStarts' = IF Context.data = -1 THEN alarmStarts ELSE alarmStarts + 1
  BY DEF StartSampler, In
<1>2. SUFFICES ASSUME Context.data # -1 PROVE Profiling'
  BY <1>1 DEF Profiling
<1>3. PICK o : o = Context
  OBVIOUS
<1>4. Nested /\ HeapInOrder /\ SlabFree /\ Sampling /\ Fields(o) /\ Held(o)
  BY <1>1, <1>3, TopIs DEF Profiling
<1>5. HasBlock("histogram", o.data, Buckets)
  BY <1>1, <1>2, <1>3, <1>4 DEF Held
<1>6. /\ heap_end' = heap_end /\ blocks' = blocks /\ records' = records /\ sampled' = sampled
      /\ mcount_slab_ptr' = mcount_slab_ptr /\ mcount_slab_size' = mcount_slab_size /\ statusPIE' = statusPIE
      /\ alarmStarts' = alarmStarts + 1 /\ s_pcsamples' = o.data
  BY <1>1, <1>2, <1>3 DEF heap, slab
<1>7. HeapInOrder' /\ Grown
  BY <1>4, <1>6 DEF HeapInOrder, Grown
<1>8. SlabFree'
  BY <1>4, <1>6 DEF SlabFree, Inside, NoRecordIn
<1>9. Sampling'
  <2>1. alarmStarts' \in Nat
    BY <1>4, <1>6 DEF Sampling
  <2>2. HasBlock("histogram", s_pcsamples, Buckets)'
    BY <1>5, <1>6 DEF HasBlock
  <2>3. (\A i \in 1..Len(sampled) : Inside("histogram", sampled[i], 2))'
    BY <1>4, <1>6 DEF Sampling, Inside
  <2> QED
    BY <2>1, <2>2, <2>3 DEF Sampling
<1>10. PICK c : c = [o EXCEPT !.pc = "disable"]
  OBVIOUS
<1>11. Put(c)
  BY <1>3, <1>10 DEF StartSampler
<1>12. Fields(c) /\ c.pc = "disable"
  BY <1>4, <1>10 DEF Fields, Unmasked
<1>13. Held(c)' /\ Exclusive(c)'
  BY <1>12 DEF Held, Exclusive, Masked
<1>14. statusPIE' \in BOOLEAN
  BY <1>4, <1>6 DEF Nested
<1>15. Nested'
  BY <1>4, <1>7, <1>11, <1>12, <1>13, <1>14, NestedStep
<1> QED
  BY <1>7, <1>8, <1>9, <1>15 DEF Profiling

LEMMA SampleKeeps == ASSUME Profiling, Sample PROVE Profiling'
<1>1. ~wild /\ alarmStarts > 0 /\ UNCHANGED <<heap, slab, sampler, statusPIE, contexts>>
  BY DEF Sample, In
<1>2. PICK pc \in 0..(TextBytes - 1) : sampled' = <<s_pcsamples + 2 * (pc \div BucketBytes)>>
  BY DEF Sample
<1>3. Nested /\ HeapInOrder /\ SlabFree /\ Sampling
  BY <1>1 DEF Profiling
<1>4. /\ heap_end' = heap_end /\ blocks' = blocks /\ records' = records /\ contexts' = contexts
      /\ mcount_slab_ptr' = mcount_slab_ptr /\ mcount_slab_size' = mcount_slab_size /\ statusPIE' = statusPIE
      /\ alarmStarts' = alarmStarts /\ s_pcsamples' = s_pcsamples
  BY <1>1 DEF heap, slab, sampler
<1>5. HeapInOrder' /\ SlabFree'
  BY <1>3, <1>4 DEF HeapInOrder, SlabFree, Inside, NoRecordIn
<1>6. Nested'
  BY <1>3, <1>4 DEF Nested, Stack, Fields, Held, HasBlock, Exclusive, Context, RoundUp, Found,
                         NoRecordIn
<1>7. PICK k \in 1..Len(blocks) :
        blocks[k].use = "histogram" /\ blocks[k].first = s_pcsamples /\ blocks[k].size = Buckets
  BY <1>1, <1>3 DEF Sampling, HasBlock
<1> DEFINE q == pc \div BucketBytes
<1>8. q \in Nat /\ 2 * q + 2 <= Buckets /\ Buckets \in Nat
  BY BucketInside, ProfileSizes
<1> HIDE DEF q
<1>9. s_pcsamples \in Nat
  <2>1. blocks[k] \in [use : Uses, first : Nat, size : Nat]
    BY <1>3, <1>7, BlockTypes
  <2> QED
    BY <1>7, <2>1
<1>10. Inside("histogram", s_pcsamples + 2 * q, 2)
  BY <1>7, <1>8, <1>9 DEF Inside
<1>11. sampled' = <<s_pcsamples + 2 * q>>
  BY <1>2 DEF q
<1>12. Sampling'
  BY <1>3, <1>4, <1>10, <1>11 DEF Sampling, HasBlock, Inside
<1> QED
  BY <1>5, <1>6, <1>12 DEF Profiling

(* The heap grows behind everything that was given before.                 *)
LEMMA HeapGrows ==
  ASSUME HeapInOrder, NEW use \in Uses, NEW first \in Nat, NEW size \in Nat,
         heap_end <= first, first + size <= HeapLimit,
         heap_end' = first + size,
         blocks' = Append(blocks, [use |-> use, first |-> first, size |-> size])
  PROVE  HeapInOrder' /\ Grown /\ HasBlock(use, first, size)'
<1> DEFINE B == [use : Uses, first : Nat, size : Nat]
           b == [use |-> use, first |-> first, size |-> size]
           n == Len(blocks)
<1>1. blocks \in Seq(B) /\ b \in B /\ n \in Nat /\ heap_end \in Nat
  BY DEF HeapInOrder
<1>2. b.use = use /\ b.first = first /\ b.size = size
  OBVIOUS
<1>3. blocks' = Append(blocks, b)
  OBVIOUS
<1> HIDE DEF b, B
<1>4. blocks' \in Seq(B) /\ Len(blocks') = n + 1
  BY <1>1, <1>3
<1>5. \A k \in 1..n : blocks'[k] = blocks[k]
  BY <1>1, <1>3, AppendProperties
<1>6. blocks'[n + 1] = b
  BY <1>1, <1>3, AppendProperties
<1>7. ASSUME NEW k \in 1..n
      PROVE  /\ blocks[k].first \in Nat /\ blocks[k].size \in Nat
             /\ blocks[k].first + blocks[k].size <= HeapLimit
             /\ blocks[k].first + blocks[k].size <= heap_end
  BY BlockTypes DEF HeapInOrder
<1>8. ASSUME NEW k \in 1..(n + 1)
      PROVE  /\ blocks'[k].first + blocks'[k].size <= HeapLimit
             /\ blocks'[k].first + blocks'[k].size <= heap_end'
  <2>1. CASE k = n + 1
    BY <1>1, <1>2, <1>6, <2>1, ProfileSizes
  <2>2. CASE k \in 1..n
    BY <1>1, <1>5, <1>7, <2>2
  <2> QED
    BY <1>1, <2>1, <2>2
<1>9. ASSUME NEW j \in 1..(n + 1), NEW k \in 1..(n + 1), j < k
      PROVE  blocks'[j].first + blocks'[j].size <= blocks'[k].first
  <2>1. j \in 1..n /\ blocks'[j] = blocks[j]
    BY <1>1, <1>5, <1>9
  <2>2. CASE k = n + 1
    BY <1>1, <1>2, <1>6, <1>7, <2>1, <2>2
  <2>3. CASE k \in 1..n
    BY <1>5, <1>9, <2>1, <2>3 DEF HeapInOrder
  <2> QED
    BY <1>1, <2>2, <2>3
<1>10. heap_end' \in Nat
  OBVIOUS
<1>11. HeapInOrder'
  BY <1>4, <1>8, <1>9, <1>10 DEF HeapInOrder, B
<1>12. Grown
  BY <1>1, <1>4, <1>5 DEF Grown
<1>13. HasBlock(use, first, size)'
  <2>1. n + 1 \in 1..Len(blocks')
    BY <1>1, <1>4
  <2> QED
    BY <1>2, <1>6, <2>1 DEF HasBlock
<1> QED
  BY <1>11, <1>12, <1>13

(* Only the heap has changed.                                              *)
LEMMA KeptByGrowth ==
  ASSUME SlabFree, Sampling, Grown, UNCHANGED <<slab, s_pcsamples, alarmStarts, sampled>>
  PROVE  SlabFree' /\ Sampling'
<1>1. /\ records' = records /\ sampled' = sampled
      /\ mcount_slab_ptr' = mcount_slab_ptr /\ mcount_slab_size' = mcount_slab_size
      /\ s_pcsamples' = s_pcsamples /\ alarmStarts' = alarmStarts
  BY DEF slab
<1>2. ASSUME NEW i \in 1..Len(records) PROVE Inside("slab", records[i], Record)'
  <2>1. PICK a : a = records[i]
    OBVIOUS
  <2>2. Inside("slab", a, Record)'
    BY <2>1, BlocksStay DEF SlabFree
  <2> QED
    BY <1>1, <2>1, <2>2 DEF Inside
<1>3. (mcount_slab_size = 0 \/ Inside("slab", mcount_slab_ptr, mcount_slab_size))'
  <2>1. PICK a, n : a = mcount_slab_ptr /\ n = mcount_slab_size
    OBVIOUS
  <2>2. n = 0 \/ Inside("slab", a, n)'
    BY <2>1, BlocksStay DEF SlabFree
  <2> QED
    BY <1>1, <2>1, <2>2 DEF Inside
<1>4. SlabFree'
  BY <1>1, <1>2, <1>3 DEF SlabFree, NoRecordIn
<1>5. (alarmStarts > 0 => HasBlock("histogram", s_pcsamples, Buckets))'
  <2>1. PICK a : a = s_pcsamples
    OBVIOUS
  <2>2. alarmStarts > 0 => HasBlock("histogram", a, Buckets)'
    BY <2>1, BlocksStay DEF Sampling
  <2> QED
    BY <1>1, <2>1, <2>2 DEF HasBlock
<1>6. ASSUME NEW i \in 1..Len(sampled) PROVE Inside("histogram", sampled[i], 2)'
  <2>1. PICK a : a = sampled[i]
    OBVIOUS
  <2>2. Inside("histogram", a, 2)'
    BY <2>1, BlocksStay DEF Sampling
  <2> QED
    BY <1>1, <2>1, <2>2 DEF Inside
<1>7. Sampling'
  BY <1>1, <1>5, <1>6 DEF Sampling
<1> QED
  BY <1>4, <1>7

LEMMA OnIs ==
  ASSUME NEW c, Fields(c), Len(c.irq) >= 1
  PROVE  /\ On(c).irq \in Seq(BOOLEAN) /\ Len(On(c).irq) = Len(c.irq) - 1
         /\ Found(c) \in BOOLEAN
<1> DEFINE s == c.irq
<1>1. s \in Seq(BOOLEAN) /\ Len(s) \in Nat /\ Len(s) >= 1 /\ Len(s) \in 1..Len(s)
  BY DEF Fields
<1>2. On(c).irq = SubSeq(s, 1, Len(s) - 1) /\ Found(c) = s[Len(s)]
  BY DEF On, Found, Fields
<1> HIDE DEF s
<1>3. s[Len(s)] \in BOOLEAN
  BY <1>1, ElementOfSeq
<1>4. SubSeq(s, 1, Len(s) - 1) \in Seq(BOOLEAN) /\ Len(SubSeq(s, 1, Len(s) - 1)) = Len(s) - 1
  <2>1. \A i \in 1..(Len(s) - 1) : s[i] \in BOOLEAN
    BY <1>1, ElementOfSeq
  <2>2. Len(s) - 1 \in Int /\ 1 \in Int
    BY <1>1
  <2>3. SubSeq(s, 1, Len(s) - 1) \in Seq(BOOLEAN)
    BY <2>1, <2>2, SubSeqProperties
  <2>4. Len(SubSeq(s, 1, Len(s) - 1)) = Len(s) - 1
    <3>1. PICK m \in Int : m = Len(s) - 1 /\ m >= 0
      BY <1>1
    <3>2. Len(SubSeq(s, 1, m)) = IF 1 <= m THEN m - 1 + 1 ELSE 0
      BY <2>1, <3>1, SubSeqProperties
    <3>3. Len(SubSeq(s, 1, m)) = m
      BY <3>1, <3>2
    <3> QED
      BY <3>1, <3>3
  <2> QED
    BY <2>3, <2>4
<1>5. On(c).irq \in Seq(BOOLEAN)
  BY <1>2, <1>4
<1>6. Len(On(c).irq) = Len(c.irq) - 1
  BY <1>2, <1>4 DEF s
<1>7. Found(c) \in BOOLEAN
  BY <1>2, <1>3
<1> QED
  BY <1>5, <1>6, <1>7

Answered(c, pc, data) == [On(c) EXCEPT !.pc = pc, !.data = data]

LEMMA OnFields ==
  ASSUME NEW c, Fields(c), Len(c.irq) >= 1, NEW pc \in Unmasked \cup Masked, NEW data \in Int,
         NEW d, d = Answered(c, pc, data)
  PROVE  /\ Fields(d) /\ d.pc = pc /\ d.data = data
         /\ d.irq = On(c).irq /\ Len(d.irq) = Len(c.irq) - 1
<1>1. PICK s \in Seq(BOOLEAN) : s = On(c).irq /\ Len(s) = Len(c.irq) - 1
  BY OnIs
<1>2. PICK o : o = On(c)
  OBVIOUS
<1>3. o = [c EXCEPT !.irq = s]
  BY <1>1, <1>2 DEF On, Fields
<1>4. Fields(o) /\ o.irq = s
  BY <1>3 DEF Fields
<1>5. d = [o EXCEPT !.pc = pc, !.data = data]
  BY <1>2 DEF Answered
<1>6. Fields(d) /\ d.pc = pc /\ d.data = data /\ d.irq = s
  BY <1>4, <1>5 DEF Fields
<1> QED
  BY <1>1, <1>6

(* sbrk has its answer: -1, or a block behind everything given before.     *)
LEMMA ExtendKeeps == ASSUME Profiling, Extend PROVE Profiling'
<1>1. /\ ~wild /\ UNCHANGED <<slab, s_pcsamples, alarmStarts, sampled>>
      /\ statusPIE' = Found(Context) /\ Context.pc = "extend"
  BY DEF Extend, In, sampler
<1>2. PICK c : c = Context
  OBVIOUS
<1>3. Nested /\ HeapInOrder /\ SlabFree /\ Sampling /\ Fields(c) /\ Exclusive(c)
  BY <1>1, <1>2, TopIs DEF Profiling
<1>4. /\ c.pc = "extend" /\ c.data = RoundUp(heap_end) /\ c.ret \in Uses /\ Len(c.irq) >= 1
      /\ c.ret = "histogram" => c.incr = Buckets
      /\ c.ret = "slab" => c.incr = SlabIncrement /\ Len(c.irq) >= 2 /\ ~Found(c)
  BY <1>1, <1>2, <1>3 DEF Exclusive, Masked
<1>5. heap_end \in Nat /\ RoundUp(heap_end) \in Nat /\ heap_end <= RoundUp(heap_end) /\ c.incr \in Nat
      /\ Len(c.irq) \in Nat
  BY <1>3, RoundsUp DEF HeapInOrder, Fields
<1>6. statusPIE' \in BOOLEAN /\ statusPIE' = Found(c)
  BY <1>1, <1>2, <1>3, <1>4, OnIs
<1>7. c.ret = "slab" => ~statusPIE'
  BY <1>4, <1>6, Zenon
<1>8. c.ret \in Unmasked \cup Masked
  BY <1>4 DEF Uses, Unmasked, Masked
<1>9. ASSUME NEW data \in Int, NEW d, d = Answered(c, c.ret, data), Put(d),
             HeapInOrder', Grown,
             data = -1 \/ (HasBlock(c.ret, data, c.incr)' /\ data = RoundUp(heap_end))
      PROVE  Profiling'
  <2>1. Fields(d) /\ d.pc = c.ret /\ d.data = data /\ Len(d.irq) = Len(c.irq) - 1
    <3>1. PICK pc \in Unmasked \cup Masked : pc = c.ret
      BY <1>8
    <3>2. d = Answered(c, pc, data)
      BY <1>9, <3>1
    <3>3. Fields(c) /\ Len(c.irq) >= 1
      BY <1>3, <1>4
    <3>4. Fields(d) /\ d.pc = pc /\ d.data = data /\ Len(d.irq) = Len(c.irq) - 1
      BY <3>2, <3>3, OnFields
    <3> QED
      BY <3>1, <3>4
  <2>2. SlabFree' /\ Sampling'
    BY <1>1, <1>3, <1>9, KeptByGrowth
  <2>3. Held(d)'
    BY <1>4, <1>9, <2>1 DEF Held
  <2>4. c.ret = "slab" => data = -1 \/ NoRecordIn(data, SlabIncrement)'
    <3> SUFFICES ASSUME data = RoundUp(heap_end) PROVE NoRecordIn(data, SlabIncrement)'
      BY <1>9
    <3>1. records' = records
      BY <1>1 DEF slab
    <3>2. ASSUME NEW i \in 1..Len(records) PROVE records[i] + Record <= data
      <4>1. PICK k \in 1..Len(blocks) : records[i] + Record <= blocks[k].first + blocks[k].size
        BY <1>3 DEF SlabFree, Inside
      <4>2. blocks[k].first + blocks[k].size <= heap_end
        BY <1>3 DEF HeapInOrder
      <4>3. records[i] \in Nat /\ Record \in Nat
        BY <1>3, ElementOfSeq, ProfileSizes DEF SlabFree
      <4>4. blocks[k].first \in Nat /\ blocks[k].size \in Nat
        BY <1>3, BlockTypes
      <4> QED
        BY <1>5, <4>1, <4>2, <4>3, <4>4
    <3> QED
      BY <3>1, <3>2 DEF NoRecordIn, Apart
  <2>5. Exclusive(d)'
    <3>1. d.pc # "extend" /\ d.pc # "link" /\ d.pc # "allocate"
      BY <1>4, <2>1 DEF Uses
    <3>2. d.pc \in Masked => ~statusPIE' /\ Len(d.irq) >= 1
      BY <1>4, <1>5, <1>7, <2>1, <3>1 DEF Masked
    <3>3. d.pc = "slab" =>
            \/ d.data = -1
            \/ HasBlock("slab", d.data, SlabIncrement)' /\ NoRecordIn(d.data, SlabIncrement)'
      BY <1>4, <1>9, <2>1, <2>4
    <3> QED
      BY <3>1, <3>2, <3>3 DEF Exclusive
  <2>6. Nested'
    BY <1>3, <1>6, <1>9, <2>1, <2>3, <2>5, NestedStep
  <2> QED
    BY <1>9, <2>2, <2>6 DEF Profiling
<1>10. CASE c.data + c.incr > HeapLimit
  <2>1. heap_end' = RoundUp(heap_end) /\ UNCHANGED blocks /\ Put(Answered(c, c.ret, -1))
    BY <1>2, <1>10 DEF Extend, Answered
  <2>2. HeapInOrder'
    <3>1. ASSUME NEW k \in 1..Len(blocks) PROVE blocks[k].first + blocks[k].size <= heap_end'
      BY <1>3, <1>5, <2>1, BlockTypes DEF HeapInOrder
    <3> QED
      BY <1>3, <1>5, <2>1, <3>1 DEF HeapInOrder
  <2>3. Grown
    BY <1>3, <2>1 DEF Grown, HeapInOrder
  <2>4. -1 \in Int
    OBVIOUS
  <2> QED
    BY <1>9, <2>1, <2>2, <2>3, <2>4
<1>11. CASE ~(c.data + c.incr > HeapLimit)
  <2>1. /\ heap_end' = c.data + c.incr
        /\ blocks' = Append(blocks, [use |-> c.ret, first |-> c.data, size |-> c.incr])
        /\ Put([On(c) EXCEPT !.pc = c.ret])
    BY <1>2, <1>11 DEF Extend
  <2>2. c.data \in Nat /\ heap_end <= c.data /\ c.data + c.incr <= HeapLimit
    BY <1>4, <1>5, <1>11, ProfileSizes
  <2>3. HeapInOrder' /\ Grown /\ HasBlock(c.ret, c.data, c.incr)'
    BY <1>3, <1>4, <1>5, <2>1, <2>2, HeapGrows
  <2>4. [On(c) EXCEPT !.pc = c.ret] = Answered(c, c.ret, c.data)
    BY <1>3 DEF On, Fields, Answered
  <2>5. PICK d : d = Answered(c, c.ret, c.data)
    OBVIOUS
  <2>6. c.data \in Int /\ Put(d)
    BY <2>1, <2>2, <2>4, <2>5
  <2> QED
    BY <1>4, <1>9, <2>3, <2>5, <2>6
<1> QED
  BY <1>10, <1>11

(* A slab that sbrk gave has no record yet.                                *)
LEMMA NewSlabKeeps == ASSUME Profiling, NewSlab PROVE Profiling'
<1>1. /\ ~wild /\ Context.pc = "slab" /\ wild' = (Context.data = -1)
      /\ mcount_slab_ptr' = Context.data /\ mcount_slab_size' = SlabIncrement
      /\ UNCHANGED <<heap, records, sampler, sampled, statusPIE>>
  BY DEF NewSlab, In
<1>2. SUFFICES ASSUME Context.data # -1 PROVE Profiling'
  BY <1>1 DEF Profiling
<1>3. PICK o : o = Context
  OBVIOUS
<1>4. Nested /\ HeapInOrder /\ SlabFree /\ Sampling /\ Fields(o) /\ Exclusive(o)
  BY <1>1, <1>3, TopIs DEF Profiling
<1>5. HasBlock("slab", o.data, SlabIncrement) /\ NoRecordIn(o.data, SlabIncrement) /\ ~statusPIE /\ Len(o.irq) >= 1
  BY <1>1, <1>2, <1>3, <1>4 DEF Exclusive, Masked
<1>6. /\ heap_end' = heap_end /\ blocks' = blocks /\ records' = records /\ sampled' = sampled /\ statusPIE' = statusPIE
      /\ mcount_slab_ptr' = o.data /\ mcount_slab_size' = SlabIncrement
      /\ s_pcsamples' = s_pcsamples /\ alarmStarts' = alarmStarts
  BY <1>1, <1>3 DEF heap, sampler
<1>7. HeapInOrder' /\ Grown
  BY <1>4, <1>6 DEF HeapInOrder, Grown
<1>8. Sampling'
  BY <1>4, <1>6 DEF Sampling, HasBlock, Inside
<1>9. PICK k \in 1..Len(blocks) :
        blocks[k].use = "slab" /\ blocks[k].first = o.data /\ blocks[k].size = SlabIncrement
  BY <1>5 DEF HasBlock
<1>10. o.data \in Nat /\ SlabIncrement \in Nat
  BY <1>4, <1>9, BlockTypes, ProfileSizes
<1>11. Inside("slab", o.data, SlabIncrement)
  BY <1>9, <1>10 DEF Inside
<1>12. SlabFree'
  BY <1>4, <1>5, <1>6, <1>10, <1>11 DEF SlabFree, Inside, NoRecordIn
<1>13. PICK c : c = [o EXCEPT !.pc = "allocate"]
  OBVIOUS
<1>14. Put(c)
  BY <1>3, <1>13 DEF NewSlab
<1>15. Fields(c) /\ c.pc = "allocate" /\ c.irq = o.irq
  BY <1>4, <1>13 DEF Fields, Masked
<1>16. Held(c)'
  BY <1>15 DEF Held
<1>17. statusPIE' \in BOOLEAN /\ ~statusPIE'
  BY <1>4, <1>5, <1>6 DEF Nested
<1>18. Exclusive(c)'
  BY <1>5, <1>15, <1>17 DEF Exclusive
<1>19. Nested'
  BY <1>4, <1>7, <1>14, <1>15, <1>16, <1>17, <1>18, NestedStep
<1> QED
  BY <1>7, <1>8, <1>12, <1>19 DEF Profiling

(* A record is cut off the free part of the newest slab.                   *)
LEMMA OneMore ==
  ASSUME SlabFree, records' = Append(records, mcount_slab_ptr)
  PROVE  /\ records' \in Seq(Nat) /\ Len(records') = Len(records) + 1
         /\ \A i \in 1..Len(records) : records'[i] = records[i]
         /\ records'[Len(records) + 1] = mcount_slab_ptr
<1>1. records \in Seq(Nat) /\ mcount_slab_ptr \in Nat
  BY DEF SlabFree
<1>2. records' \in Seq(Nat) /\ Len(records') = Len(records) + 1
  BY <1>1
<1>3. \A i \in 1..Len(records) : records'[i] = records[i]
  BY <1>1, AppendProperties
<1>4. records'[Len(records) + 1] = mcount_slab_ptr
  BY <1>1, AppendProperties
<1> QED
  BY <1>2, <1>3, <1>4

LEMMA RecordTaken ==
  ASSUME SlabFree, HeapInOrder, Record <= mcount_slab_size, blocks' = blocks,
         mcount_slab_ptr' = mcount_slab_ptr + Record,
         mcount_slab_size' = mcount_slab_size - Record,
         records' \in Seq(Nat), Len(records') = Len(records) + 1,
         \A i \in 1..Len(records) : records'[i] = records[i],
         records'[Len(records) + 1] = mcount_slab_ptr
  PROVE  SlabFree'
<1>0. PICK n, ptr, size : n = Len(records) /\ ptr = mcount_slab_ptr /\ size = mcount_slab_size
  OBVIOUS
<1>1. /\ records \in Seq(Nat) /\ n \in Nat /\ ptr \in Nat /\ size \in Nat
      /\ Record \in Nat /\ Record > 0 /\ Record <= size
  BY <1>0, ProfileSizes DEF SlabFree
<1>2. Len(records') = n + 1
  BY <1>0
<1>3. \A i \in 1..n : records'[i] = records[i]
  BY <1>0
<1>4. records'[n + 1] = ptr
  BY <1>0
<1>5. ASSUME NEW i \in 1..n
      PROVE  records[i] \in Nat /\ (records[i] + Record <= ptr \/ ptr + size <= records[i])
  <2>1. records[i] \in Nat
    BY <1>0, <1>1, ElementOfSeq
  <2>2. Apart(records[i], Record, ptr, size)
    BY <1>0 DEF SlabFree, NoRecordIn
  <2> QED
    BY <2>1, <2>2 DEF Apart
<1>6. PICK k \in 1..Len(blocks) : /\ blocks[k].use = "slab" /\ blocks[k].first <= ptr
                                  /\ ptr + size <= blocks[k].first + blocks[k].size
  BY <1>0, <1>1 DEF SlabFree, Inside
<1>7. blocks[k].first \in Nat /\ blocks[k].size \in Nat
  BY BlockTypes
<1>8. mcount_slab_ptr' = ptr + Record /\ mcount_slab_size' = size - Record
  BY <1>0
<1>9. mcount_slab_ptr' \in Nat /\ mcount_slab_size' \in Nat
  BY <1>1, <1>8
<1>10. ASSUME NEW i \in 1..(n + 1), NEW j \in 1..(n + 1), i < j
       PROVE  Apart(records'[i], Record, records'[j], Record)
  <2>1. i \in 1..n /\ records'[i] = records[i]
    BY <1>1, <1>3, <1>10
  <2>2. CASE j = n + 1
    <3>1. PICK r \in Nat : r = records[i] /\ (r + Record <= ptr \/ ptr + size <= r)
      BY <1>5, <2>1
    <3>2. Apart(r, Record, ptr, Record)
      BY <1>1, <3>1 DEF Apart
    <3> QED
      BY <1>4, <2>1, <2>2, <3>1, <3>2
  <2>3. CASE j \in 1..n
    BY <1>0, <1>3, <1>10, <2>1, <2>3 DEF SlabFree
  <2> QED
    BY <1>1, <2>2, <2>3
<1>11. ASSUME NEW i \in 1..(n + 1) PROVE Inside("slab", records'[i], Record)
  <2>1. CASE i = n + 1
    <3>1. Inside("slab", ptr, Record)
      <4>1. ptr + Record <= blocks[k].first + blocks[k].size
        BY <1>1, <1>6, <1>7
      <4> QED
        BY <1>6, <4>1 DEF Inside
    <3> QED
      BY <1>4, <2>1, <3>1
  <2>2. CASE i \in 1..n
    BY <1>0, <1>3, <2>2 DEF SlabFree
  <2> QED
    BY <1>1, <2>1, <2>2
<1>12. Inside("slab", mcount_slab_ptr', mcount_slab_size')
  <2>1. Inside("slab", ptr + Record, size - Record)
    BY <1>1, <1>6, <1>7 DEF Inside
  <2> QED
    BY <1>8, <2>1
<1>13. ASSUME NEW i \in 1..(n + 1)
       PROVE  Apart(records'[i], Record, mcount_slab_ptr', mcount_slab_size')
  <2>1. CASE i = n + 1
    BY <1>1, <1>4, <1>8, <2>1 DEF Apart
  <2>2. CASE i \in 1..n
    <3>1. PICK r \in Nat : r = records[i] /\ (r + Record <= ptr \/ ptr + size <= r)
      BY <1>5, <2>2
    <3>2. Apart(r, Record, ptr + Record, size - Record)
      BY <1>1, <3>1 DEF Apart
    <3> QED
      BY <1>3, <1>8, <2>2, <3>1, <3>2
  <2> QED
    BY <1>1, <2>1, <2>2
<1>14. (\A i \in 1..Len(records) : Inside("slab", records[i], Record))'
  BY <1>2, <1>11 DEF Inside
<1>15. Inside("slab", mcount_slab_ptr, mcount_slab_size)'
  BY <1>12 DEF Inside
<1>16. NoRecordIn(mcount_slab_ptr, mcount_slab_size)'
  BY <1>2, <1>13 DEF NoRecordIn
<1>17. (\A i, j \in 1..Len(records) : i < j => Apart(records[i], Record, records[j], Record))'
  BY <1>2, <1>10
<1> QED
  BY <1>2, <1>9, <1>14, <1>15, <1>16, <1>17 DEF SlabFree

LEMMA LinkKeeps == ASSUME Profiling, Link PROVE Profiling'
<1>1. /\ ~wild /\ Context.pc = "link" /\ UNCHANGED <<heap, sampler, sampled>>
      /\ mcount_slab_ptr' = Context.data + Record /\ mcount_slab_size' = mcount_slab_size - Record
      /\ records' = Append(records, Context.data)
  BY DEF Link, In
<1>2. PICK o : o = Context
  OBVIOUS
<1>3. Nested /\ HeapInOrder /\ SlabFree /\ Sampling /\ Fields(o) /\ Exclusive(o)
  BY <1>1, <1>2, TopIs DEF Profiling
<1>4. o.data = mcount_slab_ptr /\ Record <= mcount_slab_size /\ ~statusPIE /\ Len(o.irq) >= 1
  BY <1>1, <1>2, <1>3 DEF Exclusive, Masked
<1>5. /\ heap_end' = heap_end /\ blocks' = blocks /\ sampled' = sampled
      /\ s_pcsamples' = s_pcsamples /\ alarmStarts' = alarmStarts
  BY <1>1 DEF heap, sampler
<1>6. HeapInOrder' /\ Grown
  BY <1>3, <1>5 DEF HeapInOrder, Grown
<1>7. Sampling'
  BY <1>3, <1>5 DEF Sampling, HasBlock, Inside
<1>8. SlabFree'
  BY <1>1, <1>2, <1>3, <1>4, <1>5, OneMore, RecordTaken
<1>9. CASE o.entry = 0
  <2>1. PICK entry : Put([o EXCEPT !.pc = "allocate", !.entry = entry]) /\ statusPIE' = statusPIE
    BY <1>2, <1>9 DEF Link
  <2>2. PICK c : c = [o EXCEPT !.pc = "allocate", !.entry = entry]
    OBVIOUS
  <2>3. Put(c) /\ Fields(c) /\ c.pc = "allocate" /\ c.irq = o.irq
    BY <1>3, <2>1, <2>2 DEF Fields, Masked
  <2>4. statusPIE' \in BOOLEAN /\ ~statusPIE'
    BY <1>3, <1>4, <2>1 DEF Nested
  <2>5. Held(c)' /\ Exclusive(c)'
    BY <1>4, <2>3, <2>4 DEF Held, Exclusive
  <2>6. Nested'
    BY <1>3, <1>6, <2>3, <2>4, <2>5, NestedStep
  <2> QED
    BY <1>6, <1>7, <1>8, <2>6 DEF Profiling
<1>10. CASE o.entry # 0
  <2>1. Put(Idle) /\ statusPIE' = Found(o)
    BY <1>2, <1>10 DEF Link
  <2>2. statusPIE' \in BOOLEAN
    BY <1>3, <1>4, <2>1, OnIs
  <2>3. PICK c : c = Idle
    OBVIOUS
  <2>4. Put(c) /\ Fields(c) /\ c.pc = "run"
    BY <2>1, <2>3, IdleFields
  <2>5. Held(c)' /\ Exclusive(c)'
    BY <2>4 DEF Held, Exclusive, Masked
  <2>6. Nested'
    BY <1>3, <1>6, <2>2, <2>4, <2>5, NestedStep
  <2> QED
    BY <1>6, <1>7, <1>8, <2>6 DEF Profiling
<1> QED
  BY <1>9, <1>10

LEMMA InitProfiling == ProfileInit => Profiling
<1> SUFFICES ASSUME ProfileInit PROVE Nested /\ HeapInOrder /\ SlabFree /\ Sampling
  BY DEF Profiling
<1>1. Nested
  <2>1. contexts = <<Idle>> /\ statusPIE = TRUE
    BY DEF ProfileInit
  <2>2. Stack /\ Context = Idle
    BY <2>1 DEF Stack, Context
  <2>3. Held(Idle) /\ Exclusive(Idle)
    BY IdleFields DEF Held, Exclusive, Masked
  <2> QED
    BY <2>1, <2>2, <2>3, IdleFields DEF Nested
<1>2. HeapInOrder
  BY DEF ProfileInit, HeapInOrder
<1>3. SlabFree
  BY DEF ProfileInit, SlabFree, NoRecordIn
<1>4. Sampling
  BY DEF ProfileInit, Sampling
<1> QED
  BY <1>1, <1>2, <1>3, <1>4

LEMMA StepProfiling == Profiling /\ [ProfileNext]_profileVars => Profiling'
<1> SUFFICES ASSUME Profiling, [ProfileNext]_profileVars PROVE Profiling'
  OBVIOUS
<1>1. CASE UNCHANGED profileVars
  <2>1. wild' = wild /\ UNCHANGED <<heap, slab, sampler, sampled, statusPIE, contexts>>
    BY <1>1 DEF profileVars
  <2> QED
    BY <2>1 DEF Profiling, Nested, Stack, Fields, Held, HasBlock, Exclusive, Context, RoundUp, Found,
                NoRecordIn, HeapInOrder, SlabFree, Sampling, Inside, heap, slab, sampler
<1>2. CASE Wild
  BY <1>2, WildKeeps DEF Wild, profileVars
<1> QED
  BY <1>1, <1>2, MallocKeeps, QuietActions, ExtendKeeps, InitKeeps, SamplerKeeps, DisableKeeps,
     AllocateKeeps, NewSlabKeeps, LinkKeeps, InterruptsKeep, SampleKeeps DEF ProfileNext

(* What sbrk gave the program, the histogram and the slabs lies in the     *)
(* heap and apart, the records lie in slabs and apart, and samples are     *)
(* counted in the histogram (alt_sbrk.c 52 to 54, alt_gmon.c 126 to 148).  *)
THEOREM MemoryIsApart == ProfileSpec => []MemoryApart
<1>1. Profiling => MemoryApart
  <2> SUFFICES ASSUME Profiling, ~wild PROVE MemoryApart
    BY DEF MemoryApart
  <2>1. HeapInOrder /\ SlabFree /\ Sampling
    BY DEF Profiling
  <2>2. \A i \in 1..Len(blocks) : blocks[i].first + blocks[i].size <= HeapLimit
    BY <2>1 DEF HeapInOrder
  <2>3. \A i, j \in 1..Len(blocks) :
          i < j => Apart(blocks[i].first, blocks[i].size, blocks[j].first, blocks[j].size)
    BY <2>1 DEF HeapInOrder, Apart
  <2>4. \A i, j \in 1..Len(records) : i < j => Apart(records[i], Record, records[j], Record)
    BY <2>1 DEF SlabFree
  <2>5. \A i \in 1..Len(records) : Inside("slab", records[i], Record)
    BY <2>1 DEF SlabFree
  <2>6. \A i \in 1..Len(sampled) : Inside("histogram", sampled[i], 2)
    BY <2>1 DEF Sampling
  <2> QED
    BY <2>2, <2>3, <2>4, <2>5, <2>6 DEF MemoryApart, Inside
<1>2. ProfileSpec => []Profiling
  BY InitProfiling, StepProfiling, PTL DEF ProfileSpec
<1> QED
  BY <1>1, <1>2, PTL

-------------------------------------------------------------------------------
(***************************************************************************)
(* Sums over finite sets.  A total is a function on the subsets of a set   *)
(* that adds up the values of a function in the order in which CHOOSE      *)
(* takes the members out; that this order does not matter is shown by      *)
(* induction on the number of members.                                     *)
(***************************************************************************)
Member(S) == CHOOSE x \in S : TRUE
IsTotal(g, h, P) ==
  g = [S \in SUBSET P |-> IF S = {} THEN 0 ELSE h[Member(S)] + g[S \ {Member(S)}]]

(* Induction over the numbers, from their order.                            *)
LEMMA NumberInduction ==
  ASSUME NEW S, 0 \in S, \A n \in Nat : n \in S => n + 1 \in S
  PROVE  Nat \subseteq S
<1> DEFINE T == Nat \ S
           R == OpToRel(<, Nat)
<1>1. IsWellFoundedOn(R, Nat)
  BY NatLessThanWellFounded, Zenon
<1>2. R = {ss \in Nat \X Nat : ss[1] < ss[2]}
  BY DEF OpToRel
<1>3. T \subseteq Nat
  OBVIOUS
<1> HIDE DEF R
<1>4. SUFFICES ASSUME T # {} PROVE FALSE
  OBVIOUS
<1>5. PICK x \in T : \A y \in T : ~ (<<y, x>> \in R)
  BY <1>1, <1>3, <1>4, WFMin
<1>6. x \in Nat /\ x # 0 /\ x - 1 \in Nat /\ x - 1 + 1 = x
  OBVIOUS
<1>7. x - 1 \notin S
  BY <1>6
<1>8. <<x - 1, x>> \in R
  BY <1>2, <1>6
<1> QED
  BY <1>5, <1>6, <1>7, <1>8

(* One member less.                                                        *)
LEMMA TakeOut ==
  ASSUME NEW P, IsFiniteSet(P), NEW S \in SUBSET P
  PROVE  /\ Cardinality(S) \in Nat /\ (Cardinality(S) = 0 <=> S = {})
         /\ \A x \in S : Cardinality(S \ {x}) = Cardinality(S) - 1
         /\ S # {} => Member(S) \in S
<1>1. IsFiniteSet(S)
  BY FS_Subset
<1>2. Cardinality(S) \in Nat
  BY <1>1, FS_CardinalityType
<1>3. Cardinality(S) = 0 <=> S = {}
  BY <1>1, FS_EmptySet
<1>4. ASSUME NEW x \in S PROVE Cardinality(S \ {x}) = Cardinality(S) - 1
  BY <1>1, FS_RemoveElement
<1>5. S # {} => Member(S) \in S
  BY DEF Member
<1> QED
  BY <1>2, <1>3, <1>4, <1>5

LEMMA TotalExists ==
  ASSUME NEW P, IsFiniteSet(P), NEW h \in [P -> Int]
  PROVE  \E g \in [SUBSET P -> Int] : IsTotal(g, h, P)
<1> DEFINE Rule(g, S) == g[S] = IF S = {} THEN 0 ELSE h[Member(S)] + g[S \ {Member(S)}]
           Upto(n) == {S \in SUBSET P : Cardinality(S) <= n}
           N == {n \in Nat : \E g \in [SUBSET P -> Int] : \A S \in Upto(n) : Rule(g, S)}
<1>1. 0 \in N
  <2>1. [S \in SUBSET P |-> 0] \in [SUBSET P -> Int]
    OBVIOUS
  <2>2. \A S \in Upto(0) : S = {}
    BY TakeOut
  <2>3. \A S \in Upto(0) : Rule([T \in SUBSET P |-> 0], S)
    BY <2>2
  <2> QED
    BY <2>1, <2>3
<1>2. ASSUME NEW n \in Nat, n \in N PROVE n + 1 \in N
  <2>1. PICK g \in [SUBSET P -> Int] : \A S \in Upto(n) : Rule(g, S)
    BY <1>2
  <2>2. PICK f : f = [S \in SUBSET P |-> IF Cardinality(S) <= n THEN g[S]
                                         ELSE h[Member(S)] + g[S \ {Member(S)}]]
    OBVIOUS
  <2>3. ASSUME NEW S \in SUBSET P, S # {} PROVE Member(S) \in P /\ S \ {Member(S)} \in SUBSET P
    BY <2>3, TakeOut
  <2>4. f \in [SUBSET P -> Int]
    <3>1. ASSUME NEW S \in SUBSET P
          PROVE  (IF Cardinality(S) <= n THEN g[S] ELSE h[Member(S)] + g[S \ {Member(S)}]) \in Int
      <4>1. CASE Cardinality(S) <= n
        BY <4>1
      <4>2. CASE ~(Cardinality(S) <= n)
        <5>1. S # {}
          BY <4>2, TakeOut
        <5> QED
          BY <4>2, <5>1, <2>3
      <4> QED
        BY <4>1, <4>2
    <3> QED
      BY <2>2, <3>1
  <2>5. ASSUME NEW S \in Upto(n + 1) PROVE Rule(f, S)
    <3>1. CASE S = {}
      <4>1. S \in Upto(n)
        BY <3>1, TakeOut
      <4> QED
        BY <2>1, <2>2, <3>1, <4>1
    <3>2. CASE S # {}
      <4> DEFINE T == S \ {Member(S)}
      <4>1. /\ S \in SUBSET P /\ Member(S) \in S /\ T \in SUBSET P /\ Cardinality(S) \in Nat
            /\ Cardinality(T) = Cardinality(S) - 1 /\ Cardinality(S) <= n + 1
        BY <3>2, TakeOut
      <4>2. Cardinality(T) <= n
        BY <4>1
      <4>3. f[T] = g[T]
        BY <2>2, <4>1, <4>2
      <4>4. f[S] = h[Member(S)] + g[T]
        <5>1. CASE Cardinality(S) <= n
          BY <2>1, <2>2, <3>2, <4>1, <5>1
        <5>2. CASE ~(Cardinality(S) <= n)
          BY <2>2, <4>1, <5>2
        <5> QED
          BY <5>1, <5>2
      <4> QED
        BY <3>2, <4>3, <4>4
    <3> QED
      BY <3>1, <3>2
  <2> QED
    BY <2>4, <2>5
<1>3. Nat \subseteq N
  <2> HIDE DEF N
  <2> QED
    BY <1>1, <1>2, NumberInduction
<1>4. Cardinality(P) \in N
  BY <1>3, TakeOut
<1>5. PICK g \in [SUBSET P -> Int] : \A S \in Upto(Cardinality(P)) : Rule(g, S)
  BY <1>4
<1>6. ASSUME NEW S \in SUBSET P PROVE Rule(g, S)
  <2>1. Cardinality(S) <= Cardinality(P)
    BY FS_Subset
  <2> QED
    BY <1>5, <2>1
<1>7. IsTotal(g, h, P)
  BY <1>6 DEF IsTotal
<1> QED
  BY <1>7

LEMMA TotalRule ==
  ASSUME NEW P, IsFiniteSet(P), NEW h \in [P -> Int], NEW g, IsTotal(g, h, P), NEW S \in SUBSET P
  PROVE  /\ S = {} => g[S] = 0
         /\ S # {} => Member(S) \in S /\ g[S] = h[Member(S)] + g[S \ {Member(S)}]
<1>1. g[S] = IF S = {} THEN 0 ELSE h[Member(S)] + g[S \ {Member(S)}]
  BY DEF IsTotal
<1> QED
  BY <1>1, TakeOut

(* Totals of the same values are the same.                                 *)
LEMMA TotalsAgree ==
  ASSUME NEW P, IsFiniteSet(P), NEW h \in [P -> Int], NEW g, IsTotal(g, h, P),
         NEW Q, IsFiniteSet(Q), NEW k \in [Q -> Int], NEW f, IsTotal(f, k, Q),
         NEW S \in SUBSET P, S \subseteq Q, \A x \in S : h[x] = k[x]
  PROVE  g[S] = f[S]
<1> DEFINE N == {n \in Nat : \A T \in SUBSET S : Cardinality(T) = n => g[T] = f[T]}
<1>1. 0 \in N
  <2>1. ASSUME NEW T \in SUBSET S, Cardinality(T) = 0 PROVE g[T] = f[T]
    <3>1. T = {} /\ T \in SUBSET P /\ T \in SUBSET Q
      <4>1. T \in SUBSET P
        OBVIOUS
      <4> QED
        BY <2>1, <4>1, TakeOut
    <3>2. g[T] = 0
      BY <3>1, TotalRule
    <3>3. f[T] = 0
      BY <3>1, TotalRule
    <3> QED
      BY <3>2, <3>3
  <2> QED
    BY <2>1
<1>2. ASSUME NEW n \in Nat, n \in N PROVE n + 1 \in N
  <2>1. ASSUME NEW T \in SUBSET S, Cardinality(T) = n + 1 PROVE g[T] = f[T]
    <3> DEFINE U == T \ {Member(T)}
    <3>1. T # {}
      <4>1. T \in SUBSET P
        OBVIOUS
      <4> QED
        BY <2>1, <4>1, TakeOut
    <3>2. Member(T) \in T /\ Cardinality(U) = n
      BY <2>1, <3>1, TakeOut
    <3>3. g[U] = f[U]
      BY <1>2, <3>2
    <3>4. g[T] = h[Member(T)] + g[U]
      BY <3>1, TotalRule
    <3>5. f[T] = k[Member(T)] + f[U]
      BY <3>1, TotalRule
    <3>6. h[Member(T)] = k[Member(T)]
      BY <3>2
    <3> QED
      BY <3>3, <3>4, <3>5, <3>6
  <2> QED
    BY <2>1
<1>3. Nat \subseteq N
  <2> HIDE DEF N
  <2> QED
    BY <1>1, <1>2, NumberInduction
<1>4. Cardinality(S) \in N
  BY <1>3, TakeOut
<1> QED
  BY <1>4

(* Whichever member is taken out.                                          *)
Sums(g, h, P) ==
  /\ IsFiniteSet(P) /\ h \in [P -> Int]
  /\ g \in [SUBSET P -> Int] /\ IsTotal(g, h, P)

LEMMA TotalSplits ==
  ASSUME NEW P, NEW h, NEW g, Sums(g, h, P), NEW S \in SUBSET P, NEW x \in S
  PROVE  g[S] = h[x] + g[S \ {x}]
<1>0. IsFiniteSet(P) /\ h \in [P -> Int] /\ g \in [SUBSET P -> Int] /\ IsTotal(g, h, P)
  BY DEF Sums
<1> DEFINE Any(T) == \A y \in T : g[T] = h[y] + g[T \ {y}]
           N == {n \in Nat : \A T \in SUBSET P : Cardinality(T) = n => Any(T)}
<1>1. 0 \in N
  BY <1>0, TakeOut
<1>2. ASSUME NEW n \in Nat, n \in N PROVE n + 1 \in N
  <2>1. ASSUME NEW T \in SUBSET P, Cardinality(T) = n + 1, NEW y \in T PROVE g[T] = h[y] + g[T \ {y}]
    <3>1. PICK c : c = Member(T)
      OBVIOUS
    <3>2. c \in T /\ g[T] = h[c] + g[T \ {c}]
      <4>1. T # {}
        OBVIOUS
      <4>2. Member(T) \in T /\ g[T] = h[Member(T)] + g[T \ {Member(T)}]
        BY <1>0, <4>1, TotalRule
      <4> QED
        BY <3>1, <4>2
    <3>3. CASE y = c
      BY <3>2, <3>3
    <3>4. CASE y # c
      <4>1. T \ {c} \in SUBSET P /\ y \in T \ {c} /\ Cardinality(T \ {c}) = n
        BY <1>0, <2>1, <3>2, <3>4, TakeOut
      <4>2. T \ {y} \in SUBSET P /\ c \in T \ {y} /\ Cardinality(T \ {y}) = n
        BY <1>0, <2>1, <3>2, <3>4, TakeOut
      <4>3. g[T \ {c}] = h[y] + g[(T \ {c}) \ {y}]
        BY <1>2, <4>1
      <4>4. g[T \ {y}] = h[c] + g[(T \ {y}) \ {c}]
        BY <1>2, <4>2
      <4>5. (T \ {c}) \ {y} = (T \ {y}) \ {c}
        OBVIOUS
      <4>6. PICK z \in Int : z = g[(T \ {y}) \ {c}]
        BY <1>0
      <4>7. h[y] \in Int /\ h[c] \in Int
        BY <1>0, <3>2
      <4>8. g[T] = h[c] + (h[y] + z) /\ g[T \ {y}] = h[c] + z
        BY <3>2, <4>3, <4>4, <4>5, <4>6
      <4> QED
        BY <4>7, <4>8
    <3> QED
      BY <3>3, <3>4
  <2>2. ASSUME NEW T \in SUBSET P, Cardinality(T) = n + 1 PROVE Any(T)
    BY <2>1, <2>2
  <2>3. n + 1 \in Nat
    OBVIOUS
  <2> HIDE DEF Any
  <2> QED
    BY <2>2, <2>3
<1>3. Nat \subseteq N
  <2> HIDE DEF N
  <2> QED
    BY <1>1, <1>2, NumberInduction
<1>4. Cardinality(S) \in N
  BY <1>0, <1>3, TakeOut
<1> QED
  BY <1>4

(* A total of numbers above zero is one, unless nothing is added.           *)
LEMMA TotalPositive ==
  ASSUME NEW P, IsFiniteSet(P), NEW h \in [P -> Int], \A y \in P : h[y] >= 1,
         NEW g \in [SUBSET P -> Int], IsTotal(g, h, P)
  PROVE  \A S \in SUBSET P : g[S] >= 0 /\ (S # {} => g[S] >= 1)
<1> DEFINE N == {n \in Nat : \A T \in SUBSET P : Cardinality(T) = n => g[T] >= n}
<1>1. 0 \in N
  <2>1. ASSUME NEW T \in SUBSET P, Cardinality(T) = 0 PROVE g[T] >= 0
    <3>1. T = {}
      BY <2>1, TakeOut
    <3>2. g[T] = 0
      BY <3>1, TotalRule
    <3> QED
      BY <3>2
  <2> QED
    BY <2>1
<1>2. ASSUME NEW n \in Nat, n \in N PROVE n + 1 \in N
  <2>1. ASSUME NEW T \in SUBSET P, Cardinality(T) = n + 1 PROVE g[T] >= n + 1
    <3> DEFINE U == T \ {Member(T)}
    <3>1. T # {}
      BY <2>1, TakeOut
    <3>2. Member(T) \in T /\ U \in SUBSET P /\ Cardinality(U) = n
      BY <2>1, <3>1, TakeOut
    <3>3. g[U] >= n /\ g[U] \in Int
      BY <1>2, <3>2
    <3>4. g[T] = h[Member(T)] + g[U]
      BY <3>1, TotalRule
    <3>5. h[Member(T)] \in Int /\ h[Member(T)] >= 1
      BY <3>2
    <3> QED
      BY <3>3, <3>4, <3>5
  <2> QED
    BY <2>1
<1>3. Nat \subseteq N
  <2> HIDE DEF N
  <2> QED
    BY <1>1, <1>2, NumberInduction
<1>4. ASSUME NEW S \in SUBSET P PROVE g[S] >= 0 /\ (S # {} => g[S] >= 1)
  <2>1. Cardinality(S) \in Nat /\ (S # {} => Cardinality(S) >= 1)
    BY TakeOut
  <2>2. g[S] >= Cardinality(S) /\ g[S] \in Int
    BY <1>3, <2>1
  <2> QED
    BY <2>1, <2>2
<1> QED
  BY <1>4

(* There is one total only.                                                *)
LEMMA TotalUnique ==
  ASSUME NEW P, IsFiniteSet(P), NEW h \in [P -> Int],
         NEW f \in [SUBSET P -> Int], IsTotal(f, h, P), NEW g, IsTotal(g, h, P)
  PROVE  g \in [SUBSET P -> Int]
<1>1. ASSUME NEW S \in SUBSET P PROVE g[S] \in Int
  <2>1. g[S] = f[S]
    BY TotalsAgree
  <2> QED
    BY <2>1
<1>2. PICK b : g = [S \in SUBSET P |-> b[S]]
  <2>1. g = [S \in SUBSET P |-> g[S]]
    BY DEF IsTotal
  <2> QED
    BY <2>1
<1> QED
  BY <1>1, <1>2

(***************************************************************************)
(* How often an arc was counted, of lists of functions and arcs.           *)
(***************************************************************************)
PlacesIn(es, n, a) ==
  {p \in (1..Len(es)) \X (1..n) :
     /\ es[p[1]].self = a[1]
     /\ p[2] \in {j \in 1..Len(es[p[1]].arcs) : es[p[1]].arcs[j].from = a[2]}}
CountIn(es, n, a) ==
  LET total[S \in SUBSET PlacesIn(es, n, a)] ==
        IF S = {} THEN 0
        ELSE LET p == CHOOSE p \in S : TRUE
             IN es[p[1]].arcs[p[2]].count + total[S \ {p}]
  IN total[PlacesIn(es, n, a)]
CountAt(es, p) == es[p[1]].arcs[p[2]].count
Counts(es, P) == [p \in P |-> CountAt(es, p)]

LEMMA CountedIs == ASSUME NEW a PROVE Counted(a) = CountIn(entries, Len(records), a)
BY DEF Counted, CountIn, Places, PlacesIn, ArcsOf

Numbered(es, P) == \A p \in P : CountAt(es, p) \in Int

AddsUp(es, n, a, P) ==
  /\ IsFiniteSet(P) /\ Counts(es, P) \in [P -> Int]
  /\ \E g \in [SUBSET P -> Int] : IsTotal(g, Counts(es, P), P) /\ CountIn(es, n, a) = g[P]

(* What the count of an arc is: a total over its places.                    *)
LEMMA CountIs ==
  ASSUME NEW es, Len(es) \in Nat, NEW n \in Nat, NEW a, Numbered(es, PlacesIn(es, n, a))
  PROVE  AddsUp(es, n, a, PlacesIn(es, n, a))
<1> SUFFICES ASSUME NEW P, P = PlacesIn(es, n, a), Numbered(es, P) PROVE AddsUp(es, n, a, P)
  OBVIOUS
<1>1. IsFiniteSet(P)
  <2>1. IsFiniteSet(1..Len(es)) /\ IsFiniteSet(1..n)
    BY FS_Interval
  <2>2. IsFiniteSet((1..Len(es)) \X (1..n))
    BY <2>1, FS_Product
  <2>3. P \subseteq (1..Len(es)) \X (1..n)
    BY DEF PlacesIn
  <2> QED
    BY <2>2, <2>3, FS_Subset
<1>2. Counts(es, P) \in [P -> Int]
  BY DEF Counts, Numbered
<1> DEFINE Body(g, S) == IF S = {} THEN 0
                         ELSE LET p == CHOOSE p \in S : TRUE
                              IN es[p[1]].arcs[p[2]].count + g[S \ {p}]
           Rule(g) == g = [S \in SUBSET P |-> Body(g, S)]
<1>3. ASSUME NEW g PROVE IsTotal(g, Counts(es, P), P) <=> Rule(g)
  <2> DEFINE Step(S) == IF S = {} THEN 0 ELSE Counts(es, P)[Member(S)] + g[S \ {Member(S)}]
  <2>1. ASSUME NEW S \in SUBSET P PROVE Step(S) = Body(g, S)
    <3>1. CASE S = {}
      BY <3>1
    <3>2. CASE S # {}
      <4>1. Member(S) \in P /\ Member(S) = CHOOSE p \in S : TRUE
        BY <3>2 DEF Member
      <4>2. Counts(es, P)[Member(S)] = es[Member(S)[1]].arcs[Member(S)[2]].count
        BY <4>1 DEF Counts, CountAt
      <4>3. Body(g, S) = es[Member(S)[1]].arcs[Member(S)[2]].count + g[S \ {Member(S)}]
        BY <3>2, <4>1
      <4> QED
        BY <3>2, <4>2, <4>3
    <3> QED
      BY <3>1, <3>2
  <2>2. [S \in SUBSET P |-> Step(S)] = [S \in SUBSET P |-> Body(g, S)]
    <3> HIDE DEF Step, Body
    <3> QED
      BY <2>1
  <2> QED
    BY <2>2 DEF IsTotal
<1>4. CountIn(es, n, a) = (CHOOSE g : Rule(g))[P]
  BY DEF CountIn
<1>5. PICK f \in [SUBSET P -> Int] : IsTotal(f, Counts(es, P), P)
  BY <1>1, <1>2, TotalExists
<1> HIDE DEF Rule
<1>6. Rule(f)
  BY <1>3, <1>5
<1>7. PICK g : g = CHOOSE x : Rule(x)
  OBVIOUS
<1>8. Rule(g)
  BY <1>6, <1>7
<1>9. IsTotal(g, Counts(es, P), P)
  BY <1>3, <1>8
<1>10. g \in [SUBSET P -> Int]
  BY <1>1, <1>2, <1>5, <1>9, TotalUnique
<1> QED
  BY <1>1, <1>2, <1>4, <1>7, <1>9, <1>10 DEF AddsUp

SameAt(es, fs, P) == \A p \in P : CountAt(fs, p) = CountAt(es, p)
OneMorePlace(P, Q, q) == Q = P \cup {q}

LEMMA CountSame ==
  ASSUME NEW es, Len(es) \in Nat, NEW n \in Nat, NEW fs, Len(fs) \in Nat, NEW m \in Nat, NEW a,
         PlacesIn(es, n, a) = PlacesIn(fs, m, a), Numbered(es, PlacesIn(es, n, a)),
         SameAt(es, fs, PlacesIn(es, n, a))
  PROVE  CountIn(fs, m, a) = CountIn(es, n, a)
<1> SUFFICES ASSUME NEW P, P = PlacesIn(es, n, a), P = PlacesIn(fs, m, a), Numbered(es, P),
                    SameAt(es, fs, P)
             PROVE  CountIn(fs, m, a) = CountIn(es, n, a)
  OBVIOUS
<1>0. AddsUp(es, n, a, P)
  BY CountIs
<1>1. PICK g : IsTotal(g, Counts(es, P), P) /\ CountIn(es, n, a) = g[P]
  BY <1>0 DEF AddsUp
<1>2. Numbered(fs, P)
  BY DEF Numbered, SameAt
<1>3. AddsUp(fs, m, a, P)
  BY <1>2, CountIs
<1>7. PICK f : IsTotal(f, Counts(fs, P), P) /\ CountIn(fs, m, a) = f[P]
  BY <1>3 DEF AddsUp
<1>4. \A p \in P : Counts(es, P)[p] = Counts(fs, P)[p]
  BY DEF Counts, SameAt
<1>5. IsFiniteSet(P) /\ Counts(es, P) \in [P -> Int] /\ Counts(fs, P) \in [P -> Int]
  BY <1>0, <1>3 DEF AddsUp
<1>6. g[P] = f[P]
  BY <1>1, <1>7, <1>4, <1>5, TotalsAgree
<1> QED
  BY <1>1, <1>7, <1>6

Differ(h, P, k, Q, q) == Q = P \cup {q} /\ \A x \in P \ {q} : h[x] = k[x]

LEMMA TotalsDiffer ==
  ASSUME NEW P, NEW h, NEW g, Sums(g, h, P), NEW Q, NEW k, NEW f, Sums(f, k, Q),
         NEW q, Differ(h, P, k, Q, q)
  PROVE  /\ g[P] \in Int
         /\ f[Q] = g[P] + k[q] - (IF q \in P THEN h[q] ELSE 0)
<1>0. /\ IsFiniteSet(P) /\ h \in [P -> Int] /\ g \in [SUBSET P -> Int] /\ IsTotal(g, h, P)
      /\ IsFiniteSet(Q) /\ k \in [Q -> Int] /\ f \in [SUBSET Q -> Int] /\ IsTotal(f, k, Q)
  BY DEF Sums
<1>8. Q = P \cup {q} /\ \A x \in P \ {q} : h[x] = k[x]
  BY DEF Differ
<1>1. PICK R : R = P \ {q}
  OBVIOUS
<1>2. R \in SUBSET P /\ R \subseteq Q /\ R = Q \ {q} /\ P \in SUBSET P /\ Q \in SUBSET Q /\ q \in Q
  BY <1>1, <1>8
<1>3. g[R] = f[R]
  BY <1>0, <1>1, <1>2, <1>8, TotalsAgree
<1>4. f[Q] = k[q] + f[R]
  <2>1. PICK S \in SUBSET Q : S = Q
    OBVIOUS
  <2>2. q \in S /\ S \ {q} = R
    BY <1>2, <2>1
  <2>3. f[S] = k[q] + f[S \ {q}]
    BY <2>2, TotalSplits
  <2> QED
    BY <2>1, <2>2, <2>3
<1>5. /\ g[P] \in Int /\ g[R] \in Int /\ k[q] \in Int
  BY <1>0, <1>2
<1>6. CASE q \in P
  <2>1. g[P] = h[q] + g[R]
    <3>1. PICK S \in SUBSET P : S = P
      OBVIOUS
    <3>2. q \in S /\ S \ {q} = R
      BY <1>1, <1>6, <3>1
    <3>3. g[S] = h[q] + g[S \ {q}]
      BY <3>2, TotalSplits
    <3> QED
      BY <3>1, <3>2, <3>3
  <2>2. h[q] \in Int
    BY <1>0, <1>6
  <2> QED
    BY <1>3, <1>4, <1>5, <1>6, <2>1, <2>2
<1>7. CASE q \notin P
  <2>1. R = P
    BY <1>1, <1>7
  <2> QED
    BY <1>3, <1>4, <1>5, <1>7, <2>1
<1> QED
  BY <1>5, <1>6, <1>7

(* One place whose count is another, or that is new.                       *)
LEMMA CountDiffers ==
  ASSUME NEW es, Len(es) \in Nat, NEW n \in Nat, NEW fs, Len(fs) \in Nat, NEW m \in Nat, NEW a,
         NEW q, OneMorePlace(PlacesIn(es, n, a), PlacesIn(fs, m, a), q),
         Numbered(es, PlacesIn(es, n, a)), Numbered(fs, PlacesIn(fs, m, a)),
         SameAt(es, fs, PlacesIn(es, n, a) \ {q})
  PROVE  /\ CountIn(es, n, a) \in Int
         /\ CountIn(fs, m, a) = CountIn(es, n, a) + CountAt(fs, q)
                                  - (IF q \in PlacesIn(es, n, a) THEN CountAt(es, q) ELSE 0)
<1> SUFFICES ASSUME NEW P, P = PlacesIn(es, n, a), NEW Q, Q = PlacesIn(fs, m, a),
                    OneMorePlace(P, Q, q), Numbered(es, P), Numbered(fs, Q), SameAt(es, fs, P \ {q})
             PROVE  /\ CountIn(es, n, a) \in Int
                    /\ CountIn(fs, m, a) = CountIn(es, n, a) + CountAt(fs, q)
                                             - (IF q \in P THEN CountAt(es, q) ELSE 0)
  OBVIOUS
<1>0. AddsUp(es, n, a, P) /\ AddsUp(fs, m, a, Q)
  BY CountIs
<1>1. PICK g \in [SUBSET P -> Int] : IsTotal(g, Counts(es, P), P) /\ CountIn(es, n, a) = g[P]
  BY <1>0 DEF AddsUp
<1>2. PICK f \in [SUBSET Q -> Int] : IsTotal(f, Counts(fs, Q), Q) /\ CountIn(fs, m, a) = f[Q]
  BY <1>0 DEF AddsUp
<1>3. /\ IsFiniteSet(P) /\ Counts(es, P) \in [P -> Int]
      /\ IsFiniteSet(Q) /\ Counts(fs, Q) \in [Q -> Int]
  BY <1>0 DEF AddsUp
<1>4. /\ \A p \in P \ {q} : Counts(es, P)[p] = Counts(fs, Q)[p]
      /\ Counts(fs, Q)[q] = CountAt(fs, q)
      /\ q \in P => Counts(es, P)[q] = CountAt(es, q)
  BY DEF Counts, SameAt, OneMorePlace
<1>5. /\ g[P] \in Int
      /\ f[Q] = g[P] + Counts(fs, Q)[q] - (IF q \in P THEN Counts(es, P)[q] ELSE 0)
  <2>1. PICK h \in [P -> Int] : h = Counts(es, P)
    BY <1>3
  <2>2. PICK k \in [Q -> Int] : k = Counts(fs, Q)
    BY <1>3
  <2>3. Sums(g, h, P) /\ Sums(f, k, Q)
    BY <1>1, <1>2, <1>3, <2>1, <2>2 DEF Sums
  <2>5. Differ(h, P, k, Q, q)
    BY <1>4, <2>1, <2>2 DEF Differ, OneMorePlace
  <2>4. g[P] \in Int /\ f[Q] = g[P] + k[q] - (IF q \in P THEN h[q] ELSE 0)
    BY <2>3, <2>5, TotalsDiffer
  <2> QED
    BY <2>1, <2>2, <2>4
<1> QED
  BY <1>1, <1>2, <1>4, <1>5

LEMMA CountPositive ==
  ASSUME NEW es, Len(es) \in Nat, NEW n \in Nat, NEW a,
         \A p \in PlacesIn(es, n, a) : CountAt(es, p) \in Nat /\ CountAt(es, p) >= 1
  PROVE  /\ CountIn(es, n, a) \in Nat
         /\ PlacesIn(es, n, a) # {} => CountIn(es, n, a) > 0
<1>1. PICK P : P = PlacesIn(es, n, a)
  OBVIOUS
<1>2. Numbered(es, P)
  BY <1>1 DEF Numbered
<1>8. AddsUp(es, n, a, P)
  BY <1>1, <1>2, CountIs
<1>3. PICK g \in [SUBSET P -> Int] : IsTotal(g, Counts(es, P), P) /\ CountIn(es, n, a) = g[P]
  BY <1>8 DEF AddsUp
<1>4. IsFiniteSet(P) /\ Counts(es, P) \in [P -> Int]
  BY <1>8 DEF AddsUp
<1>5. \A p \in P : Counts(es, P)[p] >= 1
  BY <1>1 DEF Counts
<1>6. \A S \in SUBSET P : g[S] >= 0 /\ (S # {} => g[S] >= 1)
  BY <1>3, <1>4, <1>5, TotalPositive
<1>7. g[P] \in Int /\ g[P] >= 0 /\ (P # {} => g[P] >= 1)
  BY <1>6
<1> QED
  BY <1>1, <1>3, <1>7

ArcType   == [from : Callers, count : Nat \ {0}]
EntryType == [self : Functions, arcs : Seq(ArcType)]
Lists(es) == es \in Seq(EntryType)
Fit(es, n) == \A i \in 1..Len(es) : Len(es[i].arcs) <= n

(* What stands on the lists.                                                *)
LEMMA ListsAre ==
  ASSUME NEW es, Lists(es)
  PROVE  /\ Len(es) \in Nat
         /\ \A i \in 1..Len(es) : /\ es[i] \in EntryType /\ es[i].self \in Functions
                                  /\ es[i].arcs \in Seq(ArcType) /\ Len(es[i].arcs) \in Nat
         /\ \A i \in 1..Len(es) : \A j \in 1..Len(es[i].arcs) :
              /\ es[i].arcs[j] \in ArcType /\ es[i].arcs[j].from \in Callers
              /\ es[i].arcs[j].count \in Nat /\ es[i].arcs[j].count >= 1
<1>1. Len(es) \in Nat
  BY DEF Lists
<1>2. ASSUME NEW i \in 1..Len(es)
      PROVE  es[i] \in EntryType /\ es[i].self \in Functions /\ es[i].arcs \in Seq(ArcType)
  <2>1. es[i] \in EntryType
    BY DEF Lists
  <2> QED
    BY <2>1 DEF EntryType
<1>3. ASSUME NEW A, A \in Seq(ArcType), NEW j \in 1..Len(A)
      PROVE  A[j] \in ArcType /\ A[j].from \in Callers /\ A[j].count \in Nat /\ A[j].count >= 1
  <2>1. A[j] \in ArcType
    BY <1>3
  <2> QED
    BY <2>1 DEF ArcType
<1>4. ASSUME NEW A, A \in Seq(ArcType) PROVE Len(A) \in Nat
  BY <1>4
<1> QED
  BY <1>1, <1>2, <1>3, <1>4

(* The places of an arc are numbered as far as the lists go.               *)
LEMMA PlaceIs ==
  ASSUME NEW es, Lists(es), NEW n \in Nat, Fit(es, n), NEW a, NEW i, NEW j
  PROVE  /\ <<i, j>> \in PlacesIn(es, n, a) <=>
              /\ i \in 1..Len(es) /\ es[i].self = a[1]
              /\ j \in 1..Len(es[i].arcs) /\ es[i].arcs[j].from = a[2]
         /\ CountAt(es, <<i, j>>) = es[i].arcs[j].count
<1>1. ASSUME i \in 1..Len(es), j \in 1..Len(es[i].arcs) PROVE j \in 1..n
  <2>1. Len(es[i].arcs) \in Nat /\ Len(es[i].arcs) <= n
    BY <1>1, ListsAre DEF Fit
  <2> QED
    BY <1>1, <2>1
<1> QED
  BY <1>1 DEF PlacesIn, CountAt

LEMMA PlacesNumbered ==
  ASSUME NEW es, Lists(es), NEW n \in Nat, Fit(es, n), NEW a
  PROVE  /\ \A p \in PlacesIn(es, n, a) : CountAt(es, p) \in Nat /\ CountAt(es, p) >= 1
         /\ Numbered(es, PlacesIn(es, n, a)) /\ Len(es) \in Nat
         /\ \A p \in PlacesIn(es, n, a) : p = <<p[1], p[2]>>
<1>1. ASSUME NEW p \in PlacesIn(es, n, a)
      PROVE  /\ p = <<p[1], p[2]>> /\ CountAt(es, p) \in Nat /\ CountAt(es, p) >= 1
  <2>1. p = <<p[1], p[2]>>
    BY DEF PlacesIn
  <2>2. p[1] \in 1..Len(es) /\ p[2] \in 1..Len(es[p[1]].arcs)
    BY DEF PlacesIn
  <2> QED
    BY <2>1, <2>2, ListsAre DEF CountAt
<1> QED
  BY <1>1, ListsAre DEF Numbered

(* What is left of the lists in a step that changes one arc.               *)
Alike(es, fs, i) == \A k \in 1..Len(es) : k # i => fs[k] = es[k]

AlikeArcs(A, B, j) ==
  /\ Len(B) = Len(A)
  /\ \A l \in 1..Len(A) : B[l].from = A[l].from /\ (l # j => B[l] = A[l])
Bumped(es, fs, i, j) ==
  /\ i \in 1..Len(es) /\ j \in 1..Len(es[i].arcs) /\ Len(fs) = Len(es) /\ Alike(es, fs, i)
  /\ fs[i].self = es[i].self /\ AlikeArcs(es[i].arcs, fs[i].arcs, j)

(* Counting up at a place of the arc.                                       *)
LEMMA CountBumped ==
  ASSUME NEW es, Lists(es), NEW fs, Lists(fs), NEW n \in Nat, Fit(es, n), NEW a,
         NEW i, NEW j, Bumped(es, fs, i, j)
  PROVE  /\ Fit(fs, n) /\ CountIn(es, n, a) \in Int
         /\ CountIn(fs, n, a) = CountIn(es, n, a) +
              (IF a[1] = es[i].self /\ a[2] = es[i].arcs[j].from
               THEN fs[i].arcs[j].count - es[i].arcs[j].count ELSE 0)
         /\ PlacesIn(fs, n, a) = PlacesIn(es, n, a)
<1>0. /\ i \in 1..Len(es) /\ j \in 1..Len(es[i].arcs) /\ Len(fs) = Len(es) /\ Alike(es, fs, i)
      /\ fs[i].self = es[i].self /\ Len(fs[i].arcs) = Len(es[i].arcs)
  BY DEF Bumped, AlikeArcs
<1>9. ASSUME NEW l \in 1..Len(es[i].arcs)
      PROVE  fs[i].arcs[l].from = es[i].arcs[l].from /\ (l # j => fs[i].arcs[l] = es[i].arcs[l])
  <2>1. PICK A, B : A = es[i].arcs /\ B = fs[i].arcs /\ AlikeArcs(A, B, j)
    BY DEF Bumped
  <2>2. l \in 1..Len(A)
    BY <2>1
  <2>3. B[l].from = A[l].from /\ (l # j => B[l] = A[l])
    BY <2>1, <2>2 DEF AlikeArcs
  <2> QED
    BY <2>1, <2>3
<1>1. Fit(fs, n)
  <2>1. ASSUME NEW k \in 1..Len(fs) PROVE Len(fs[k].arcs) <= n
    BY <1>0 DEF Fit, Alike
  <2> QED
    BY <2>1 DEF Fit
<1> DEFINE P == PlacesIn(es, n, a)
           q == <<i, j>>
<1>2. PlacesIn(fs, n, a) = P
  <2>1. ASSUME NEW p PROVE p \in PlacesIn(fs, n, a) <=> p \in P
    <3>1. ASSUME NEW k, NEW l PROVE <<k, l>> \in PlacesIn(fs, n, a) <=> <<k, l>> \in P
      <4>1. CASE k = i
        <5>1. /\ <<i, l>> \in PlacesIn(fs, n, a) <=>
                  fs[i].self = a[1] /\ l \in 1..Len(fs[i].arcs) /\ fs[i].arcs[l].from = a[2]
              /\ <<i, l>> \in P <=>
                  es[i].self = a[1] /\ l \in 1..Len(es[i].arcs) /\ es[i].arcs[l].from = a[2]
          BY <1>0, <1>1, PlaceIs
        <5>2. l \in 1..Len(es[i].arcs) => fs[i].arcs[l].from = es[i].arcs[l].from
          BY <1>9
        <5> HIDE DEF P
        <5>3. fs[i].self = es[i].self /\ Len(fs[i].arcs) = Len(es[i].arcs)
          BY <1>0
        <5> QED
          BY <4>1, <5>1, <5>2, <5>3
      <4>2. CASE k # i
        <5>1. k \in 1..Len(es) => fs[k] = es[k]
          BY <1>0, <4>2 DEF Alike
        <5> QED
          BY <1>0, <1>1, <4>2, <5>1, PlaceIs
      <4> QED
        BY <4>1, <4>2
    <3>2. p \in PlacesIn(fs, n, a) \/ p \in P => p = <<p[1], p[2]>>
      BY <1>1, PlacesNumbered
    <3> QED
      BY <3>1, <3>2
  <2> QED
    BY <2>1
<1>3. ASSUME NEW p \in P \ {q} PROVE CountAt(fs, p) = CountAt(es, p)
  <2>1. p = <<p[1], p[2]>>
    BY PlacesNumbered
  <2>2. /\ p[1] \in 1..Len(es) /\ p[2] \in 1..Len(es[p[1]].arcs)
        /\ CountAt(es, p) = es[p[1]].arcs[p[2]].count /\ CountAt(fs, p) = fs[p[1]].arcs[p[2]].count
    BY DEF PlacesIn, CountAt
  <2>3. CASE p[1] = i
    <3>1. p[2] # j
      BY <2>1, <2>3
    <3>2. fs[i].arcs[p[2]] = es[i].arcs[p[2]]
      <4>1. PICK l \in 1..Len(es[i].arcs) : l = p[2]
        BY <2>2, <2>3
      <4>2. fs[i].arcs[l] = es[i].arcs[l]
        BY <1>9, <3>1, <4>1
      <4> QED
        BY <4>1, <4>2
    <3> QED
      BY <2>2, <2>3, <3>2
  <2>4. CASE p[1] # i
    BY <1>0, <2>2, <2>4 DEF Alike
  <2> QED
    BY <2>3, <2>4
<1>4. /\ Numbered(es, P) /\ Numbered(fs, P) /\ Len(es) \in Nat /\ Len(fs) \in Nat
  BY <1>1, <1>2, PlacesNumbered
<1>5. /\ q \in P <=> a[1] = es[i].self /\ a[2] = es[i].arcs[j].from
      /\ CountAt(es, q) = es[i].arcs[j].count /\ CountAt(fs, q) = fs[i].arcs[j].count
  <2>1. q \in P <=> a[1] = es[i].self /\ a[2] = es[i].arcs[j].from
    BY <1>0, PlaceIs
  <2> QED
    BY <2>1 DEF CountAt
<1> HIDE DEF P, q
<1>6. CASE q \in P
  <2>1. OneMorePlace(P, P, q) /\ SameAt(es, fs, P \ {q})
    BY <1>3, <1>6 DEF OneMorePlace, SameAt
  <2>2. /\ CountIn(es, n, a) \in Int
        /\ CountIn(fs, n, a) = CountIn(es, n, a) + CountAt(fs, q) - CountAt(es, q)
    <3>1. /\ CountIn(es, n, a) \in Int
          /\ CountIn(fs, n, a) = CountIn(es, n, a) + CountAt(fs, q)
                                   - (IF q \in P THEN CountAt(es, q) ELSE 0)
      BY <1>2, <1>4, <2>1, CountDiffers DEF P
    <3> QED
      BY <1>6, <3>1
  <2>3. CountAt(fs, q) \in Int /\ CountAt(es, q) \in Int
    BY <1>4, <1>6 DEF Numbered
  <2> QED
    BY <1>1, <1>2, <1>5, <1>6, <2>2, <2>3 DEF P
<1>7. CASE q \notin P
  <2>4. SameAt(es, fs, P)
    BY <1>3, <1>7 DEF SameAt
  <2>2. CountIn(fs, n, a) = CountIn(es, n, a)
    BY <1>2, <1>4, <2>4, CountSame DEF P
  <2>3. CountIn(es, n, a) \in Int
    BY <1>4, PlacesNumbered, CountPositive
  <2> QED
    BY <1>1, <1>2, <1>5, <1>7, <2>2, <2>3 DEF P
<1> QED
  BY <1>6, <1>7

Longer(A, B, arc) ==
  /\ Len(B) = Len(A) + 1 /\ B[Len(A) + 1] = arc
  /\ \A l \in 1..Len(A) : B[l] = A[l]
ArcAdded(es, fs, i, arc) ==
  /\ i \in 1..Len(es) /\ Len(fs) = Len(es) /\ Alike(es, fs, i)
  /\ fs[i].self = es[i].self /\ Longer(es[i].arcs, fs[i].arcs, arc)

OneMoreOn(es, n, fs, m, i, arc, a) ==
  CountIn(fs, m, a) = CountIn(es, n, a) + (IF a[1] = es[i].self /\ a[2] = arc.from THEN arc.count ELSE 0)

(* A new place of the arc.                                                  *)
LEMMA CountAdded ==
  ASSUME NEW es, Lists(es), NEW fs, Lists(fs), NEW n \in Nat, Fit(es, n),
         NEW m \in Nat, n < m, NEW a,
         NEW i, NEW arc, ArcAdded(es, fs, i, arc)
  PROVE  Fit(fs, m) /\ OneMoreOn(es, n, fs, m, i, arc, a)
<1>0. /\ i \in 1..Len(es) /\ Len(fs) = Len(es) /\ Alike(es, fs, i) /\ fs[i].self = es[i].self
      /\ Longer(es[i].arcs, fs[i].arcs, arc)
  BY DEF ArcAdded
<1>8. /\ Len(es) \in Nat
      /\ \A k \in 1..Len(es) : Len(es[k].arcs) \in Nat /\ Len(es[k].arcs) <= n
  BY ListsAre DEF Fit
<1> DEFINE last == Len(es[i].arcs) + 1
<1>9. /\ Len(fs[i].arcs) = last /\ fs[i].arcs[last] = arc /\ last \in Nat
      /\ \A l : l \in 1..last <=> l \in 1..Len(es[i].arcs) \/ l = last
  BY <1>0, <1>8 DEF Longer
<1>10. ASSUME NEW l \in 1..Len(es[i].arcs) PROVE fs[i].arcs[l] = es[i].arcs[l] /\ l # last
  <2>1. PICK A, B : A = es[i].arcs /\ B = fs[i].arcs /\ Longer(A, B, arc)
    BY <1>0
  <2>2. B[l] = A[l]
    BY <2>1 DEF Longer
  <2>3. l # last
    BY <1>0, <1>8
  <2> QED
    BY <2>1, <2>2, <2>3
<1> HIDE DEF last
<1>1. Fit(fs, m)
  <2>1. ASSUME NEW k \in 1..Len(fs) PROVE Len(fs[k].arcs) <= m
    <3>1. CASE k = i
      BY <1>0, <1>8, <1>9, <3>1 DEF last
    <3>2. CASE k # i
      <4>1. fs[k] = es[k]
        BY <1>0, <3>2 DEF Alike
      <4> QED
        BY <1>0, <1>8, <4>1
    <3> QED
      BY <3>1, <3>2
  <2> QED
    BY <2>1 DEF Fit
<1> DEFINE P == PlacesIn(es, n, a)
           Q == PlacesIn(fs, m, a)
           q == <<i, last>>
<1>2. q \in Q <=> a[1] = es[i].self /\ a[2] = arc.from
  <2>1. q \in Q <=> /\ i \in 1..Len(fs) /\ fs[i].self = a[1]
                    /\ last \in 1..Len(fs[i].arcs) /\ fs[i].arcs[last].from = a[2]
    BY <1>1, <1>8, PlaceIs
  <2>2. last \in 1..Len(fs[i].arcs)
    BY <1>9
  <2> QED
    BY <1>0, <1>9, <2>1, <2>2
<1>3. q \notin P
  <2>1. q \in P => last \in 1..Len(es[i].arcs)
    BY PlaceIs
  <2> QED
    BY <1>10, <2>1
<1>4. ASSUME NEW p PROVE p \in Q <=> p \in P \/ (p = q /\ q \in Q)
  <2>1. ASSUME NEW k, NEW l PROVE <<k, l>> \in Q <=> <<k, l>> \in P \/ (<<k, l>> = q /\ q \in Q)
    <3>1. CASE k = i
      <4>1. /\ <<i, l>> \in Q <=>
                 fs[i].self = a[1] /\ l \in 1..Len(fs[i].arcs) /\ fs[i].arcs[l].from = a[2]
            /\ <<i, l>> \in P <=>
                 es[i].self = a[1] /\ l \in 1..Len(es[i].arcs) /\ es[i].arcs[l].from = a[2]
        <5>1. <<i, l>> \in Q <=>
                 fs[i].self = a[1] /\ l \in 1..Len(fs[i].arcs) /\ fs[i].arcs[l].from = a[2]
          <6>1. i \in 1..Len(fs)
            BY <1>0
          <6> QED
            BY <1>1, <6>1, PlaceIs
        <5>2. <<i, l>> \in P <=>
                 es[i].self = a[1] /\ l \in 1..Len(es[i].arcs) /\ es[i].arcs[l].from = a[2]
          BY <1>0, PlaceIs
        <5> QED
          BY <5>1, <5>2
      <4>2. l \in 1..Len(fs[i].arcs) <=> l \in 1..Len(es[i].arcs) \/ l = last
        BY <1>9
      <4>3. l \in 1..Len(es[i].arcs) => fs[i].arcs[l] = es[i].arcs[l] /\ l # last
        BY <1>10
      <4> HIDE DEF P, Q
      <4>4. <<i, l>> = q <=> l = last
        OBVIOUS
      <4>5. CASE l = last
        BY <1>3, <3>1, <4>4, <4>5
      <4>6. CASE l # last
        BY <1>0, <3>1, <4>1, <4>2, <4>3, <4>4, <4>6
      <4> QED
        BY <4>5, <4>6
    <3>2. CASE k # i
      <4>1. k \in 1..Len(es) => fs[k] = es[k]
        BY <1>0, <3>2 DEF Alike
      <4>2. /\ <<k, l>> \in Q <=>
                 /\ k \in 1..Len(fs) /\ fs[k].self = a[1]
                 /\ l \in 1..Len(fs[k].arcs) /\ fs[k].arcs[l].from = a[2]
            /\ <<k, l>> \in P <=>
                 /\ k \in 1..Len(es) /\ es[k].self = a[1]
                 /\ l \in 1..Len(es[k].arcs) /\ es[k].arcs[l].from = a[2]
        BY <1>1, <1>8, PlaceIs
      <4> HIDE DEF P, Q
      <4>3. <<k, l>> # q
        BY <3>2
      <4> QED
        BY <1>0, <4>1, <4>2, <4>3
    <3> QED
      BY <3>1, <3>2
  <2>2. p \in Q \/ p \in P => p = <<p[1], p[2]>>
    BY <1>1, <1>8, PlacesNumbered
  <2> HIDE DEF P, Q
  <2> QED
    BY <2>1, <2>2
<1>5. ASSUME NEW p \in P PROVE CountAt(fs, p) = CountAt(es, p)
  <2>2. /\ p[1] \in 1..Len(es) /\ p[2] \in 1..Len(es[p[1]].arcs)
        /\ CountAt(es, p) = es[p[1]].arcs[p[2]].count /\ CountAt(fs, p) = fs[p[1]].arcs[p[2]].count
    BY DEF PlacesIn, CountAt
  <2>3. CASE p[1] = i
    <3>1. PICK l \in 1..Len(es[i].arcs) : l = p[2]
      BY <2>2, <2>3
    <3>2. fs[i].arcs[l] = es[i].arcs[l]
      BY <1>10
    <3> QED
      BY <2>2, <2>3, <3>1, <3>2
  <2>4. CASE p[1] # i
    BY <1>0, <2>2, <2>4 DEF Alike
  <2> QED
    BY <2>3, <2>4
<1>6. /\ Numbered(es, P) /\ Numbered(fs, Q) /\ Len(es) \in Nat /\ Len(fs) \in Nat
      /\ CountAt(fs, q) = arc.count
  <2>1. /\ Numbered(es, P) /\ Numbered(fs, Q) /\ Len(es) \in Nat /\ Len(fs) \in Nat
    BY <1>1, <1>8, PlacesNumbered
  <2>2. CountAt(fs, q) = arc.count
    BY <1>9 DEF CountAt
  <2> QED
    BY <2>1, <2>2
<1>11. CountIn(es, n, a) \in Int
  BY <1>6, PlacesNumbered, CountPositive
<1> HIDE DEF q
<1>12. CASE q \in Q
  <2>1. OneMorePlace(P, Q, q) /\ SameAt(es, fs, P \ {q})
    <3> HIDE DEF P, Q
    <3> QED
      BY <1>4, <1>5, <1>12 DEF OneMorePlace, SameAt
  <2>2. CountIn(fs, m, a) = CountIn(es, n, a) + CountAt(fs, q)
                                  - (IF q \in P THEN CountAt(es, q) ELSE 0)
    BY <1>6, <1>8, <2>1, CountDiffers
  <2>3. arc.count \in Int
    BY <1>6, <1>12 DEF Numbered
  <2> HIDE DEF P, Q
  <2> QED
    BY <1>1, <1>2, <1>3, <1>6, <1>11, <1>12, <2>2, <2>3 DEF OneMoreOn
<1>13. CASE q \notin Q
  <2>1. Q = P /\ SameAt(es, fs, P)
    <3> HIDE DEF P, Q
    <3> QED
      BY <1>4, <1>5, <1>13 DEF SameAt
  <2>2. CountIn(fs, m, a) = CountIn(es, n, a)
    BY <1>6, <1>8, <2>1, CountSame
  <2> HIDE DEF P, Q
  <2> QED
    BY <1>1, <1>2, <1>11, <1>13, <2>2 DEF OneMoreOn
<1> QED
  BY <1>12, <1>13

EntryAdded(es, fs) ==
  /\ Len(fs) = Len(es) + 1 /\ Len(fs[Len(fs)].arcs) = 0
  /\ \A k \in 1..Len(es) : fs[k] = es[k]

(* A function without arcs adds nothing.                                    *)
LEMMA CountKept ==
  ASSUME NEW es, Lists(es), NEW fs, Lists(fs), NEW n \in Nat, Fit(es, n), NEW a, EntryAdded(es, fs)
  PROVE  /\ Fit(fs, n + 1) /\ CountIn(fs, n + 1, a) = CountIn(es, n, a)
<1>1. /\ n + 1 \in Nat /\ Len(es) \in Nat /\ Len(fs) = Len(es) + 1 /\ Len(fs[Len(fs)].arcs) = 0
      /\ \A k \in 1..Len(es) : fs[k] = es[k] /\ Len(es[k].arcs) \in Nat /\ Len(es[k].arcs) <= n
      /\ \A k \in 1..Len(fs) : k \in 1..Len(es) \/ k = Len(fs)
      /\ \A k \in 1..Len(es) : k \in 1..Len(fs)
  BY ListsAre DEF Fit, EntryAdded
<1>2. Fit(fs, n + 1)
  <2>1. ASSUME NEW k \in 1..Len(fs) PROVE Len(fs[k].arcs) <= n + 1
    BY <1>1
  <2> QED
    BY <2>1 DEF Fit
<1>3. PlacesIn(fs, n + 1, a) = PlacesIn(es, n, a)
  <2>1. ASSUME NEW k, NEW l PROVE <<k, l>> \in PlacesIn(fs, n + 1, a) <=> <<k, l>> \in PlacesIn(es, n, a)
    <3>1. /\ <<k, l>> \in PlacesIn(fs, n + 1, a) <=>
               /\ k \in 1..Len(fs) /\ fs[k].self = a[1]
               /\ l \in 1..Len(fs[k].arcs) /\ fs[k].arcs[l].from = a[2]
          /\ <<k, l>> \in PlacesIn(es, n, a) <=>
               /\ k \in 1..Len(es) /\ es[k].self = a[1]
               /\ l \in 1..Len(es[k].arcs) /\ es[k].arcs[l].from = a[2]
      <4>1. PICK m \in Nat : m = n + 1
        BY <1>1
      <4>2. Fit(fs, m)
        BY <1>2, <4>1
      <4>3. <<k, l>> \in PlacesIn(fs, m, a) <=>
               /\ k \in 1..Len(fs) /\ fs[k].self = a[1]
               /\ l \in 1..Len(fs[k].arcs) /\ fs[k].arcs[l].from = a[2]
        BY <4>2, PlaceIs
      <4>4. <<k, l>> \in PlacesIn(es, n, a) <=>
               /\ k \in 1..Len(es) /\ es[k].self = a[1]
               /\ l \in 1..Len(es[k].arcs) /\ es[k].arcs[l].from = a[2]
        BY PlaceIs
      <4> QED
        BY <4>1, <4>3, <4>4
    <3>2. k \in 1..Len(fs) /\ l \in 1..Len(fs[k].arcs) => k \in 1..Len(es)
      BY <1>1
    <3>3. k \in 1..Len(es) => fs[k] = es[k] /\ k \in 1..Len(fs)
      BY <1>1
    <3> QED
      BY <3>1, <3>2, <3>3
  <2>2. ASSUME NEW p PROVE p \in PlacesIn(fs, n + 1, a) \/ p \in PlacesIn(es, n, a) => p = <<p[1], p[2]>>
    BY <1>1, <1>2, PlacesNumbered
  <2> QED
    BY <2>1, <2>2
<1>4. SameAt(es, fs, PlacesIn(es, n, a))
  <2>1. ASSUME NEW p \in PlacesIn(es, n, a) PROVE CountAt(fs, p) = CountAt(es, p)
    BY <1>1 DEF PlacesIn, CountAt
  <2> QED
    BY <2>1 DEF SameAt
<1>5. Numbered(es, PlacesIn(es, n, a)) /\ Len(fs) \in Nat
  BY <1>1, PlacesNumbered
<1> QED
  BY <1>1, <1>2, <1>3, <1>4, <1>5, CountSame

(***************************************************************************)
(* Every call is counted.  A context that has entered mcount and not yet   *)
(* counted owes its arc one call.                                          *)
(***************************************************************************)
Busy(c) == c.pc \notin {"run", "app"} /\ ~(c.pc = "extend" /\ c.ret = "app")
Due(c, a) == IF Busy(c) /\ a = <<c.self, c.from>> THEN 1 ELSE 0
Dues(a) == Due(contexts[1], a) + (IF Len(contexts) = 2 THEN Due(contexts[2], a) ELSE 0)

(* What the search has found is still on the lists.                        *)
Chosen(es, c) ==
  /\ c.self \in Functions /\ c.from \in Callers /\ c.entry \in 0..Len(es)
  /\ c.entry # 0 => es[c.entry].self = c.self
ChosenArc(es, c) ==
  /\ c.entry # 0 /\ c.arc \in 1..Len(es[c.entry].arcs)
  /\ es[c.entry].arcs[c.arc].from = c.from
  /\ c.count \in Nat /\ c.count >= 1
Listed(es, c) == (Busy(c) => Chosen(es, c)) /\ (c.pc = "count" => ChosenArc(es, c))

Total(a) == CountIn(entries, Len(records), a)
Balance(a) == /\ Total(a) + lost[a] + Dues(a) = calls[a]
              /\ calls[a] > 0 => Total(a) + Dues(a) > 0
Ledgers == /\ Lists(entries) /\ Fit(entries, Len(records)) /\ Len(records) \in Nat
           /\ calls \in [Arcs -> Nat] /\ lost \in [Arcs -> Int]
Counting == ~wild => /\ Ledgers
                     /\ \A k \in 1..Len(contexts) : Listed(entries, contexts[k])
                     /\ \A a \in Arcs : Balance(a)

LEMMA DuesAre == ASSUME NEW a, NEW c PROVE Due(c, a) \in {0, 1} /\ Dues(a) \in Nat
BY DEF Due, Dues

(* What a step of the running context changes in what is owed.              *)
LEMMA DuesPut ==
  ASSUME Stack, NEW c, Put(c), NEW a
  PROVE  Dues(a)' = Dues(a) - Due(Context, a) + Due(c, a)
<1>1. /\ Len(contexts)' = Len(contexts)
      /\ Len(contexts) = 1 => contexts' = <<c>>
      /\ Len(contexts) = 2 => contexts' = <<contexts[1], c>>
  BY PutTop
<1>2. \A x : Due(x, a) \in {0, 1}
  BY DEF Due
<1>3. \A x : Due(x, a)' = Due(x, a)
  BY DEF Due, Busy
<1>4. CASE Len(contexts) = 1
  <2>1. Dues(a) = Due(contexts[1], a) /\ Context = contexts[1]
    BY <1>2, <1>4 DEF Dues, Context
  <2>2. Dues(a)' = Due(c, a)
    <3>1. Dues(a)' = Due(contexts'[1], a) + (IF Len(contexts') = 2 THEN Due(contexts'[2], a) ELSE 0)
      BY DEF Dues, Due, Busy
    <3>2. contexts'[1] = c /\ Len(contexts') = 1
      BY <1>1, <1>4
    <3> QED
      BY <1>2, <3>1, <3>2
  <2> QED
    BY <1>2, <2>1, <2>2
<1>5. CASE Len(contexts) = 2
  <2>1. Dues(a) = Due(contexts[1], a) + Due(contexts[2], a) /\ Context = contexts[2]
    BY <1>5 DEF Dues, Context
  <2>2. Dues(a)' = Due(contexts[1], a) + Due(c, a)
    <3>1. Dues(a)' = Due(contexts'[1], a) + (IF Len(contexts') = 2 THEN Due(contexts'[2], a) ELSE 0)
      BY DEF Dues, Due, Busy
    <3>2. contexts'[1] = contexts[1] /\ contexts'[2] = c /\ Len(contexts') = 2
      BY <1>1, <1>5
    <3> QED
      BY <3>1, <3>2
  <2>3. Due(contexts[1], a) \in {0, 1} /\ Due(contexts[2], a) \in {0, 1} /\ Due(c, a) \in {0, 1}
    BY <1>2
  <2> QED
    BY <2>1, <2>2, <2>3
<1> QED
  BY <1>4, <1>5 DEF Stack

(* The lists only grow.                                                    *)
GrownLists(es, fs) ==
  \A i \in 1..Len(es) :
    /\ i \in 1..Len(fs) /\ fs[i].self = es[i].self
    /\ \A j \in 1..Len(es[i].arcs) : j \in 1..Len(fs[i].arcs) /\ fs[i].arcs[j].from = es[i].arcs[j].from

LEMMA StillListed ==
  ASSUME NEW es, Lists(es), NEW fs, Lists(fs), GrownLists(es, fs), NEW c, Listed(es, c)
  PROVE  Listed(fs, c)
<1>1. Len(es) \in Nat /\ Len(fs) \in Nat
  BY ListsAre
<1>2. ASSUME Chosen(es, c) PROVE Chosen(fs, c)
  <2>1. c.self \in Functions /\ c.from \in Callers /\ c.entry \in 0..Len(es)
    BY <1>2 DEF Chosen
  <2>2. CASE c.entry = 0
    BY <1>1, <2>1, <2>2 DEF Chosen
  <2>3. CASE c.entry # 0
    <3>1. PICK i : i = c.entry
      OBVIOUS
    <3>2. i \in 1..Len(es) /\ es[i].self = c.self
      BY <1>1, <1>2, <2>1, <2>3, <3>1 DEF Chosen
    <3>3. i \in 1..Len(fs) /\ fs[i].self = c.self
      BY <3>2 DEF GrownLists
    <3> QED
      BY <1>1, <2>1, <3>1, <3>3 DEF Chosen
  <2> QED
    BY <2>2, <2>3
<1>3. ASSUME Chosen(es, c), ChosenArc(es, c) PROVE ChosenArc(fs, c)
  <2>1. PICK i, j : i = c.entry /\ j = c.arc
    OBVIOUS
  <2>2. /\ i # 0 /\ i \in 1..Len(es) /\ j \in 1..Len(es[i].arcs) /\ es[i].arcs[j].from = c.from
        /\ c.count \in Nat /\ c.count >= 1
    BY <1>1, <1>3, <2>1 DEF Chosen, ChosenArc
  <2>3. j \in 1..Len(fs[i].arcs) /\ fs[i].arcs[j].from = c.from
    BY <2>2 DEF GrownLists
  <2> QED
    BY <2>1, <2>2, <2>3 DEF ChosenArc
<1>4. c.pc = "count" => Busy(c)
  BY DEF Busy
<1> QED
  BY <1>2, <1>3, <1>4 DEF Listed

LEMMA TopListed ==
  ASSUME Counting, ~wild, Stack
  PROVE  /\ Ledgers /\ Listed(entries, Context)
         /\ Len(contexts) = 2 => Listed(entries, contexts[1])
         /\ \A a \in Arcs : Balance(a)
<1>1. Len(contexts) \in 1..Len(contexts) /\ 1 \in 1..Len(contexts)
  BY DEF Stack
<1> QED
  BY <1>1 DEF Counting, Context

LEMMA CountingStep ==
  ASSUME Counting, ~wild, Stack, NEW c, Put(c), Ledgers', GrownLists(entries, entries'),
         Listed(entries', c), \A a \in Arcs : Balance(a)'
  PROVE  Counting'
<1>1. Ledgers /\ (Len(contexts) = 2 => Listed(entries, contexts[1]))
  BY TopListed
<1>2. Len(contexts) = 2 => Listed(entries', contexts[1])
  BY <1>1, StillListed DEF Ledgers
<1>3. ASSUME NEW k \in 1..Len(contexts') PROVE Listed(entries', contexts'[k])
  <2>1. contexts'[k] = c \/ (Len(contexts) = 2 /\ contexts'[k] = contexts[1])
    BY PutTop DEF Stack
  <2> QED
    BY <1>2, <2>1
<1>4. \A k \in 1..Len(contexts)' : Listed(entries, contexts[k])'
  BY <1>3 DEF Listed, Busy, Chosen, ChosenArc
<1> QED
  BY <1>4 DEF Counting

LEMMA SameLists == ASSUME NEW es PROVE GrownLists(es, es)
BY DEF GrownLists

(* Steps that neither enter mcount nor count.                              *)
LEMMA NothingCounted ==
  ASSUME Counting, ~wild, Stack, UNCHANGED <<entries, records, calls, lost>>,
         NEW c, Put(c), Listed(entries, c), \A a : Due(c, a) = Due(Context, a)
  PROVE  Counting'
<1>1. Ledgers /\ \A a \in Arcs : Balance(a)
  BY TopListed
<1>2. entries' = entries /\ records' = records /\ calls' = calls /\ lost' = lost
  OBVIOUS
<1>3. Ledgers'
  BY <1>1, <1>2 DEF Ledgers
<1>4. ASSUME NEW a \in Arcs PROVE Balance(a)'
  <2>1. Dues(a)' = Dues(a) - Due(Context, a) + Due(c, a) /\ Due(c, a) = Due(Context, a)
    BY DuesPut
  <2>2. Dues(a) \in Nat /\ Due(c, a) \in {0, 1}
    BY DuesAre
  <2>3. Dues(a)' = Dues(a)
    BY <2>1, <2>2
  <2> QED
    BY <1>1, <1>2, <2>3 DEF Balance, Total
<1>5. GrownLists(entries, entries') /\ Listed(entries', c)
  BY <1>2, SameLists
<1> QED
  BY <1>3, <1>4, <1>5, CountingStep

LEMMA IdleOwesNothing == ASSUME NEW es PROVE ~Busy(Idle) /\ Listed(es, Idle) /\ \A a : Due(Idle, a) = 0
BY DEF Busy, Listed, Idle, Due

(* To another step of the same call.                                       *)
LEMMA SameCall ==
  ASSUME Counting, ~wild, Stack, UNCHANGED <<entries, records, calls, lost>>, NEW c, Put(c),
         c.self = Context.self, c.from = Context.from, c.entry = Context.entry,
         Busy(c) <=> Busy(Context), c.pc # "count"
  PROVE  Counting'
<1>1. Listed(entries, Context)
  BY TopListed
<1>2. Listed(entries, c)
  BY <1>1 DEF Listed, Chosen
<1>3. \A a : Due(c, a) = Due(Context, a)
  BY DEF Due
<1> QED
  BY <1>2, <1>3, NothingCounted

LEMMA SbrkFields ==
  ASSUME NEW c, Fields(c), NEW incr, NEW ret, sbrk(c, incr, ret)
  PROVE  \E d : /\ Put(d) /\ d.pc = "extend" /\ d.ret = ret
                /\ d.self = c.self /\ d.from = c.from /\ d.entry = c.entry
<1>1. PICK d : d = [Off(c) EXCEPT !.pc = "extend", !.data = RoundUp(heap_end), !.incr = incr, !.ret = ret]
  OBVIOUS
<1>2. Put(d)
  BY <1>1 DEF sbrk
<1>3. PICK s : s = Append(c.irq, statusPIE)
  OBVIOUS
<1>4. PICK o : o = [c EXCEPT !.irq = s] /\ o = Off(c)
  BY <1>3 DEF Off, Fields
<1>5. d = [o EXCEPT !.pc = "extend", !.data = RoundUp(heap_end), !.incr = incr, !.ret = ret]
  BY <1>1, <1>4
<1>6. /\ DOMAIN c = {"pc", "self", "from", "entry", "arc", "count", "data", "incr", "ret", "irq"}
  BY DEF Fields
<1>7. d.pc = "extend" /\ d.ret = ret /\ d.self = c.self /\ d.from = c.from /\ d.entry = c.entry
  BY <1>4, <1>5 DEF Fields
<1> QED
  BY <1>2, <1>7

(* The steps that change neither lists nor calls.                           *)
LEMMA QuietCounts ==
  ASSUME Profiling, Counting, ~wild,
         \/ Malloc \/ Malloced \/ NeedInit \/ nios2_pcsample_init \/ Disable \/ mcount_allocate
         \/ (StartSampler \/ NewSlab) /\ ~wild'
  PROVE  Counting'
<1>1. UNCHANGED <<entries, records, calls, lost>>
  BY DEF Malloc, Malloced, NeedInit, nios2_pcsample_init, Disable, mcount_allocate, StartSampler, NewSlab,
         slab
<1>2. Stack /\ Fields(Context)
  BY TopIs DEF Profiling, Nested
<1>3. PICK o : o = Context /\ Fields(o)
  BY <1>2
<1>4. CASE Malloc
  <2>1. PICK n \in AppBytes : sbrk(Idle, n, "app")
    BY <1>4 DEF Malloc
  <2>2. PICK d : Put(d) /\ d.pc = "extend" /\ d.ret = "app"
    BY <2>1, IdleFields, SbrkFields
  <2>3. ~Busy(d) /\ ~Busy(Context) /\ Listed(entries, d)
    BY <1>4, <2>2 DEF Busy, Malloc, In, Listed
  <2>4. \A a : Due(d, a) = Due(Context, a)
    BY <2>3 DEF Due
  <2> QED
    BY <1>1, <1>2, <2>2, <2>3, <2>4, NothingCounted
<1>5. CASE Malloced
  <2>1. ~Busy(Context) /\ Put(Idle)
    BY <1>5 DEF Busy, Malloced, In
  <2>2. \A a : Due(Idle, a) = Due(Context, a)
    BY <2>1, IdleOwesNothing DEF Due
  <2> QED
    BY <1>1, <1>2, <2>1, <2>2, IdleOwesNothing, NothingCounted
<1>6. ASSUME NEW pc \in {"init", "disable", "allocate"}, Context.pc \in {"record", "init", "histogram", "slab"},
             Put([Context EXCEPT !.pc = pc])
      PROVE  Counting'
  <2>1. PICK c : c = [o EXCEPT !.pc = pc]
    OBVIOUS
  <2>2. /\ Put(c) /\ c.pc = pc /\ c.self = o.self /\ c.from = o.from /\ c.entry = o.entry
    BY <1>3, <1>6, <2>1 DEF Fields
  <2>3. Busy(c) /\ Busy(Context) /\ c.pc # "count"
    BY <1>6, <2>2 DEF Busy
  <2> QED
    BY <1>1, <1>2, <1>3, <2>2, <2>3, SameCall
<1>7. CASE NeedInit
  BY <1>6, <1>7 DEF NeedInit, In
<1>8. CASE StartSampler
  BY <1>6, <1>8 DEF StartSampler, In
<1>9. CASE NewSlab
  BY <1>6, <1>9 DEF NewSlab, In
<1>10. ASSUME NEW ret \in {"histogram", "slab"}, NEW incr, sbrk(Context, incr, ret),
              Context.pc \in {"init", "allocate"}
       PROVE  Counting'
  <2>1. PICK d : /\ Put(d) /\ d.pc = "extend" /\ d.ret = ret
                 /\ d.self = o.self /\ d.from = o.from /\ d.entry = o.entry
    BY <1>3, <1>10, SbrkFields
  <2>2. Busy(d) /\ Busy(Context) /\ d.pc # "count"
    BY <1>10, <2>1 DEF Busy
  <2> QED
    BY <1>1, <1>2, <1>3, <2>1, <2>2, SameCall
<1>11. CASE nios2_pcsample_init
  <2>1. Context.pc = "init"
    BY <1>11 DEF nios2_pcsample_init, In
  <2>2. CASE clockRuns
    <3>1. \E incr : sbrk(Context, incr, "histogram")
      BY <1>11, <2>2 DEF nios2_pcsample_init
    <3> QED
      BY <1>10, <2>1, <3>1
  <2>3. CASE ~clockRuns
    <3>1. Put([Context EXCEPT !.pc = "disable"])
      BY <1>11, <2>3 DEF nios2_pcsample_init
    <3> QED
      BY <1>6, <2>1, <3>1
  <2> QED
    BY <2>2, <2>3
<1>12. CASE Disable
  <2>1. PICK s, d : s = Append(o.irq, statusPIE) /\ d = [[o EXCEPT !.irq = s] EXCEPT !.pc = "allocate"]
    OBVIOUS
  <2>2. Put(d) /\ Context.pc = "disable"
    BY <1>3, <1>12, <2>1 DEF Disable, Off, In
  <2>3. d.pc = "allocate" /\ d.self = o.self /\ d.from = o.from /\ d.entry = o.entry
    BY <1>3, <2>1 DEF Fields
  <2>4. Busy(d) /\ Busy(Context) /\ d.pc # "count"
    BY <2>2, <2>3 DEF Busy
  <2> QED
    BY <1>1, <1>2, <1>3, <2>2, <2>3, <2>4, SameCall
<1>13. CASE mcount_allocate
  <2>1. Context.pc = "allocate"
    BY <1>13 DEF mcount_allocate, In
  <2>2. CASE Record > mcount_slab_size
    <3>1. sbrk(Context, SlabIncrement, "slab")
      BY <1>13, <2>2 DEF mcount_allocate
    <3> QED
      BY <1>10, <2>1, <3>1
  <2>3. CASE ~(Record > mcount_slab_size)
    <3>1. PICK c : c = [o EXCEPT !.pc = "link", !.data = mcount_slab_ptr]
      OBVIOUS
    <3>2. Put(c)
      BY <1>3, <1>13, <2>3, <3>1 DEF mcount_allocate
    <3>3. c.pc = "link" /\ c.self = o.self /\ c.from = o.from /\ c.entry = o.entry
      BY <1>3, <3>1 DEF Fields
    <3>4. Busy(c) /\ Busy(Context) /\ c.pc # "count"
      BY <2>1, <3>3 DEF Busy
    <3> QED
      BY <1>1, <1>2, <1>3, <3>2, <3>3, <3>4, SameCall
  <2> QED
    BY <2>2, <2>3
<1> QED
  BY <1>4, <1>5, <1>7, <1>8, <1>9, <1>11, <1>12, <1>13

LEMMA ExtendCounts == ASSUME Profiling, Counting, ~wild, Extend PROVE Counting'
<1>1. UNCHANGED <<entries, records, calls, lost>> /\ Context.pc = "extend"
  BY DEF Extend, slab, In
<1>2. Stack /\ Fields(Context) /\ Exclusive(Context)
  BY TopIs DEF Profiling, Nested
<1>3. PICK o : o = Context /\ Fields(o) /\ o.pc = "extend" /\ o.ret \in Uses /\ Len(o.irq) >= 1
  BY <1>1, <1>2 DEF Exclusive, Masked
<1>4. ASSUME NEW data, Put([On(o) EXCEPT !.pc = o.ret, !.data = data]) PROVE Counting'
  <2>1. PICK s : s = SubSeq(o.irq, 1, Len(o.irq) - 1)
    OBVIOUS
  <2>2. PICK p : p = [o EXCEPT !.irq = s] /\ p = On(o)
    BY <2>1 DEF On
  <2>3. PICK c : c = [p EXCEPT !.pc = o.ret, !.data = data] /\ Put(c)
    BY <1>4, <2>2
  <2>4. c.pc = o.ret /\ c.self = o.self /\ c.from = o.from /\ c.entry = o.entry
    BY <1>3, <2>2, <2>3 DEF Fields
  <2>5. (Busy(c) <=> Busy(Context)) /\ c.pc # "count"
    BY <1>3, <2>4 DEF Busy, Uses
  <2> QED
    BY <1>1, <1>2, <1>3, <2>3, <2>4, <2>5, SameCall
<1>5. Put([On(o) EXCEPT !.pc = o.ret, !.data = -1]) \/ Put([On(o) EXCEPT !.pc = o.ret])
  BY <1>3 DEF Extend
<1>6. [On(o) EXCEPT !.pc = o.ret] = [On(o) EXCEPT !.pc = o.ret, !.data = o.data]
  <2>1. PICK s : s = SubSeq(o.irq, 1, Len(o.irq) - 1)
    OBVIOUS
  <2>2. PICK p : p = [o EXCEPT !.irq = s] /\ p = On(o)
    BY <2>1 DEF On
  <2>3. [p EXCEPT !.pc = o.ret] = [p EXCEPT !.pc = o.ret, !.data = o.data]
    BY <1>3, <2>2 DEF Fields
  <2> QED
    BY <2>2, <2>3
<1> QED
  BY <1>4, <1>5, <1>6

(* What the search finds.                                                  *)
LEMMA NewestIs ==
  ASSUME NEW n \in Nat, NEW S \in SUBSET (1..n), S # {}
  PROVE  Newest(S) \in S
<1> DEFINE Latest(U) == \E i \in U : \A j \in U : i >= j
           T == {k \in Nat : \A U \in SUBSET (1..k) : U # {} => Latest(U)}
<1>1. 0 \in T
  <2>1. \A x : x \notin 1..0
    OBVIOUS
  <2> QED
    BY <2>1, Zenon
<1>2. ASSUME NEW k \in Nat, k \in T PROVE k + 1 \in T
  <2>1. ASSUME NEW U \in SUBSET (1..(k + 1)), U # {} PROVE Latest(U)
    <3>1. CASE k + 1 \in U
      BY <3>1
    <3>2. CASE k + 1 \notin U
      <4>1. U \in SUBSET (1..k)
        BY <3>2
      <4> QED
        BY <1>2, <2>1, <4>1
    <3> QED
      BY <3>1, <3>2
  <2> HIDE DEF Latest
  <2> QED
    BY <2>1
<1>3. n \in T
  <2> HIDE DEF T
  <2> QED
    BY <1>1, <1>2, NumberInduction
<1>4. \E i \in S : \A j \in S : i >= j
  BY <1>3
<1> QED
  BY <1>4 DEF Newest

LEMMA SearchCounts == ASSUME Profiling, Counting, ~wild, Search PROVE Counting'
<1>1. UNCHANGED <<entries, records, calls, lost>> /\ Context.pc = "search"
  BY DEF Search, slab, In
<1>2. Stack /\ Fields(Context)
  BY TopIs DEF Profiling, Nested
<1>3. PICK o : o = Context /\ Fields(o) /\ o.pc = "search"
  BY <1>1, <1>2
<1>4. Lists(entries) /\ Listed(entries, o)
  BY <1>2, <1>3, TopListed DEF Ledgers
<1>5. o.self \in Functions /\ o.from \in Callers /\ o.entry \in 0..Len(entries) /\ Busy(o)
  BY <1>3, <1>4 DEF Listed, Busy, Chosen
<1>6. CASE EntriesOf(o.self) = {}
  <2>1. PICK c : c = [o EXCEPT !.pc = "record"]
    OBVIOUS
  <2>2. Put(c)
    BY <1>3, <1>6, <2>1 DEF Search
  <2>3. c.pc = "record" /\ c.self = o.self /\ c.from = o.from /\ c.entry = o.entry
    BY <1>3, <2>1 DEF Fields
  <2>4. Busy(c) /\ c.pc # "count"
    BY <2>3 DEF Busy
  <2> QED
    BY <1>1, <1>2, <1>3, <1>5, <2>2, <2>3, <2>4, SameCall
<1>7. CASE EntriesOf(o.self) # {}
  <2>1. PICK i : i = Newest(EntriesOf(o.self))
    OBVIOUS
  <2>2. i \in 1..Len(entries) /\ entries[i].self = o.self /\ i # 0
    <3>1. EntriesOf(o.self) \in SUBSET (1..Len(entries)) /\ Len(entries) \in Nat
      BY <1>4, ListsAre DEF EntriesOf
    <3>2. i \in EntriesOf(o.self)
      BY <1>7, <2>1, <3>1, NewestIs
    <3> QED
      BY <3>1, <3>2 DEF EntriesOf
  <2>3. PICK js : js = ArcsOf(i, o.from)
    OBVIOUS
  <2>4. PICK pc, r, n :
          /\ pc = IF js = {} THEN "record" ELSE "count"
          /\ r = IF js = {} THEN 0 ELSE Newest(js)
          /\ n = IF js = {} THEN 0 ELSE entries[i].arcs[Newest(js)].count
    OBVIOUS
  <2>5. PICK c : c = [o EXCEPT !.pc = pc, !.entry = i, !.arc = r, !.count = n]
    OBVIOUS
  <2>6. Put(c)
    BY <1>3, <1>7, <2>1, <2>3, <2>4, <2>5 DEF Search
  <2>7. /\ c.pc = pc /\ c.self = o.self /\ c.from = o.from /\ c.entry = i
        /\ c.arc = r /\ c.count = n
    BY <1>3, <2>5 DEF Fields
  <2>8. Busy(c) /\ Chosen(entries, c)
    BY <1>5, <2>2, <2>4, <2>7 DEF Busy, Chosen
  <2>9. ASSUME c.pc = "count" PROVE ChosenArc(entries, c)
    <3>1. js # {} /\ r = Newest(js) /\ n = entries[i].arcs[r].count
      BY <2>4, <2>7, <2>9
    <3>2. js \in SUBSET (1..Len(entries[i].arcs)) /\ Len(entries[i].arcs) \in Nat
      BY <1>4, <2>2, <2>3, ListsAre DEF ArcsOf
    <3>3. r \in js
      BY <3>1, <3>2, NewestIs
    <3>4. r \in 1..Len(entries[i].arcs) /\ entries[i].arcs[r].from = o.from
      BY <2>3, <3>3 DEF ArcsOf
    <3>5. n \in Nat /\ n >= 1
      BY <1>4, <2>2, <3>1, <3>4, ListsAre
    <3> QED
      BY <2>2, <2>7, <3>4, <3>5 DEF ChosenArc
  <2>10. Listed(entries, c)
    BY <2>8, <2>9 DEF Listed
  <2>11. \A a : Due(c, a) = Due(Context, a)
    BY <1>3, <1>5, <2>7, <2>8 DEF Due
  <2> QED
    BY <1>1, <1>2, <2>6, <2>10, <2>11, NothingCounted
<1> QED
  BY <1>6, <1>7

LEMMA McountCounts ==
  ASSUME Profiling, Counting, ~wild, NEW f \in Functions, NEW from \in Callers, Mcount(f, from)
  PROVE  Counting'
<1>1. /\ entries' = entries /\ records' = records /\ lost' = lost /\ wild' = wild
      /\ calls' = [calls EXCEPT ![<<f, from>>] = @ + 1] /\ Context.pc = "run"
  BY DEF Mcount, slab, In
<1>2. Stack /\ Ledgers /\ \A a \in Arcs : Balance(a)
  BY TopListed DEF Profiling, Nested
<1>3. PICK c : c = [Idle EXCEPT !.pc = "search", !.self = f, !.from = from]
  OBVIOUS
<1>4. /\ Put(c) /\ c.pc = "search" /\ c.self = f /\ c.from = from /\ c.entry = 0
  BY <1>3 DEF Mcount, Idle
<1>5. Busy(c) /\ ~Busy(Context)
  BY <1>1, <1>4 DEF Busy
<1>6. Len(entries) \in Nat
  BY <1>2, ListsAre DEF Ledgers
<1>7. Listed(entries, c)
  BY <1>4, <1>6 DEF Listed, Chosen
<1>8. <<f, from>> \in Arcs /\ calls \in [Arcs -> Nat] /\ lost \in [Arcs -> Int]
  BY <1>2 DEF Arcs, Ledgers
<1>9. Ledgers'
  <2>1. calls' \in [Arcs -> Nat]
    BY <1>1, <1>8
  <2> QED
    BY <1>1, <1>2, <2>1 DEF Ledgers
<1>10. ASSUME NEW a \in Arcs PROVE Balance(a)'
  <2>1. Dues(a)' = Dues(a) - Due(Context, a) + Due(c, a)
    BY <1>2, <1>4, DuesPut
  <2>2. Dues(a) \in Nat /\ Due(Context, a) = 0
    BY <1>5, DuesAre DEF Due
  <2>3. /\ Total(a) + lost[a] + Dues(a) = calls[a] /\ (calls[a] > 0 => Total(a) + Dues(a) > 0)
        /\ Total(a)' = Total(a) /\ lost[a] \in Int /\ calls[a] \in Nat
    BY <1>1, <1>2, <1>8 DEF Balance, Total
  <2>4. Total(a) \in Nat
    BY <1>2, PlacesNumbered, CountPositive DEF Total, Ledgers
  <2>5. PICK t, d : t = Total(a) /\ d = Dues(a)
    OBVIOUS
  <2>6. CASE a = <<f, from>>
    <3>1. Due(c, a) = 1 /\ calls'[a] = calls[a] + 1
      BY <1>1, <1>4, <1>5, <1>8, <2>6 DEF Due
    <3> QED
      BY <1>1, <2>1, <2>2, <2>3, <2>4, <3>1 DEF Balance
  <2>7. CASE a # <<f, from>>
    <3>1. Due(c, a) = 0 /\ calls'[a] = calls[a]
      BY <1>1, <1>4, <1>8, <2>7 DEF Due
    <3> QED
      BY <1>1, <2>1, <2>2, <2>3, <2>4, <3>1 DEF Balance
  <2> QED
    BY <2>6, <2>7
<1>11. GrownLists(entries, entries') /\ Listed(entries', c)
  BY <1>1, <1>7, SameLists
<1> QED
  BY <1>2, <1>4, <1>9, <1>10, <1>11, CountingStep

(* Counting a call on an arc of the lists.                                 *)
LEMMA BumpIs ==
  ASSUME NEW es, Lists(es), NEW i \in 1..Len(es), NEW j \in 1..Len(es[i].arcs), NEW n \in Nat, n >= 1
  PROVE  \E fs : /\ fs = [es EXCEPT ![i].arcs[j].count = n] /\ Lists(fs)
                 /\ Bumped(es, fs, i, j) /\ fs[i].arcs[j].count = n /\ GrownLists(es, fs)
<1>1. PICK e, A, x : e = es[i] /\ A = e.arcs /\ x = A[j]
  OBVIOUS
<1>2. /\ e \in EntryType /\ A \in Seq(ArcType) /\ x \in ArcType /\ j \in 1..Len(A) /\ e.arcs = A
  BY <1>1, ListsAre
<1>3. PICK y : y = [x EXCEPT !.count = n]
  OBVIOUS
<1>4. y \in ArcType /\ y.from = x.from /\ y.count = n
  BY <1>2, <1>3 DEF ArcType
<1>5. PICK B : B = [A EXCEPT ![j] = y]
  OBVIOUS
<1>6. B \in Seq(ArcType) /\ Len(B) = Len(A) /\ B[j] = y /\ \A l \in 1..Len(A) : l # j => B[l] = A[l]
  BY <1>2, <1>4, <1>5
<1>7. AlikeArcs(A, B, j)
  <2>1. ASSUME NEW l \in 1..Len(A) PROVE B[l].from = A[l].from /\ (l # j => B[l] = A[l])
    BY <1>1, <1>4, <1>6
  <2> QED
    BY <1>6, <2>1 DEF AlikeArcs
<1>8. PICK f : f = [e EXCEPT !.arcs = B]
  OBVIOUS
<1>9. f \in EntryType /\ f.self = e.self /\ f.arcs = B
  BY <1>2, <1>6, <1>8 DEF EntryType
<1>10. PICK fs : fs = [es EXCEPT ![i] = f]
  OBVIOUS
<1>11. fs = [es EXCEPT ![i].arcs[j].count = n]
  BY <1>1, <1>3, <1>5, <1>8, <1>10
<1>12. es \in Seq(EntryType)
  BY DEF Lists
<1>13. fs \in Seq(EntryType) /\ Len(fs) = Len(es) /\ fs[i] = f /\ \A k \in 1..Len(es) : k # i => fs[k] = es[k]
  BY <1>9, <1>10, <1>12
<1>14. Lists(fs) /\ Alike(es, fs, i)
  BY <1>13 DEF Lists, Alike
<1>15. Bumped(es, fs, i, j)
  BY <1>1, <1>2, <1>7, <1>9, <1>13, <1>14 DEF Bumped
<1>16. fs[i].arcs[j].count = n
  BY <1>4, <1>6, <1>9, <1>13
<1>17. GrownLists(es, fs)
  <2>1. ASSUME NEW k \in 1..Len(es)
        PROVE  /\ k \in 1..Len(fs) /\ fs[k].self = es[k].self
               /\ \A l \in 1..Len(es[k].arcs) :
                    l \in 1..Len(fs[k].arcs) /\ fs[k].arcs[l].from = es[k].arcs[l].from
    <3>1. CASE k = i
      <4>1. fs[k] = f /\ es[k] = e /\ k \in 1..Len(fs)
        BY <1>1, <1>13, <3>1
      <4>2. ASSUME NEW l \in 1..Len(A) PROVE l \in 1..Len(B) /\ B[l].from = A[l].from
        BY <1>6, <1>7 DEF AlikeArcs
      <4> QED
        BY <1>1, <1>9, <4>1, <4>2
    <3>2. CASE k # i
      BY <1>13, <3>2
    <3> QED
      BY <3>1, <3>2
  <2> QED
    BY <2>1 DEF GrownLists
<1> QED
  BY <1>11, <1>14, <1>15, <1>16, <1>17

LEMMA CountUpCounts == ASSUME Profiling, Counting, ~wild, CountUp PROVE Counting'
<1>1. /\ records' = records /\ calls' = calls /\ Context.pc = "count" /\ Put(Idle)
  BY DEF CountUp, slab, In
<1>2. Stack /\ Fields(Context)
  BY TopIs DEF Profiling, Nested
<1>3. PICK o : o = Context /\ o.pc = "count" /\ Fields(o)
  BY <1>1, <1>2
<1>4. Ledgers /\ Listed(entries, o) /\ \A a \in Arcs : Balance(a)
  BY <1>2, <1>3, TopListed
<1>5. PICK i, j : i = o.entry /\ j = o.arc
  OBVIOUS
<1>6. /\ i \in 1..Len(entries) /\ entries[i].self = o.self /\ o.self \in Functions /\ o.from \in Callers
      /\ j \in 1..Len(entries[i].arcs) /\ entries[i].arcs[j].from = o.from /\ Busy(o)
      /\ o.count \in Nat /\ o.count >= 1
  <2>1. Chosen(entries, o) /\ ChosenArc(entries, o) /\ Busy(o)
    BY <1>3, <1>4 DEF Listed, Busy
  <2>2. Len(entries) \in Nat
    BY <1>4, ListsAre DEF Ledgers
  <2> QED
    BY <1>5, <2>1, <2>2 DEF Chosen, ChosenArc
<1>7. PICK n \in Nat : n = o.count + 1 /\ n >= 1
  BY <1>6
<1>8. PICK fs : /\ fs = [entries EXCEPT ![i].arcs[j].count = n] /\ Lists(fs)
                /\ Bumped(entries, fs, i, j) /\ fs[i].arcs[j].count = n /\ GrownLists(entries, fs)
  BY <1>4, <1>6, <1>7, BumpIs DEF Ledgers
<1>9. PICK old : old = entries[i].arcs[j].count
  OBVIOUS
<1>10. old \in Nat
  BY <1>4, <1>6, <1>9, ListsAre DEF Ledgers
<1>11. /\ entries' = fs
       /\ lost' = [lost EXCEPT ![<<o.self, o.from>>] = @ + old - o.count]
  BY <1>3, <1>5, <1>7, <1>8, <1>9 DEF CountUp
<1>12. PICK own \in Arcs : own = <<o.self, o.from>>
  BY <1>6 DEF Arcs
<1>18. own[1] = entries[i].self /\ own[2] = entries[i].arcs[j].from
  BY <1>6, <1>12
<1>19. PICK m \in Nat : m = Len(records)
  BY <1>4 DEF Ledgers
<1>13. /\ Fit(entries, m) /\ Lists(entries)
       /\ calls \in [Arcs -> Nat] /\ lost \in [Arcs -> Int]
  BY <1>4, <1>19 DEF Ledgers
<1>14. /\ lost' \in [Arcs -> Int] /\ lost'[own] = lost[own] + old - o.count
       /\ \A a \in Arcs : a # own => lost'[a] = lost[a]
  BY <1>6, <1>10, <1>11, <1>12, <1>13
<1>20. Lists(fs) /\ Bumped(entries, fs, i, j)
  BY <1>8
<1>21. ASSUME NEW a
       PROVE  /\ CountIn(fs, m, a) = CountIn(entries, m, a) +
                   (IF a[1] = entries[i].self /\ a[2] = entries[i].arcs[j].from
                    THEN fs[i].arcs[j].count - entries[i].arcs[j].count ELSE 0)
              /\ PlacesIn(fs, m, a) = PlacesIn(entries, m, a)
  BY <1>13, <1>20, CountBumped
<1>15. Ledgers'
  <2>1. Fit(fs, m)
    BY <1>8, <1>13, CountBumped
  <2> QED
    BY <1>1, <1>8, <1>11, <1>13, <1>14, <1>19, <2>1 DEF Ledgers
<1>16. ASSUME NEW a \in Arcs PROVE Balance(a)'
  <2>1. Dues(a)' = Dues(a) - Due(o, a) /\ Dues(a) \in Nat /\ Dues(a)' \in Nat
    <3>1. Dues(a)' = Dues(a) - Due(Context, a) + Due(Idle, a)
      BY <1>1, <1>2, DuesPut
    <3>2. Dues(a) \in Nat /\ Due(o, a) \in {0, 1} /\ Due(Idle, a) = 0
      BY DuesAre, IdleOwesNothing
    <3>3. Dues(a)' \in Nat
      <4>1. PICK d : d = Dues(a)
        OBVIOUS
      <4>2. Dues(a)' = Due(contexts'[1], a) + (IF Len(contexts') = 2 THEN Due(contexts'[2], a) ELSE 0)
        BY DEF Dues, Due, Busy
      <4> QED
        BY <4>2, DuesAre
    <3> QED
      BY <1>3, <3>1, <3>2, <3>3
  <2>2. /\ Total(a) + lost[a] + Dues(a) = calls[a] /\ (calls[a] > 0 => Total(a) + Dues(a) > 0)
        /\ lost[a] \in Int /\ calls[a] \in Nat /\ Total(a) \in Nat
    <3>1. Total(a) \in Nat
      BY <1>13, <1>19, PlacesNumbered, CountPositive DEF Total
    <3> QED
      BY <1>4, <1>13, <3>1 DEF Balance
  <2>3. Total(a)' = Total(a) + (IF a = own THEN n - old ELSE 0)
    <3>1. CountIn(fs, m, a) = CountIn(entries, m, a) +
             (IF a[1] = entries[i].self /\ a[2] = entries[i].arcs[j].from
              THEN fs[i].arcs[j].count - entries[i].arcs[j].count ELSE 0)
      BY <1>21
    <3>2. a = own <=> a[1] = entries[i].self /\ a[2] = entries[i].arcs[j].from
      BY <1>18, <1>12 DEF Arcs
    <3>3. Total(a)' = CountIn(fs, m, a)
      BY <1>1, <1>11, <1>19 DEF Total
    <3> QED
      BY <1>8, <1>9, <1>19, <3>1, <3>2, <3>3 DEF Total
  <2>4. CASE a = own
    <3>1. Due(o, a) = 1
      BY <1>6, <1>12, <2>4 DEF Due
    <3>2. Total(a)' > 0
      <4>1. <<i, j>> \in PlacesIn(entries, m, own)
        BY <1>6, <1>13, <1>18, PlaceIs
      <4>2. PlacesIn(fs, m, own) # {} /\ Fit(fs, m)
        BY <1>15, <1>21, <1>1, <1>11, <1>19, <4>1 DEF Ledgers
      <4>3. CountIn(fs, m, own) > 0
        BY <1>8, <1>13, <4>2, PlacesNumbered, CountPositive
      <4> QED
        BY <1>1, <1>11, <1>19, <2>4, <4>3 DEF Total
    <3>3. calls'[a] = calls[a] /\ lost'[a] = lost[a] + old - o.count
      BY <1>1, <1>14, <2>4
    <3>4. Total(a)' = Total(a) + n - old
      BY <1>7, <1>10, <2>2, <2>3, <2>4
    <3>5. Total(a)' + lost'[a] + Dues(a)' = calls'[a]
      <4>1. PICK t, l, d : t = Total(a) /\ l = lost[a] /\ d = Dues(a)
        OBVIOUS
      <4>2. /\ t \in Nat /\ l \in Int /\ d \in Nat /\ t + l + d = calls[a] /\ Dues(a)' = d - 1
            /\ Total(a)' = t + n - old /\ lost'[a] = l + old - o.count /\ calls'[a] = calls[a]
        BY <2>1, <2>2, <3>1, <3>3, <3>4, <4>1
      <4>3. PICK k \in Nat : k = o.count /\ n = k + 1
        BY <1>6, <1>7
      <4>4. t + n - old \in Int /\ l + old - k \in Int /\ d - 1 \in Int
        BY <1>10, <4>2
      <4>5. (t + n - old) + (l + old - k) + (d - 1) = t + l + d
        BY <1>10, <4>2, <4>3
      <4> QED
        BY <4>2, <4>3, <4>4, <4>5
    <3>6. Total(a)' + Dues(a)' > 0
      BY <1>7, <1>10, <2>1, <2>2, <3>2, <3>4
    <3> QED
      BY <3>5, <3>6 DEF Balance
  <2>5. CASE a # own
    <3>1. Due(o, a) = 0 /\ Total(a)' = Total(a) /\ lost'[a] = lost[a] /\ calls'[a] = calls[a]
      BY <1>1, <1>12, <1>14, <2>2, <2>3, <2>5 DEF Due
    <3> QED
      BY <2>1, <2>2, <3>1 DEF Balance
  <2> QED
    BY <2>4, <2>5
<1>17. GrownLists(entries, entries') /\ Listed(entries', Idle)
  BY <1>8, <1>11, IdleOwesNothing
<1> QED
  BY <1>1, <1>2, <1>15, <1>16, <1>17, CountingStep

(* A function or an arc comes to the lists.                                *)
LEMMA EntryIs ==
  ASSUME NEW es, Lists(es), NEW f \in Functions
  PROVE  \E fs : /\ fs = Append(es, [self |-> f, arcs |-> <<>>]) /\ Lists(fs) /\ EntryAdded(es, fs)
                 /\ Len(fs) = Len(es) + 1 /\ fs[Len(es) + 1].self = f /\ GrownLists(es, fs)
<1>1. PICK e : e = [self |-> f, arcs |-> <<>>]
  OBVIOUS
<1>2. e \in EntryType /\ e.self = f /\ Len(e.arcs) = 0
  BY <1>1 DEF EntryType
<1>3. PICK fs : fs = Append(es, e)
  OBVIOUS
<1>4. es \in Seq(EntryType) /\ Len(es) \in Nat
  BY ListsAre DEF Lists
<1>5. fs \in Seq(EntryType) /\ Len(fs) = Len(es) + 1
  BY <1>2, <1>3, <1>4
<1>6. fs[Len(es) + 1] = e
  BY <1>3, <1>4
<1>7. \A k \in 1..Len(es) : fs[k] = es[k]
  BY <1>3, <1>4
<1>8. \A k \in 1..Len(es) : k \in 1..Len(fs)
  BY <1>4, <1>5
<1>9. EntryAdded(es, fs)
  BY <1>2, <1>5, <1>6, <1>7 DEF EntryAdded
<1>10. GrownLists(es, fs)
  BY <1>7, <1>8 DEF GrownLists
<1>11. fs = Append(es, [self |-> f, arcs |-> <<>>])
  BY <1>1, <1>3
<1> QED
  BY <1>2, <1>5, <1>6, <1>9, <1>10, <1>11 DEF Lists

LEMMA ArcIs ==
  ASSUME NEW es, Lists(es), NEW i \in 1..Len(es), NEW arc \in ArcType
  PROVE  \E fs : /\ fs = [es EXCEPT ![i].arcs = Append(@, arc)] /\ Lists(fs)
                 /\ ArcAdded(es, fs, i, arc) /\ GrownLists(es, fs)
<1>1. PICK e, A : e = es[i] /\ A = e.arcs
  OBVIOUS
<1>2. e \in EntryType /\ A \in Seq(ArcType) /\ Len(A) \in Nat
  BY <1>1, ListsAre
<1>3. PICK B : B = Append(A, arc)
  OBVIOUS
<1>4. B \in Seq(ArcType) /\ Len(B) = Len(A) + 1
  BY <1>2, <1>3
<1>5. B[Len(A) + 1] = arc
  BY <1>2, <1>3
<1>6. \A l \in 1..Len(A) : B[l] = A[l]
  BY <1>2, <1>3
<1>7. \A l \in 1..Len(A) : l \in 1..Len(B)
  BY <1>2, <1>4
<1>8. PICK f : f = [e EXCEPT !.arcs = B]
  OBVIOUS
<1>9. f \in EntryType /\ f.self = e.self /\ f.arcs = B
  BY <1>2, <1>4, <1>8 DEF EntryType
<1>10. PICK fs : fs = [es EXCEPT ![i] = f]
  OBVIOUS
<1>11. fs = [es EXCEPT ![i].arcs = Append(@, arc)]
  BY <1>1, <1>3, <1>8, <1>10
<1>12. es \in Seq(EntryType)
  BY DEF Lists
<1>13. fs \in Seq(EntryType) /\ Len(fs) = Len(es) /\ fs[i] = f /\ \A k \in 1..Len(es) : k # i => fs[k] = es[k]
  BY <1>9, <1>10, <1>12
<1>14. Longer(A, B, arc) /\ Alike(es, fs, i)
  BY <1>4, <1>5, <1>6, <1>13 DEF Longer, Alike
<1>15. ArcAdded(es, fs, i, arc)
  BY <1>1, <1>9, <1>13, <1>14 DEF ArcAdded
<1>16. GrownLists(es, fs)
  <2>1. ASSUME NEW k \in 1..Len(es)
        PROVE  /\ k \in 1..Len(fs) /\ fs[k].self = es[k].self
               /\ \A l \in 1..Len(es[k].arcs) :
                    l \in 1..Len(fs[k].arcs) /\ fs[k].arcs[l].from = es[k].arcs[l].from
    <3>1. CASE k = i
      BY <1>1, <1>6, <1>7, <1>9, <1>13, <3>1
    <3>2. CASE k # i
      BY <1>13, <3>2
    <3> QED
      BY <3>1, <3>2
  <2> QED
    BY <2>1 DEF GrownLists
<1> QED
  BY <1>11, <1>13, <1>15, <1>16 DEF Lists

LEMMA LinkCounts == ASSUME Profiling, Counting, ~wild, Link PROVE Counting'
<1>1. /\ calls' = calls /\ lost' = lost /\ Context.pc = "link"
      /\ records' = Append(records, Context.data)
  BY DEF Link, In
<1>2. Stack /\ Fields(Context) /\ SlabFree /\ Exclusive(Context)
  BY TopIs DEF Profiling, Nested
<1>3. PICK o : o = Context /\ o.pc = "link" /\ Fields(o)
  BY <1>1, <1>2
<1>4. Ledgers /\ Listed(entries, o) /\ \A a \in Arcs : Balance(a)
  BY <1>2, <1>3, TopListed
<1>5. o.self \in Functions /\ o.from \in Callers /\ o.entry \in 0..Len(entries) /\ Busy(o)
      /\ (o.entry # 0 => entries[o.entry].self = o.self)
  BY <1>3, <1>4 DEF Listed, Busy, Chosen
<1>6. PICK m \in Nat : m = Len(records)
  BY <1>4 DEF Ledgers
<1>7. PICK n \in Nat : n = m + 1 /\ n = Len(records)'
  <2>1. Context.data = mcount_slab_ptr
    BY <1>1, <1>2 DEF Exclusive
  <2>2. Len(records') = Len(records) + 1
    BY <1>1, <1>2, <2>1, OneMore
  <2> QED
    BY <1>6, <2>2
<1>8. /\ Fit(entries, m) /\ Lists(entries) /\ Len(entries) \in Nat
      /\ calls \in [Arcs -> Nat] /\ lost \in [Arcs -> Int]
  BY <1>4, <1>6, ListsAre DEF Ledgers
<1>9. ASSUME NEW a \in Arcs
      PROVE  /\ Total(a) + lost[a] + Dues(a) = calls[a] /\ (calls[a] > 0 => Total(a) + Dues(a) > 0)
             /\ lost[a] \in Int /\ calls[a] \in Nat /\ Total(a) \in Nat /\ Dues(a) \in Nat
             /\ Total(a) = CountIn(entries, m, a) /\ Total(a)' = CountIn(entries', n, a)
             /\ calls'[a] = calls[a] /\ lost'[a] = lost[a]
  <2>1. Total(a) = CountIn(entries, m, a) /\ Total(a)' = CountIn(entries', n, a)
    BY <1>6, <1>7 DEF Total
  <2>2. Total(a) \in Nat
    BY <1>8, <2>1, PlacesNumbered, CountPositive
  <2> QED
    BY <1>1, <1>4, <1>8, <2>1, <2>2, DuesAre DEF Balance
<1>10. ASSUME Lists(entries'), Fit(entries', n) PROVE Ledgers'
  BY <1>1, <1>7, <1>8, <1>10 DEF Ledgers
<1>11. CASE o.entry = 0
  <2>1. PICK fs : /\ fs = Append(entries, [self |-> o.self, arcs |-> <<>>]) /\ Lists(fs)
                  /\ EntryAdded(entries, fs) /\ Len(fs) = Len(entries) + 1
                  /\ fs[Len(entries) + 1].self = o.self /\ GrownLists(entries, fs)
    BY <1>5, <1>8, EntryIs
  <2>2. PICK k \in Nat : k = Len(entries) + 1
    BY <1>8
  <2>3. PICK c : c = [o EXCEPT !.pc = "allocate", !.entry = k]
    OBVIOUS
  <2>4. entries' = fs /\ Put(c)
    BY <1>3, <1>11, <2>1, <2>2, <2>3 DEF Link
  <2>5. c.pc = "allocate" /\ c.self = o.self /\ c.from = o.from /\ c.entry = k
    BY <1>3, <2>3 DEF Fields
  <2>6. Busy(c) /\ \A a : Due(c, a) = Due(Context, a)
    BY <1>3, <1>5, <2>5 DEF Busy, Due
  <2>7. Listed(fs, c)
    <3>1. Chosen(fs, c)
      BY <1>5, <2>1, <2>2, <2>5 DEF Chosen
    <3> QED
      BY <2>5, <3>1 DEF Listed
  <2>8. Lists(fs) /\ EntryAdded(entries, fs)
    BY <2>1
  <2>9. ASSUME NEW a PROVE Fit(fs, n) /\ CountIn(fs, n, a) = CountIn(entries, m, a)
    BY <1>7, <1>8, <2>8, CountKept
  <2>10. Ledgers'
    BY <1>10, <2>4, <2>8, <2>9
  <2>11. ASSUME NEW a \in Arcs PROVE Balance(a)'
    <3>1. Dues(a)' = Dues(a) - Due(Context, a) + Due(c, a) /\ Due(c, a) = Due(Context, a)
      BY <1>2, <2>4, <2>6, DuesPut
    <3>2. Dues(a)' = Dues(a)
      BY <1>9, <3>1, DuesAre
    <3>3. Total(a)' = Total(a)
      BY <1>9, <2>4, <2>9
    <3> QED
      BY <1>9, <3>2, <3>3 DEF Balance
  <2> QED
    BY <1>2, <2>1, <2>4, <2>7, <2>10, <2>11, CountingStep
<1>12. CASE o.entry # 0
  <2>1. PICK i, arc : i = o.entry /\ arc = [from |-> o.from, count |-> 1]
    OBVIOUS
  <2>2. /\ i \in 1..Len(entries) /\ entries[i].self = o.self
        /\ arc \in ArcType /\ arc.from = o.from /\ arc.count = 1
    BY <1>5, <1>8, <1>12, <2>1 DEF ArcType
  <2>3. PICK fs : /\ fs = [entries EXCEPT ![i].arcs = Append(@, arc)] /\ Lists(fs)
                  /\ ArcAdded(entries, fs, i, arc) /\ GrownLists(entries, fs)
    BY <1>8, <2>2, ArcIs
  <2>4. entries' = fs /\ Put(Idle)
    BY <1>3, <1>12, <2>1, <2>3 DEF Link, WithArc
  <2>5. Lists(fs) /\ ArcAdded(entries, fs, i, arc)
    BY <2>3
  <2>6. ASSUME NEW a
        PROVE  /\ Fit(fs, n)
               /\ CountIn(fs, n, a) = CountIn(entries, m, a) +
                    (IF a[1] = entries[i].self /\ a[2] = arc.from THEN arc.count ELSE 0)
    <3>1. Fit(fs, n) /\ OneMoreOn(entries, m, fs, n, i, arc, a)
      BY <1>7, <1>8, <2>5, CountAdded
    <3> QED
      BY <3>1 DEF OneMoreOn
  <2>7. Ledgers'
    BY <1>10, <2>4, <2>5, <2>6
  <2>8. ASSUME NEW a \in Arcs PROVE Balance(a)'
    <3>1. Dues(a)' = Dues(a) - Due(Context, a) + Due(Idle, a) /\ Due(Idle, a) = 0
      BY <1>2, <2>4, DuesPut, IdleOwesNothing
    <3>2. PICK d : d = Due(o, a) /\ d \in {0, 1}
      BY DuesAre
    <3>3. Dues(a)' = Dues(a) - d
      BY <1>3, <1>9, <3>1, <3>2
    <3>4. d = IF a[1] = o.self /\ a[2] = o.from THEN 1 ELSE 0
      BY <1>5, <3>2 DEF Due, Arcs
    <3>5. Total(a)' = Total(a) + d
      <4>1. CountIn(fs, n, a) = CountIn(entries, m, a) + d
        BY <1>9, <2>2, <2>6, <3>4
      <4> QED
        BY <1>9, <2>4, <4>1
    <3> QED
      BY <1>9, <3>2, <3>3, <3>5 DEF Balance
  <2>9. GrownLists(entries, entries') /\ Listed(entries', Idle)
    BY <2>3, <2>4, IdleOwesNothing
  <2> QED
    BY <1>2, <2>4, <2>7, <2>8, <2>9, CountingStep
<1> QED
  BY <1>11, <1>12

(* A handler comes and goes owing nothing.                                 *)
LEMMA InterruptCounts ==
  ASSUME Profiling, Counting, ~wild, TimerStarts \/ Interrupt \/ Sample \/ Return
  PROVE  Counting'
<1>1. entries' = entries /\ records' = records /\ calls' = calls /\ lost' = lost
  BY DEF TimerStarts, Interrupt, Sample, Return, slab
<1>2. Stack /\ Ledgers /\ \A a \in Arcs : Balance(a)
  BY TopListed DEF Profiling, Nested
<1>3. \A k \in 1..Len(contexts) : Listed(entries, contexts[k])
  BY DEF Counting
<1>4. Ledgers'
  BY <1>1, <1>2 DEF Ledgers
<1>5. ASSUME \A a : Dues(a)' = Dues(a),
             \A k \in 1..Len(contexts') : Listed(entries, contexts'[k])
      PROVE  Counting'
  <2>1. ASSUME NEW a \in Arcs PROVE Balance(a)'
    BY <1>1, <1>2, <1>5 DEF Balance, Total
  <2>2. \A k \in 1..Len(contexts)' : Listed(entries, contexts[k])'
    BY <1>1, <1>5 DEF Listed, Busy, Chosen, ChosenArc
  <2> QED
    BY <1>4, <2>1, <2>2 DEF Counting
<1>6. CASE TimerStarts \/ Sample
  <2>1. contexts' = contexts
    BY <1>6 DEF TimerStarts, Sample
  <2>2. \A a : Dues(a)' = Dues(a)
    BY <2>1 DEF Dues, Due, Busy
  <2> QED
    BY <1>3, <1>5, <2>1, <2>2
<1>7. CASE Interrupt
  <2>1. PICK d : d = contexts[1]
    OBVIOUS
  <2>2. contexts = <<d>> /\ Len(contexts) = 1
    BY <1>2, <1>7, <2>1 DEF Interrupt, Stack
  <2>3. contexts' = <<d, Idle>>
    BY <1>7, <2>2, PairOf DEF Interrupt
  <2>4. Listed(entries, d)
    BY <1>3, <2>1, <2>2
  <2>5. \A k \in 1..Len(contexts') : Listed(entries, contexts'[k])
    BY <2>3, <2>4, IdleOwesNothing
  <2>6. ASSUME NEW a PROVE Dues(a)' = Dues(a)
    <3>1. Dues(a)' = Due(contexts'[1], a) + (IF Len(contexts') = 2 THEN Due(contexts'[2], a) ELSE 0)
      BY DEF Dues, Due, Busy
    <3>2. contexts'[1] = d /\ contexts'[2] = Idle /\ Len(contexts') = 2
      BY <2>3
    <3>3. Due(Idle, a) = 0 /\ Due(d, a) \in {0, 1}
      BY IdleOwesNothing, DuesAre
    <3>4. Dues(a) = Due(d, a)
      BY <2>1, <2>2, <3>3 DEF Dues
    <3> QED
      BY <3>1, <3>2, <3>3, <3>4
  <2> QED
    BY <1>5, <2>5, <2>6
<1>8. CASE Return
  <2>1. PICK d, h : d = contexts[1] /\ h = contexts[2]
    OBVIOUS
  <2>2. contexts = <<d, h>> /\ Len(contexts) = 2 /\ h.pc = "run"
    BY <1>2, <1>8, <2>1 DEF Return, Stack, In, Context
  <2>3. contexts' = <<d>>
    <3>1. contexts' = SubSeq(contexts, 1, 1)
      BY <1>8 DEF Return
    <3> QED
      BY <2>2, <3>1, PairOf
  <2>4. Listed(entries, d)
    BY <1>3, <2>1, <2>2
  <2>5. \A k \in 1..Len(contexts') : Listed(entries, contexts'[k])
    BY <2>3, <2>4
  <2>6. ASSUME NEW a PROVE Dues(a)' = Dues(a)
    <3>1. Dues(a)' = Due(contexts'[1], a) + (IF Len(contexts') = 2 THEN Due(contexts'[2], a) ELSE 0)
      BY DEF Dues, Due, Busy
    <3>2. contexts'[1] = d /\ Len(contexts') = 1
      BY <2>3
    <3>3. Due(h, a) = 0 /\ Due(d, a) \in {0, 1}
      BY <2>2, DuesAre DEF Due, Busy
    <3>4. Dues(a) = Due(d, a) + Due(h, a)
      BY <2>1, <2>2 DEF Dues
    <3> QED
      BY <3>1, <3>2, <3>3, <3>4
  <2> QED
    BY <1>5, <2>5, <2>6
<1> QED
  BY <1>6, <1>7, <1>8

LEMMA CountNothing ==
  ASSUME NEW es, Len(es) \in Nat, NEW n \in Nat, NEW a, PlacesIn(es, n, a) = {}
  PROVE  CountIn(es, n, a) = 0
<1>1. PICK P : P = PlacesIn(es, n, a)
  OBVIOUS
<1>2. Numbered(es, P)
  BY <1>1 DEF Numbered
<1>3. AddsUp(es, n, a, P)
  BY <1>1, <1>2, CountIs
<1>4. PICK g : IsTotal(g, Counts(es, P), P) /\ CountIn(es, n, a) = g[P]
  BY <1>3 DEF AddsUp
<1>5. IsFiniteSet(P) /\ Counts(es, P) \in [P -> Int] /\ P = {}
  BY <1>1, <1>3 DEF AddsUp
<1>6. g[P] = 0
  <2>1. PICK S \in SUBSET P : S = P
    OBVIOUS
  <2>2. g[S] = 0
    BY <1>4, <1>5, <2>1, TotalRule
  <2> QED
    BY <2>1, <2>2
<1> QED
  BY <1>4, <1>6

LEMMA InitCounts == ProfileInit => Counting
<1> SUFFICES ASSUME ProfileInit PROVE Counting
  OBVIOUS
<1>1. /\ entries = <<>> /\ records = <<>> /\ contexts = <<Idle>>
      /\ calls = [a \in Arcs |-> 0] /\ lost = [a \in Arcs |-> 0]
  BY DEF ProfileInit
<1>2. Ledgers
  BY <1>1 DEF Ledgers, Lists, Fit
<1>3. \A k \in 1..Len(contexts) : Listed(entries, contexts[k])
  BY <1>1, IdleOwesNothing
<1>4. ASSUME NEW a \in Arcs PROVE Balance(a)
  <2>1. Dues(a) = 0
    BY <1>1, IdleOwesNothing DEF Dues
  <2>2. Total(a) = 0
    <3>1. PICK es, n : es = entries /\ n = Len(records) /\ n = 0 /\ Len(es) = 0
      BY <1>1
    <3>2. PlacesIn(es, n, a) = {}
      BY <3>1 DEF PlacesIn
    <3>3. CountIn(es, n, a) = 0
      BY <3>1, <3>2, CountNothing
    <3> QED
      BY <3>1, <3>3 DEF Total
  <2> QED
    BY <1>1, <2>1, <2>2 DEF Balance
<1> QED
  BY <1>2, <1>3, <1>4 DEF Counting

LEMMA StepCounts == Profiling /\ Counting /\ [ProfileNext]_profileVars => Counting'
<1> SUFFICES ASSUME Profiling, Counting, [ProfileNext]_profileVars PROVE Counting'
  OBVIOUS
<1>1. CASE UNCHANGED profileVars
  <2>1. wild' = wild /\ UNCHANGED <<entries, records, contexts, calls, lost>>
    BY <1>1 DEF profileVars, slab
  <2> QED
    BY <2>1 DEF Counting, Ledgers, Listed, Busy, Chosen, ChosenArc, Balance, Total, Dues, Due
<1>2. CASE ProfileNext /\ wild
  <2>1. wild' = wild
    BY <1>2 DEF ProfileNext, Wild, profileVars, Malloc, Malloced, Extend, Mcount, Search, CountUp, NeedInit,
       nios2_pcsample_init, StartSampler, Disable, mcount_allocate, NewSlab, Link, TimerStarts, Interrupt,
       Sample, Return, In
  <2> QED
    BY <1>2, <2>1 DEF Counting
<1>3. CASE ProfileNext /\ ~wild
  <2>1. ASSUME wild' PROVE Counting'
    BY <2>1 DEF Counting
  <2>2. (StartSampler \/ NewSlab) /\ ~wild' => Counting'
    BY <1>3, QuietCounts
  <2>3. Malloc \/ Malloced \/ NeedInit \/ nios2_pcsample_init \/ Disable \/ mcount_allocate => Counting'
    BY <1>3, QuietCounts
  <2> QED
    BY <1>3, <2>1, <2>2, <2>3, ExtendCounts, McountCounts, SearchCounts, CountUpCounts, LinkCounts,
       InterruptCounts DEF ProfileNext, Wild
<1> QED
  BY <1>1, <1>2, <1>3

(* Every call that has returned is counted, except where a handler counted *)
(* the same arc between the load and the store (alt_gmon.c 173 to 181).    *)
THEOREM EveryCallCounted == ProfileSpec => []CallsCounted
<1>1. Profiling /\ Counting => CallsCounted
  <2> SUFFICES ASSUME Profiling, Counting, ~wild, \A k \in 1..Len(contexts) : contexts[k].pc = "run",
                      NEW a \in Arcs
               PROVE  /\ Counted(a) + lost[a] = calls[a]
                      /\ calls[a] > 0 => Counted(a) > 0
    BY DEF CallsCounted
  <2>1. Stack /\ Ledgers /\ Balance(a)
    BY TopListed DEF Profiling, Nested
  <2>2. Dues(a) = 0
    <3>1. contexts[1].pc = "run" /\ (Len(contexts) = 2 => contexts[2].pc = "run")
      BY <2>1 DEF Stack
    <3>2. Due(contexts[1], a) = 0 /\ (Len(contexts) = 2 => Due(contexts[2], a) = 0)
      BY <3>1 DEF Due, Busy
    <3> QED
      BY <3>2 DEF Dues
  <2>3. Total(a) \in Nat /\ lost[a] \in Int /\ Total(a) = Counted(a)
    <3>1. Total(a) \in Nat
      BY <2>1, PlacesNumbered, CountPositive DEF Total, Ledgers
    <3> QED
      BY <2>1, <3>1, CountedIs DEF Ledgers, Total
  <2> QED
    BY <2>1, <2>2, <2>3 DEF Balance
<1>2. ProfileSpec => [](Profiling /\ Counting)
  BY InitProfiling, StepProfiling, InitCounts, StepCounts, PTL DEF ProfileSpec
<1> QED
  BY <1>1, <1>2, PTL

-------------------------------------------------------------------------------
(***************************************************************************)
(* Powers, which the provers do not know.                                  *)
(***************************************************************************)
Powers(b, n, f) == f = [i \in 0..n |-> IF i = 0 THEN 1 ELSE b * f[i - 1]]

LEMMA PowersExist == ASSUME NEW b \in Nat, NEW n \in Nat PROVE \E f : Powers(b, n, f)
<1> DEFINE S == {m \in Nat : \E f : Powers(b, m, f)}
<1>1. 0 \in S
  <2>1. Powers(b, 0, [i \in 0..0 |-> 1])
    BY DEF Powers
  <2> QED
    BY <2>1
<1>2. ASSUME NEW m \in Nat, m \in S PROVE m + 1 \in S
  <2>1. PICK f : Powers(b, m, f)
    BY <1>2
  <2> DEFINE g == [i \in 0..(m + 1) |-> IF i = m + 1 THEN b * f[m] ELSE f[i]]
  <2>2. ASSUME NEW i \in 0..(m + 1) PROVE g[i] = IF i = 0 THEN 1 ELSE b * g[i - 1]
    <3>1. CASE i = m + 1
      <4>1. g[i] = b * f[m] /\ i # 0 /\ g[i - 1] = f[m]
        BY <3>1
      <4> QED
        BY <3>1, <4>1
    <3>2. CASE i \in 0..m
      <4>1. g[i] = f[i] /\ f[i] = IF i = 0 THEN 1 ELSE b * f[i - 1]
        BY <2>1, <3>2 DEF Powers
      <4>2. i # 0 => g[i - 1] = f[i - 1]
        BY <3>2
      <4> QED
        BY <4>1, <4>2
    <3> QED
      BY <3>1, <3>2
  <2>3. Powers(b, m + 1, g)
    <3>1. g = [i \in 0..(m + 1) |-> g[i]]
      OBVIOUS
    <3> HIDE DEF g
    <3> QED
      BY <2>2, <3>1 DEF Powers
  <2> QED
    BY <2>3
<1> HIDE DEF S
<1>3. Nat \subseteq S
  BY <1>1, <1>2, NumberInduction
<1> QED
  BY <1>3 DEF S

LEMMA PowersAgree ==
  ASSUME NEW b \in Nat, NEW n \in Nat, NEW f, Powers(b, n, f), NEW m \in Nat, NEW g, Powers(b, m, g), m <= n
  PROVE  \A i \in 0..m : f[i] = g[i] /\ f[i] \in Nat /\ (b >= 1 => f[i] >= 1)
<1> DEFINE S == {i \in Nat : i <= m => f[i] = g[i] /\ f[i] \in Nat /\ (b >= 1 => f[i] >= 1)}
<1>1. /\ \A i \in 0..n : f[i] = IF i = 0 THEN 1 ELSE b * f[i - 1]
      /\ \A i \in 0..m : g[i] = IF i = 0 THEN 1 ELSE b * g[i - 1]
  BY DEF Powers
<1>2. 0 \in S
  <2>1. f[0] = 1 /\ g[0] = 1
    BY <1>1
  <2> QED
    BY <2>1
<1>3. ASSUME NEW i \in Nat, i \in S PROVE i + 1 \in S
  <2>1. SUFFICES ASSUME i + 1 <= m
                 PROVE  /\ f[i + 1] = g[i + 1] /\ f[i + 1] \in Nat /\ (b >= 1 => f[i + 1] >= 1)
    BY <1>3
  <2>2. i + 1 \in 0..n /\ i + 1 \in 0..m /\ i + 1 # 0 /\ (i + 1) - 1 = i
    BY <2>1
  <2>3. f[i] = g[i] /\ f[i] \in Nat /\ (b >= 1 => f[i] >= 1)
    BY <1>3, <2>1
  <2>4. f[i + 1] = b * f[i] /\ g[i + 1] = b * g[i]
    BY <1>1, <2>2
  <2>5. PICK x \in Nat : x = f[i]
    BY <2>3
  <2>6. b * x \in Nat /\ (b >= 1 => b * x >= x)
    <3>1. b >= 1 => 1 * x <= b * x
      BY Monotone
    <3> QED
      BY <3>1
  <2> QED
    BY <2>3, <2>4, <2>5, <2>6
<1> HIDE DEF S
<1>4. Nat \subseteq S
  BY <1>2, <1>3, NumberInduction
<1> QED
  BY <1>4 DEF S

LEMMA PowerIs ==
  ASSUME NEW b \in Nat, b >= 1, NEW n \in Nat
  PROVE  /\ Power(b, n) \in Nat /\ Power(b, n) >= 1 /\ Power(b, 0) = 1
         /\ Power(b, n + 1) = b * Power(b, n)
<1>1. ASSUME NEW m \in Nat PROVE \E f : Powers(b, m, f) /\ Power(b, m) = f[m]
  <2>1. Power(b, m) = (CHOOSE f : Powers(b, m, f))[m]
    BY DEF Power, Powers
  <2>2. PICK f : f = CHOOSE g : Powers(b, m, g)
    OBVIOUS
  <2>3. Powers(b, m, f)
    BY <2>2, PowersExist
  <2> QED
    BY <2>1, <2>2, <2>3
<1>2. PICK f : Powers(b, n, f) /\ Power(b, n) = f[n]
  BY <1>1
<1>3. PICK k \in Nat : k = n + 1
  OBVIOUS
<1>4. PICK g : Powers(b, k, g) /\ Power(b, k) = g[k]
  BY <1>1
<1>5. PICK h : Powers(b, 0, h) /\ Power(b, 0) = h[0]
  BY <1>1
<1>6. h[0] = 1
  BY <1>5 DEF Powers
<1>7. g[n] = f[n] /\ g[n] \in Nat /\ g[n] >= 1
  BY <1>2, <1>3, <1>4, PowersAgree
<1>8. g[k] = b * g[n]
  <2>1. k \in 0..k /\ k # 0 /\ k - 1 = n
    BY <1>3
  <2>2. \A i \in 0..k : g[i] = IF i = 0 THEN 1 ELSE b * g[i - 1]
    BY <1>4 DEF Powers
  <2> QED
    BY <2>1, <2>2
<1> QED
  BY <1>2, <1>3, <1>4, <1>5, <1>6, <1>7, <1>8

LEMMA PowerNat ==
  ASSUME NEW b \in Nat, b >= 2, NEW n \in Nat
  PROVE  Power(b, n) \in Nat /\ Power(b, n) >= 1
<1>1. b >= 1
  OBVIOUS
<1> QED
  BY <1>1, PowerIs

LEMMA PowersGrow ==
  ASSUME NEW b \in Nat, b >= 2, NEW n \in Nat
  PROVE  n < Power(b, n) /\ \A m \in 0..n : Power(b, m) <= Power(b, n)
<1> DEFINE S == {k \in Nat : k < Power(b, k) /\ \A m \in 0..k : Power(b, m) <= Power(b, k)}
<1>1. 0 \in S
  <2>1. Power(b, 0) = 1
    BY PowerIs
  <2> QED
    BY <2>1
<1>2. ASSUME NEW k \in Nat, k \in S PROVE k + 1 \in S
  <2>1. PICK x, y : x = Power(b, k) /\ y = Power(b, k + 1)
    OBVIOUS
  <2>2. x \in Nat /\ x >= 1 /\ y = b * x /\ k < x
    BY <1>2, <2>1, PowerIs
  <2>3. y \in Nat /\ 2 * x <= y
    BY <2>2, Monotone
  <2>4. k + 1 < y /\ x <= y
    BY <2>2, <2>3
  <2>5. ASSUME NEW m \in 0..(k + 1) PROVE Power(b, m) <= y
    <3>1. CASE m = k + 1
      BY <2>1, <2>3, <3>1
    <3>2. CASE m \in 0..k
      <4>1. Power(b, m) <= x
        BY <1>2, <2>1, <3>2
      <4>2. Power(b, m) \in Nat
        BY <3>2, PowerNat
      <4> QED
        BY <2>2, <2>3, <2>4, <4>1, <4>2
    <3> QED
      BY <3>1, <3>2
  <2> QED
    BY <2>1, <2>4, <2>5
<1> HIDE DEF S
<1>3. Nat \subseteq S
  BY <1>1, <1>2, NumberInduction
<1> QED
  BY <1>3 DEF S

LEMMA Least ==
  ASSUME NEW T \in SUBSET Nat, T # {}
  PROVE  \E n \in T : \A m \in T : n <= m
<1> SUFFICES ASSUME \A n \in T : \E m \in T : m < n PROVE FALSE
  OBVIOUS
<1> DEFINE S == {n \in Nat : \A m \in T : n < m}
<1>1. 0 \in S
  <2>1. ASSUME NEW m \in T PROVE 0 < m
    <3>1. PICK k \in T : k < m
      OBVIOUS
    <3> QED
      BY <3>1
  <2> QED
    BY <2>1
<1>2. ASSUME NEW n \in Nat, n \in S PROVE n + 1 \in S
  <2>1. ASSUME NEW m \in T PROVE n + 1 < m
    <3>1. PICK k \in T : k < m
      OBVIOUS
    <3>2. n < k
      BY <1>2
    <3> QED
      BY <3>1, <3>2
  <2> QED
    BY <2>1
<1> HIDE DEF S
<1>3. Nat \subseteq S
  BY <1>1, <1>2, NumberInduction
<1>4. PICK n \in T : TRUE
  OBVIOUS
<1>5. n \in S
  BY <1>3
<1> QED
  BY <1>5 DEF S

(***************************************************************************)
(* How many digits a number has, and that its digits are the number.       *)
(***************************************************************************)
IsLength(b, x, n) == /\ n \in Nat /\ n >= 1 /\ x < Power(b, n)
                     /\ n > 1 => Power(b, n - 1) <= x

LEMMA LengthExists ==
  ASSUME NEW b \in Nat, b >= 2, NEW x \in Nat
  PROVE  \E n : IsLength(b, x, n)
<1> DEFINE T == {n \in Nat : n >= 1 /\ x < Power(b, n)}
<1>1. x + 1 \in T
  <2>1. PICK k \in Nat : k = x + 1
    OBVIOUS
  <2>2. k < Power(b, k) /\ Power(b, k) \in Nat
    BY PowersGrow, PowerIs
  <2> QED
    BY <2>1, <2>2
<1>2. PICK n \in T : \A m \in T : n <= m
  <2>1. T \in SUBSET Nat /\ T # {}
    BY <1>1
  <2> HIDE DEF T
  <2> QED
    BY <2>1, Least
<1>3. ASSUME n > 1 PROVE Power(b, n - 1) <= x
  <2>1. PICK k \in Nat : k = n - 1 /\ k >= 1 /\ k < n
    BY <1>3
  <2>2. k \notin T
    BY <1>2, <2>1
  <2>3. Power(b, k) \in Nat
    BY PowerNat
  <2> QED
    BY <2>1, <2>2, <2>3
<1> QED
  BY <1>3 DEF IsLength

LEMMA LengthUnique ==
  ASSUME NEW b \in Nat, b >= 2, NEW x \in Nat, NEW n, IsLength(b, x, n), NEW m, IsLength(b, x, m)
  PROVE  n = m
<1>1. ASSUME NEW k, IsLength(b, x, k), NEW l, IsLength(b, x, l) PROVE ~(k < l)
  <2>1. k \in Nat /\ k >= 1 /\ x < Power(b, k) /\ l \in Nat /\ (l > 1 => Power(b, l - 1) <= x)
    BY <1>1 DEF IsLength
  <2>2. SUFFICES ASSUME k < l PROVE FALSE
    OBVIOUS
  <2>3. PICK j \in Nat : j = l - 1 /\ k \in 0..j
    BY <2>1, <2>2
  <2>4. Power(b, k) <= Power(b, j) /\ Power(b, j) <= x
    BY <2>1, <2>2, <2>3, PowersGrow
  <2>5. Power(b, k) \in Nat /\ Power(b, j) \in Nat
    BY <2>1, PowerNat
  <2> QED
    BY <2>1, <2>4, <2>5
<1>2. n \in Nat /\ m \in Nat
  BY DEF IsLength
<1>3. ~(n < m) /\ ~(m < n)
  BY <1>1
<1> QED
  BY <1>2, <1>3

(* Dividing by the base takes the last digit away.                         *)
LEMMA LengthStep ==
  ASSUME NEW b \in Nat, b >= 2, NEW x \in Nat
  PROVE  /\ x \div b \in Nat /\ (x > 0 => x \div b < x)
         /\ x \div b = 0 => IsLength(b, x, 1)
         /\ \A m : x \div b # 0 /\ IsLength(b, x \div b, m) => IsLength(b, x, m + 1)
<1>1. PICK q, r : q = x \div b /\ r = x % b
  OBVIOUS
<1>2. q \in Nat /\ r \in Nat /\ r < b /\ q * b \in Nat /\ x = q * b + r
  BY <1>1, Split
<1>3. x > 0 => q < x
  <2>1. 2 * q <= b * q /\ b * q = q * b /\ b * q \in Nat
    BY <1>2, Monotone, Product
  <2> QED
    BY <1>2, <2>1
<1>4. ASSUME q = 0 PROVE IsLength(b, x, 1)
  <2>1. Power(b, 0 + 1) = b * Power(b, 0) /\ Power(b, 0) = 1
    BY PowerIs
  <2>2. Power(b, 1) = b
    BY <2>1
  <2>3. x < b
    BY <1>2, <1>4, Zero
  <2> QED
    BY <2>2, <2>3 DEF IsLength
<1>5. ASSUME NEW m, q # 0, IsLength(b, q, m) PROVE IsLength(b, x, m + 1)
  <2>1. m \in Nat /\ m >= 1 /\ q < Power(b, m) /\ (m > 1 => Power(b, m - 1) <= q)
    BY <1>5 DEF IsLength
  <2>2. PICK p \in Nat : p = Power(b, m) /\ Power(b, m + 1) = b * p /\ p >= 1
    BY <2>1, PowerIs
  <2>3. x < b * p
    <3>1. q * b + b <= p * b /\ p * b = b * p /\ p * b \in Nat
      BY <1>2, <2>1, <2>2, Apart1, Product
    <3> QED
      BY <1>2, <3>1
  <2>4. p <= x
    <3>1. PICK k \in Nat : m = k + 1
      BY <2>1
    <3>2. PICK l \in Nat : l = Power(b, k) /\ p = b * l
      <4>1. Power(b, k + 1) = b * Power(b, k) /\ Power(b, k) \in Nat
        BY PowerIs
      <4>2. p = Power(b, k + 1)
        BY <2>2, <3>1
      <4> QED
        BY <4>1, <4>2
    <3>3. l <= q
      <4>1. CASE k = 0
        BY <1>2, <1>5, <3>2, <4>1, PowerIs
      <4>2. CASE k # 0
        BY <2>1, <3>1, <3>2, <4>2
      <4> QED
        BY <4>1, <4>2
    <3>4. l * b <= q * b /\ l * b = b * l /\ l * b \in Nat
      BY <1>2, <3>3, Monotone, Product
    <3> QED
      BY <1>2, <3>2, <3>4
  <2>5. m + 1 \in Nat /\ m + 1 >= 1 /\ (m + 1) - 1 = m
    BY <2>1
  <2> QED
    BY <2>2, <2>3, <2>4, <2>5 DEF IsLength
<1> QED
  BY <1>1, <1>2, <1>3, <1>4, <1>5

LEMMA WordsAre ==
  /\ \A x \in Words : x \in Nat
  /\ \A x \in Words : \A y \in Nat : y <= x => y \in Words
  /\ Bits \in Nat /\ Bits > 0 /\ Power(2, Bits) \in Nat
  /\ \A x : x \in Words <=> x \in Nat /\ x < Power(2, Bits)
<1>1. Bits \in Nat /\ Bits > 0
  BY PrintAssumption
<1>2. Power(2, Bits) \in Nat /\ Power(2, Bits) >= 1
  BY <1>1, PowerIs
<1> QED
  BY <1>1, <1>2 DEF Words

CountsDigits(b, g) == g = [x \in Words |-> IF x \div b = 0 THEN 1 ELSE 1 + g[x \div b]]

LEMMA LengthCounted ==
  ASSUME NEW b \in Nat, b >= 2, NEW g, CountsDigits(b, g), NEW v \in Words
  PROVE  IsLength(b, v, g[v])
<1> DEFINE S == {n \in Nat : \A x \in Words : x <= n => IsLength(b, x, g[x])}
<1>1. ASSUME NEW x \in Words PROVE g[x] = IF x \div b = 0 THEN 1 ELSE 1 + g[x \div b]
  BY DEF CountsDigits
<1>2. ASSUME NEW x \in Words, x > 0 => IsLength(b, x \div b, g[x \div b]) PROVE IsLength(b, x, g[x])
  <2>1. PICK q : q = x \div b
    OBVIOUS
  <2>2. x \in Nat /\ q \in Nat /\ (q = 0 => IsLength(b, x, 1))
        /\ \A m : q # 0 /\ IsLength(b, q, m) => IsLength(b, x, m + 1)
    BY <2>1, WordsAre, LengthStep
  <2>3. CASE q = 0
    BY <1>1, <2>1, <2>2, <2>3
  <2>4. CASE q # 0
    <3>1. x > 0
      BY <2>1, <2>2, <2>4, Zero
    <3>2. PICK m : m = g[q] /\ IsLength(b, q, m)
      BY <1>2, <2>1, <3>1
    <3>3. g[x] = m + 1
      <4>1. g[x] = 1 + m /\ m \in Nat
        BY <1>1, <2>1, <2>4, <3>2 DEF IsLength
      <4> QED
        BY <4>1
    <3> QED
      BY <2>2, <2>4, <3>2, <3>3
  <2> QED
    BY <2>3, <2>4
<1>3. 0 \in S
  <2>1. ASSUME NEW x \in Words, x <= 0 PROVE IsLength(b, x, g[x])
    <3>1. ~(x > 0)
      BY <2>1, WordsAre
    <3> QED
      BY <1>2, <3>1
  <2> QED
    BY <2>1
<1>4. ASSUME NEW n \in Nat, n \in S PROVE n + 1 \in S
  <2>1. ASSUME NEW x \in Words, x <= n + 1 PROVE IsLength(b, x, g[x])
    <3>1. PICK q : q = x \div b
      OBVIOUS
    <3>2. x \in Nat /\ q \in Nat /\ (x > 0 => q < x)
      BY <3>1, WordsAre, LengthStep
    <3>3. x > 0 => q <= n /\ q \in Words
      BY <2>1, <3>2, WordsAre
    <3>4. x > 0 => IsLength(b, q, g[q])
      BY <1>4, <3>3
    <3> QED
      BY <1>2, <3>1, <3>4
  <2> QED
    BY <2>1
<1> HIDE DEF S
<1>5. Nat \subseteq S
  BY <1>3, <1>4, NumberInduction
<1>6. v \in S /\ v \in Nat /\ v <= v
  BY <1>5, WordsAre
<1> QED
  BY <1>6 DEF S

LEMMA LengthsExist == ASSUME NEW b \in Nat, b >= 2 PROVE \E g : CountsDigits(b, g)
<1> DEFINE L(x) == CHOOSE n : IsLength(b, x, n)
           g == [x \in Words |-> L(x)]
<1>1. ASSUME NEW x \in Nat PROVE IsLength(b, x, L(x))
  BY LengthExists
<1>2. ASSUME NEW x \in Nat, NEW n, IsLength(b, x, n) PROVE L(x) = n
  BY <1>1, <1>2, LengthUnique
<1>3. ASSUME NEW x \in Words PROVE g[x] = IF x \div b = 0 THEN 1 ELSE 1 + g[x \div b]
  <2>1. PICK q : q = x \div b
    OBVIOUS
  <2>2. x \in Nat /\ q \in Nat /\ (q = 0 => IsLength(b, x, 1))
        /\ \A m : q # 0 /\ IsLength(b, q, m) => IsLength(b, x, m + 1)
    BY <2>1, WordsAre, LengthStep
  <2> HIDE DEF L
  <2>3. CASE q = 0
    BY <1>2, <2>1, <2>2, <2>3
  <2>4. CASE q # 0
    <3>1. q \in Words
      <4>1. x = 0 => q = 0
        BY <2>1, Zero
      <4>2. x > 0 => q <= x
        BY <2>1, <2>2, LengthStep
      <4> QED
        BY <2>2, <2>4, <4>1, <4>2, WordsAre
    <3>2. IsLength(b, q, L(q)) /\ L(q) \in Nat
      BY <1>1, <2>2 DEF IsLength
    <3>3. L(x) = L(q) + 1
      BY <1>2, <2>2, <2>4, <3>2
    <3> QED
      BY <2>1, <2>4, <3>1, <3>2, <3>3
  <2> QED
    BY <2>3, <2>4
<1>4. CountsDigits(b, g)
  <2> HIDE DEF L
  <2>1. g = [x \in Words |-> g[x]]
    OBVIOUS
  <2> HIDE DEF g
  <2> QED
    BY <1>3, <2>1 DEF CountsDigits
<1> QED
  BY <1>4

LEMMA DigitCountIs ==
  ASSUME NEW b \in Nat, b >= 2, NEW v \in Words
  PROVE  IsLength(b, v, DigitCount(v, b))
<1>1. DigitCount(v, b) = (CHOOSE g : CountsDigits(b, g))[v]
  BY DEF DigitCount, CountsDigits
<1>2. PICK g : g = CHOOSE h : CountsDigits(b, h)
  OBVIOUS
<1>3. CountsDigits(b, g)
  BY <1>2, LengthsExist
<1> QED
  BY <1>1, <1>2, <1>3, LengthCounted

LEMMA DividedTwice ==
  ASSUME NEW v \in Nat, NEW p \in Nat, p >= 1, NEW b \in Nat, b >= 1
  PROVE  v \div (b * p) = (v \div p) \div b
<1>1. PICK x, s : x = v \div p /\ s = v % p
  OBVIOUS
<1>2. x \in Nat /\ s \in Nat /\ s < p /\ x * p \in Nat /\ v = x * p + s
  BY <1>1, Split
<1>3. PICK q, r : q = x \div b /\ r = x % b
  OBVIOUS
<1>4. q \in Nat /\ r \in Nat /\ r < b /\ q * b \in Nat /\ x = q * b + r
  BY <1>2, <1>3, Split
<1>5. PICK w \in Nat : w = b * p
  BY Product
<1>6. PICK z \in Nat : z = r * p + s /\ z < w
  <2>1. r * p \in Nat /\ r * p + p <= b * p
    BY <1>4, Apart1
  <2> QED
    BY <1>2, <1>5, <2>1
<1>7. v = q * w + z
  <2>1. x * p = (q * b) * p + r * p
    BY <1>4
  <2>2. (q * b) * p = q * (b * p)
    BY <1>4
  <2>3. r * p \in Nat /\ q * w \in Nat
    BY <1>4, <1>5, Product
  <2> QED
    BY <1>2, <1>5, <1>6, <2>1, <2>2, <2>3
<1>8. v \div w = q
  BY <1>4, <1>6, <1>7, Unique
<1> QED
  BY <1>1, <1>3, <1>5, <1>8

DigitOf(v, b, n, i) == (v \div Power(b, n - i)) % b

LEMMA NextDigit ==
  ASSUME NEW b \in Nat, b >= 2, NEW v \in Nat, NEW n \in Nat, NEW i \in 1..n
  PROVE  /\ v \div Power(b, n - i) \in Nat /\ v \div Power(b, n - (i - 1)) \in Nat
         /\ DigitOf(v, b, n, i) \in 0..(b - 1)
         /\ v \div Power(b, n - i) = b * (v \div Power(b, n - (i - 1))) + DigitOf(v, b, n, i)
<1>1. PICK k \in Nat : k = n - i /\ n - (i - 1) = k + 1
  OBVIOUS
<1>2. PICK p \in Nat : p = Power(b, k) /\ p >= 1 /\ Power(b, k + 1) = b * p
  <2>1. b >= 1
    OBVIOUS
  <2> QED
    BY <2>1, PowerIs
<1>3. PICK x : x = v \div p
  OBVIOUS
<1>4. x \in Nat /\ v \div (b * p) = x \div b
  <2>1. x \in Nat
    BY <1>2, <1>3, Split
  <2>2. b >= 1
    OBVIOUS
  <2> QED
    BY <1>2, <1>3, <2>1, <2>2, DividedTwice
<1>5. x \div b \in Nat /\ x % b \in Nat /\ x % b < b /\ (x \div b) * b \in Nat /\ x = (x \div b) * b + (x % b)
  BY <1>4, Split
<1>6. x = b * (x \div b) + (x % b)
  BY <1>5, Product
<1>7. v \div Power(b, n - i) = x /\ v \div Power(b, n - (i - 1)) = x \div b /\ DigitOf(v, b, n, i) = x % b
  BY <1>1, <1>2, <1>3, <1>4 DEF DigitOf
<1> QED
  BY <1>4, <1>5, <1>6, <1>7

Reads(ds, b, f) == f = [i \in 0..Len(ds) |-> IF i = 0 THEN 0 ELSE b * f[i - 1] + ValueOf(ds[i])]

LEMMA NumberIs ==
  ASSUME NEW b \in Nat, b >= 2, NEW v \in Nat, NEW n \in Nat, v < Power(b, n),
         NEW ds, Len(ds) = n, \A i \in 1..n : ValueOf(ds[i]) = DigitOf(v, b, n, i)
  PROVE  Number(ds, b) = v
<1> DEFINE R(i) == v \div Power(b, n - i)
           f0 == [i \in 0..n |-> R(i)]
<1>1. R(0) = 0 /\ R(n) = v
  <2>1. PICK p : p = Power(b, n)
    OBVIOUS
  <2>2. p \in Nat /\ p >= 1 /\ v < p /\ n - 0 = n
    BY <2>1, PowerNat
  <2>3. v \div p = 0
    <3>1. v = 0 * p + v
      BY <2>2, Zero
    <3> QED
      BY <2>2, <3>1, Unique
  <2>4. Power(b, 0) = 1 /\ n - n = 0
    <3>1. b >= 1
      OBVIOUS
    <3> QED
      BY <3>1, PowerIs
  <2>5. v \div 1 = v
    OBVIOUS
  <2> QED
    BY <2>1, <2>2, <2>3, <2>4, <2>5
<1>2. ASSUME NEW i \in 1..n
      PROVE  R(i) = b * R(i - 1) + ValueOf(ds[i])
  BY NextDigit
<1> HIDE DEF R
<1>3. Reads(ds, b, f0)
  <2>1. ASSUME NEW i \in 0..n PROVE f0[i] = IF i = 0 THEN 0 ELSE b * f0[i - 1] + ValueOf(ds[i])
    <3>1. CASE i = 0
      BY <1>1, <3>1
    <3>2. CASE i # 0
      <4>1. i \in 1..n /\ i - 1 \in 0..n
        BY <3>2
      <4>2. f0[i] = R(i) /\ f0[i - 1] = R(i - 1)
        BY <4>1
      <4> QED
        BY <1>2, <3>2, <4>1, <4>2
    <3> QED
      BY <3>1, <3>2
  <2>2. f0 = [i \in 0..n |-> f0[i]]
    OBVIOUS
  <2> HIDE DEF f0
  <2> QED
    BY <2>1, <2>2 DEF Reads
<1>4. Number(ds, b) = (CHOOSE f : Reads(ds, b, f))[n]
  BY DEF Number, Reads
<1>5. PICK f : f = CHOOSE g : Reads(ds, b, g)
  OBVIOUS
<1>6. Reads(ds, b, f)
  BY <1>3, <1>5
<1>7. ASSUME NEW i \in 0..n PROVE f[i] = IF i = 0 THEN 0 ELSE b * f[i - 1] + ValueOf(ds[i])
  BY <1>6 DEF Reads
<1> DEFINE S == {i \in Nat : i <= n => f[i] = R(i)}
<1>8. 0 \in S
  BY <1>1, <1>7
<1>9. ASSUME NEW i \in Nat, i \in S PROVE i + 1 \in S
  <2>1. SUFFICES ASSUME i + 1 <= n PROVE f[i + 1] = R(i + 1)
    BY <1>9
  <2>2. PICK j \in 1..n : j = i + 1 /\ j - 1 = i /\ j # 0 /\ j \in 0..n
    BY <2>1
  <2>3. f[j] = b * f[j - 1] + ValueOf(ds[j])
    BY <1>7, <2>2
  <2>4. f[i] = R(i)
    BY <1>9, <2>1
  <2> QED
    BY <1>2, <2>2, <2>3, <2>4
<1> HIDE DEF S
<1>10. Nat \subseteq S
  BY <1>8, <1>9, NumberInduction
<1>11. f[n] = R(n)
  BY <1>10 DEF S
<1> QED
  BY <1>1, <1>4, <1>5, <1>11

(* Letters and the digits they stand for.                                  *)
Letters(upper) == IF upper THEN Upper ELSE Lower

Printable == {"-", " "} \cup {Letters(TRUE)[1 + d] : d \in 0..15} \cup {Letters(FALSE)[1 + d] : d \in 0..15}

LEMMA LettersAre ==
  ASSUME NEW upper \in BOOLEAN, NEW d \in 0..15
  PROVE  /\ Letters(upper)[1 + d] \in Printable
         /\ Letters(upper)[1 + d] # "-" /\ Letters(upper)[1 + d] # " "
         /\ (Letters(upper)[1 + d] = "0" <=> d = 0)
         /\ ValueOf(Letters(upper)[1 + d]) = d
<1>1. /\ Lower[1] = "0" /\ Lower[2] = "1" /\ Lower[3] = "2" /\ Lower[4] = "3" /\ Lower[5] = "4"
      /\ Lower[6] = "5" /\ Lower[7] = "6" /\ Lower[8] = "7" /\ Lower[9] = "8" /\ Lower[10] = "9"
      /\ Lower[11] = "a" /\ Lower[12] = "b" /\ Lower[13] = "c" /\ Lower[14] = "d" /\ Lower[15] = "e"
      /\ Lower[16] = "f" /\ DOMAIN Lower = 1..16
  BY DEF Lower
<1>2. /\ Upper[1] = "0" /\ Upper[2] = "1" /\ Upper[3] = "2" /\ Upper[4] = "3" /\ Upper[5] = "4"
      /\ Upper[6] = "5" /\ Upper[7] = "6" /\ Upper[8] = "7" /\ Upper[9] = "8" /\ Upper[10] = "9"
      /\ Upper[11] = "A" /\ Upper[12] = "B" /\ Upper[13] = "C" /\ Upper[14] = "D" /\ Upper[15] = "E"
      /\ Upper[16] = "F"
  BY <1>1 DEF Upper
<1> DEFINE c == Letters(upper)[1 + d]
<1>3. c \in {Lower[1 + d], Upper[1 + d]}
  BY DEF Letters
<1>4. (d = 0 /\ c = "0") \/ (d = 1 /\ c = "1") \/ (d = 2 /\ c = "2") \/ (d = 3 /\ c = "3") \/
      (d = 4 /\ c = "4") \/ (d = 5 /\ c = "5") \/ (d = 6 /\ c = "6") \/ (d = 7 /\ c = "7") \/
      (d = 8 /\ c = "8") \/ (d = 9 /\ c = "9") \/ (d = 10 /\ c \in {"a", "A"}) \/ (d = 11 /\ c \in {"b", "B"}) \/
      (d = 12 /\ c \in {"c", "C"}) \/ (d = 13 /\ c \in {"d", "D"}) \/ (d = 14 /\ c \in {"e", "E"}) \/ (d = 15 /\ c \in {"f", "F"})
  BY <1>1, <1>2, <1>3
<1> HIDE DEF c
<1>5. ASSUME NEW e \in 0..15, c \in {Lower[e + 1], Upper[e + 1]} PROVE e = d
  BY <1>1, <1>2, <1>4, <1>5
<1>6. ValueOf(c) = d
  <2>1. c \in {Lower[d + 1], Upper[d + 1]}
    BY <1>3 DEF c
  <2> QED
    BY <1>5, <2>1 DEF ValueOf
<1>7. c = "0" <=> d = 0
  BY <1>4
<1>8. c # "-" /\ c # " "
  BY <1>4, Zenon
<1>9. c \in Printable
  BY DEF c, Printable
<1> QED
  BY <1>6, <1>7, <1>8, <1>9 DEF c

IsNumeral(ds, b, upper, v) ==
  /\ ds \in Seq(Printable) /\ Len(ds) \in Nat /\ Len(ds) >= 1
  /\ \A i \in 1..Len(ds) : ds[i] \in {Letters(upper)[d] : d \in 1..b}
  /\ Number(ds, b) = v /\ (Len(ds) > 1 => ds[1] # "0")
Row(v, b, n, upper) == [i \in 1..n |-> Letters(upper)[1 + DigitOf(v, b, n, i)]]

(* A row of as many digits as the number has is the number.                *)
LEMMA RowIsNumeral ==
  ASSUME NEW b \in {8, 10, 16}, NEW upper \in BOOLEAN, NEW v \in Nat, NEW n, IsLength(b, v, n)
  PROVE  IsNumeral(Row(v, b, n, upper), b, upper, v)
<1>1. b \in Nat /\ b >= 2 /\ b <= 16
  OBVIOUS
<1>2. n \in Nat /\ n >= 1 /\ v < Power(b, n) /\ (n > 1 => Power(b, n - 1) <= v)
  BY DEF IsLength
<1>3. PICK ds : ds = Row(v, b, n, upper)
  OBVIOUS
<1>4. ASSUME NEW i \in 1..n
      PROVE  \E d \in 0..(b - 1) : d = DigitOf(v, b, n, i) /\ d \in 0..15 /\ ds[i] = Letters(upper)[1 + d]
  <2>1. DigitOf(v, b, n, i) \in 0..(b - 1)
    BY <1>1, <1>2, NextDigit
  <2> QED
    BY <1>1, <1>3, <2>1 DEF Row
<1>5. ASSUME NEW i \in 1..n
      PROVE  /\ ds[i] \in Printable /\ ValueOf(ds[i]) = DigitOf(v, b, n, i)
             /\ ds[i] \in {Letters(upper)[d] : d \in 1..b} /\ (ds[i] = "0" => DigitOf(v, b, n, i) = 0)
  <2>1. PICK d \in 0..(b - 1) : d = DigitOf(v, b, n, i) /\ d \in 0..15 /\ ds[i] = Letters(upper)[1 + d]
    BY <1>4
  <2>2. PICK e \in 1..b : e = 1 + d
    BY <1>1, <2>1
  <2>3. ds[i] \in {Letters(upper)[k] : k \in 1..b}
    BY <2>1, <2>2
  <2>4. /\ Letters(upper)[1 + d] \in Printable /\ ValueOf(Letters(upper)[1 + d]) = d
        /\ (Letters(upper)[1 + d] = "0" <=> d = 0)
    BY <2>1, LettersAre
  <2> QED
    BY <2>1, <2>3, <2>4
<1>6. Len(ds) = n /\ ds \in Seq(Printable)
  <2>1. ds = [i \in 1..n |-> ds[i]]
    BY <1>3 DEF Row
  <2>2. ds \in Seq(Printable)
    BY <1>2, <1>5, <2>1
  <2>3. DOMAIN ds = 1..n
    BY <1>3 DEF Row
  <2> QED
    BY <1>2, <2>2, <2>3
<1>7. Number(ds, b) = v
  BY <1>1, <1>2, <1>5, <1>6, NumberIs
<1>8. ASSUME n > 1 PROVE ds[1] # "0"
  <2>1. PICK k \in Nat : k = n - 1 /\ 1 \in 1..n /\ n = k + 1
    BY <1>2, <1>8
  <2>2. PICK p \in Nat : p = Power(b, k) /\ p >= 1 /\ p <= v /\ v < b * p
    <3>1. Power(b, k) \in Nat /\ Power(b, k) >= 1 /\ Power(b, k + 1) = b * Power(b, k)
      <4>1. b >= 1
        BY <1>1
      <4> QED
        BY <1>1, <4>1, PowerIs
    <3> QED
      BY <1>2, <1>8, <2>1, <3>1
  <2>3. PICK x : x = v \div p
    OBVIOUS
  <2>4. x \in Nat /\ v % p \in Nat /\ v % p < p /\ x * p \in Nat /\ v = x * p + (v % p)
    BY <2>2, <2>3, Split
  <2>5. x # 0
    <3>1. 0 * p = 0
      BY <2>2, Zero
    <3> QED
      BY <2>2, <2>4, <3>1
  <2>6. x < b
    <3> SUFFICES ASSUME b <= x PROVE FALSE
      BY <1>1, <2>4
    <3>1. b * p <= x * p /\ b * p \in Nat
      BY <1>1, <2>2, <2>4, Monotone
    <3> QED
      BY <2>2, <2>4, <3>1
  <2>7. x % b = x
    <3>1. x = 0 * b + x
      BY <1>1, <2>4, Zero
    <3> QED
      BY <1>1, <2>4, <2>6, <3>1, Unique
  <2>8. DigitOf(v, b, n, 1) = x % b
    BY <2>1, <2>2, <2>3 DEF DigitOf
  <2> QED
    BY <1>5, <2>1, <2>5, <2>7, <2>8
<1>9. ASSUME NEW i \in 1..Len(ds) PROVE ds[i] \in {Letters(upper)[d] : d \in 1..b}
  BY <1>5, <1>6
<1>10. IsNumeral(ds, b, upper, v)
  BY <1>2, <1>6, <1>7, <1>8, <1>9 DEF IsNumeral
<1> QED
  BY <1>3, <1>10

LEMMA DigitsAre ==
  ASSUME NEW b \in {8, 10, 16}, NEW upper \in BOOLEAN, NEW v \in Words
  PROVE  IsNumeral(Digits(v, b, upper), b, upper, v)
<1>1. b \in Nat /\ b >= 2 /\ v \in Nat
  BY WordsAre
<1>2. PICK n : n = DigitCount(v, b)
  OBVIOUS
<1>3. IsLength(b, v, n)
  BY <1>1, <1>2, DigitCountIs
<1>4. Digits(v, b, upper) = Row(v, b, n, upper)
  BY <1>2 DEF Digits, Row, DigitOf, Letters
<1> QED
  BY <1>1, <1>3, <1>4, RowIsNumeral

(* Sixteen to the k is two to the four times k.                            *)
LEMMA Sixteens == ASSUME NEW k \in Nat PROVE Power(16, k) = Power(2, 4 * k)
<1> DEFINE S == {m \in Nat : Power(16, m) = Power(2, 4 * m)}
<1>1. 0 \in S
  <2>1. Power(16, 0) = 1 /\ Power(2, 0) = 1
    BY PowerIs
  <2>2. 4 * 0 = 0
    OBVIOUS
  <2> QED
    BY <2>1, <2>2
<1>2. ASSUME NEW m \in Nat, m \in S PROVE m + 1 \in S
  <2>1. PICK a \in Nat : a = 4 * m /\ 4 * (m + 1) = (((a + 1) + 1) + 1) + 1
    OBVIOUS
  <2>2. PICK x \in Nat : x = Power(2, a)
    BY PowerNat
  <2>3. Power(2, a + 1) = 2 * x
    BY <2>2, PowerIs
  <2>4. Power(2, (a + 1) + 1) = 4 * x
    <3>1. PICK c \in Nat : c = a + 1
      OBVIOUS
    <3>2. Power(2, c + 1) = 2 * Power(2, c)
      BY PowerIs
    <3> QED
      BY <2>3, <3>1, <3>2
  <2>5. Power(2, ((a + 1) + 1) + 1) = 8 * x
    <3>1. PICK c \in Nat : c = (a + 1) + 1
      OBVIOUS
    <3>2. Power(2, c + 1) = 2 * Power(2, c)
      BY PowerIs
    <3> QED
      BY <2>4, <3>1, <3>2
  <2>6. Power(2, (((a + 1) + 1) + 1) + 1) = 16 * x
    <3>1. PICK c \in Nat : c = ((a + 1) + 1) + 1
      OBVIOUS
    <3>2. Power(2, c + 1) = 2 * Power(2, c)
      BY PowerIs
    <3> QED
      BY <2>5, <3>1, <3>2
  <2>7. Power(16, m + 1) = 16 * Power(16, m) /\ Power(16, m) = x
    BY <1>2, <2>1, <2>2, PowerIs
  <2> QED
    BY <2>1, <2>6, <2>7
<1> HIDE DEF S
<1>3. Nat \subseteq S
  BY <1>1, <1>2, NumberInduction
<1> QED
  BY <1>3 DEF S

LEMMA HexDigitsAre == ASSUME NEW v \in Words PROVE IsNumeral(HexDigits(v), 16, FALSE, v)
<1>0. v \in Nat /\ v < Power(2, Bits) /\ Bits \in Nat /\ Bits > 0
  BY WordsAre
<1>1. PICK k \in Nat : k = Bits \div 4 /\ v < Power(16, k) /\ k >= 1
  <2>1. Bits % 4 = 0
    BY PrintAssumption
  <2>2. PICK k \in Nat : k = Bits \div 4 /\ Bits = 4 * k
    BY <1>0, <2>1
  <2> QED
    BY <1>0, <2>2, Sixteens
<1>2. ASSUME NEW m \in Nat PROVE Power(16, m) \in Nat /\ Power(16, m) >= 1
  BY PowerNat
<1>3. ASSUME NEW m \in Nat PROVE (v \div Power(16, m) = 0 <=> v < Power(16, m))
  <2>1. PICK p \in Nat : p = Power(16, m) /\ p >= 1
    BY <1>2
  <2>2. /\ v \div p \in Nat /\ v % p \in Nat /\ v % p < p
        /\ (v \div p) * p \in Nat /\ v = (v \div p) * p + (v % p)
    BY <1>0, <2>1, Split
  <2>3. v < p => v \div p = 0
    <3>1. v = 0 * p + v
      BY <1>0, <2>1, Zero
    <3> QED
      BY <1>0, <2>1, <3>1, Unique
  <2>4. v \div p = 0 => v < p
    <3>1. 0 * p = 0
      BY <2>1, Zero
    <3> QED
      BY <2>2, <3>1
  <2> QED
    BY <2>1, <2>3, <2>4
<1>4. CASE v = 0
  <2>1. IsLength(16, v, 1)
    <3>1. Power(16, 0 + 1) = 16 * Power(16, 0) /\ Power(16, 0) = 1
      BY PowerIs
    <3> QED
      BY <1>4, <3>1 DEF IsLength
  <2>2. IsNumeral(Row(v, 16, 1, FALSE), 16, FALSE, v)
    BY <1>0, <2>1, RowIsNumeral
  <2>3. DigitOf(v, 16, 1, 1) = 0
    <3>1. PICK p \in Nat : p = Power(16, 1 - 1) /\ p >= 1
      BY <1>2
    <3>2. v \div p = 0
      <4>1. 0 = 0 * p + 0
        BY <3>1, Zero
      <4> QED
        BY <1>4, <3>1, <4>1, Unique
    <3> QED
      BY <3>1, <3>2 DEF DigitOf
  <2>4. Row(v, 16, 1, FALSE) = <<"0">>
    <3>1. Letters(FALSE)[1 + 0] = "0"
      BY DEF Letters, Lower
    <3>2. PICK r : r = Row(v, 16, 1, FALSE)
      OBVIOUS
    <3>3. r = [i \in 1..1 |-> r[i]] /\ r[1] = Letters(FALSE)[1 + DigitOf(v, 16, 1, 1)]
      BY <3>2 DEF Row
    <3>4. r[1] = "0"
      BY <2>3, <3>1, <3>3
    <3>5. r = <<"0">>
      BY <3>3, <3>4
    <3> QED
      BY <3>2, <3>5
  <2>5. HexDigits(v) = <<"0">>
    BY <1>4 DEF HexDigits
  <2> QED
    BY <2>2, <2>4, <2>5
<1>5. CASE v # 0
  <2> DEFINE First(s) == v \div Power(16, s) # 0 /\ \A t \in (s + 1)..((Bits \div 4) - 1) : v \div Power(16, t) = 0
  <2>1. PICK n : IsLength(16, v, n)
    BY <1>0, LengthExists
  <2>2. n \in Nat /\ n >= 1 /\ v < Power(16, n) /\ (n > 1 => Power(16, n - 1) <= v)
    BY <2>1 DEF IsLength
  <2>3. PICK s \in Nat : s = n - 1 /\ Power(16, s) <= v /\ n = s + 1
    <3>1. CASE n = 1
      <4>1. Power(16, 0) = 1 /\ n - 1 = 0
        BY <3>1, PowerIs
      <4> QED
        BY <1>0, <1>5, <3>1, <4>1
    <3>2. CASE n > 1
      BY <2>2, <3>2
    <3> QED
      BY <2>2, <3>1, <3>2
  <2>4. s < k
    <3> SUFFICES ASSUME k <= s PROVE FALSE
      BY <1>1
    <3>1. k \in 0..s /\ Power(16, k) <= Power(16, s)
      BY PowersGrow
    <3> QED
      BY <1>0, <1>1, <1>2, <2>3, <3>1
  <2>5. First(s)
    <3>1. v \div Power(16, s) # 0
      BY <1>0, <1>2, <1>3, <2>3
    <3>2. ASSUME NEW t \in (s + 1)..(k - 1) PROVE v \div Power(16, t) = 0
      <4>1. t \in Nat /\ n \in 0..t
        BY <2>2, <2>3
      <4>2. Power(16, n) <= Power(16, t)
        BY <4>1, PowersGrow
      <4>3. v < Power(16, t)
        BY <1>0, <1>2, <2>2, <4>1, <4>2
      <4> QED
        BY <1>3, <4>1, <4>3
    <3> QED
      BY <1>1, <3>1, <3>2
  <2>6. PICK shift : shift = FirstShift(v)
    OBVIOUS
  <2>7. shift \in 0..(k - 1) /\ First(shift)
    <3>1. s \in 0..((Bits \div 4) - 1)
      BY <1>1, <2>4
    <3>3. shift = CHOOSE x \in 0..((Bits \div 4) - 1) : First(x)
      BY <2>6 DEF FirstShift
    <3> HIDE DEF First
    <3>2. shift \in 0..((Bits \div 4) - 1) /\ First(shift)
      BY <2>5, <3>1, <3>3
    <3> QED
      BY <1>1, <3>2
  <2>8. PICK m \in Nat : m = shift + 1 /\ shift \in Nat /\ m - 1 = shift /\ m >= 1
    BY <2>7
  <2>9. IsLength(16, v, m)
    <3>1. Power(16, shift) <= v
      <4>1. ~(v < Power(16, shift))
        BY <1>3, <2>7, <2>8
      <4> QED
        BY <1>0, <1>2, <2>8, <4>1
    <3>2. v < Power(16, m)
      <4>1. CASE m = k
        BY <1>1, <4>1
      <4>2. CASE m # k
        <5>1. m \in (shift + 1)..(k - 1)
          BY <1>1, <2>7, <2>8, <4>2
        <5> QED
          BY <1>1, <1>3, <2>7, <5>1
      <4> QED
        BY <4>1, <4>2
    <3> QED
      BY <2>8, <3>1, <3>2 DEF IsLength
  <2>10. IsNumeral(Row(v, 16, m, FALSE), 16, FALSE, v)
    BY <1>0, <2>9, RowIsNumeral
  <2>11. HexDigits(v) = Row(v, 16, shift + 1, FALSE)
    BY <1>5, <2>6 DEF HexDigits, Row, DigitOf, Letters
  <2> QED
    BY <2>8, <2>10, <2>11
<1> QED
  BY <1>4, <1>5

(* A text of a head and a numeral can be taken apart again.                *)
SignOf(p) == p.f.signed /\ p.value >= Power(2, Bits - 1)
Magnitude(p) == IF SignOf(p) THEN Power(2, Bits) - p.value ELSE p.value
SignsIn(head) == {i \in 1..Len(head) : head[i] = "-"}
HeadFits(p, head, n) ==
  /\ SignsIn(head) = (IF ~SignOf(p) THEN {} ELSE IF p.f.zero THEN {1} ELSE {Len(head)})
  /\ \A i \in (1..Len(head)) \ SignsIn(head) : head[i] = IF p.f.zero THEN "0" ELSE " "
  /\ Len(head) > (IF SignOf(p) THEN 1 ELSE 0) => Len(head) + n = p.f.before
  /\ Len(head) + n >= p.f.before

LEMMA TakenApart ==
  ASSUME NEW head \in Seq(Printable), NEW ds \in Seq(Printable)
  PROVE  /\ Len(head \o ds) = Len(head) + Len(ds) /\ Len(head) \in Nat /\ Len(ds) \in Nat
         /\ SubSeq(head \o ds, 1, Len(head)) = head
         /\ SubSeq(head \o ds, Len(head) + 1, Len(head) + Len(ds)) = ds
<1>0. head \o ds \in Seq(Printable)
  OBVIOUS
<1>1. PICK t \in Seq(Printable) : t = head \o ds
  BY <1>0
<1>2. Len(head) \in Nat /\ Len(ds) \in Nat /\ Len(t) = Len(head) + Len(ds)
  BY <1>1
<1>3. ASSUME NEW i \in 1..Len(head) PROVE t[i] = head[i]
  BY <1>1, <1>2
<1>4. ASSUME NEW i \in 1..Len(ds) PROVE t[Len(head) + i] = ds[i]
  BY <1>1, <1>2
<1>5. SubSeq(t, 1, Len(head)) = head
  BY <1>2, <1>3
<1>6. SubSeq(t, Len(head) + 1, Len(head) + Len(ds)) = ds
  <2>1. PICK h \in Nat, n \in Nat : h = Len(head) /\ n = Len(ds) /\ Len(t) = h + n
    BY <1>2
  <2>2. PICK u : u = SubSeq(t, h + 1, h + n)
    OBVIOUS
  <2>3. u = [i \in 1..((1 + (h + n)) - (h + 1)) |-> t[i + (h + 1) - 1]]
    BY <2>2 DEF SubSeq
  <2>4. ASSUME NEW i \in 1..n PROVE u[i] = ds[i]
    <3>1. (1 + (h + n)) - (h + 1) = n /\ i + (h + 1) - 1 = h + i
      BY <2>1
    <3> QED
      BY <1>4, <2>1, <2>3, <3>1
  <2>5. u = [i \in 1..n |-> u[i]]
    BY <2>3
  <2>6. ds = [i \in 1..n |-> ds[i]]
    BY <2>1
  <2>7. u = ds
    BY <2>4, <2>5, <2>6
  <2> QED
    BY <2>1, <2>2, <2>7
<1> QED
  BY <1>1, <1>2, <1>5, <1>6

LEMMA RightWhenLaid ==
  ASSUME NEW p, p.f.before \in Int, NEW head \in Seq(Printable), NEW ds, p.text = head \o ds,
         IsNumeral(ds, p.f.base, p.f.upper, Magnitude(p)), HeadFits(p, head, Len(ds))
  PROVE  IntegerRight(p)
<1>1. PICK n \in Nat : n = Len(ds) /\ n >= 1 /\ ds \in Seq(Printable)
  BY DEF IsNumeral
<1>2. PICK h \in Nat : h = Len(head)
  OBVIOUS
<1>3. /\ Len(p.text) = h + n /\ SubSeq(p.text, 1, h) = head
      /\ SubSeq(p.text, h + 1, h + n) = ds
  <2>1. /\ Len(head \o ds) = Len(head) + Len(ds)
        /\ SubSeq(head \o ds, 1, Len(head)) = head
        /\ SubSeq(head \o ds, Len(head) + 1, Len(head) + Len(ds)) = ds
    BY <1>1, TakenApart
  <2> QED
    BY <1>1, <1>2, <2>1
<1>4. /\ Len(p.text) - n = h /\ (Len(p.text) - n) + 1 = h + 1 /\ n \in 1..Len(p.text)
  BY <1>1, <1>2, <1>3
<1> DEFINE sign == SignOf(p)
<1>5. /\ SubSeq(p.text, 1, Len(p.text) - n) = head
      /\ SubSeq(p.text, Len(p.text) - n + 1, Len(p.text)) = ds
  BY <1>3, <1>4
<1>6. /\ \A i \in 1..n : ds[i] \in {(IF p.f.upper THEN Upper ELSE Lower)[d] : d \in 1..p.f.base}
      /\ Number(ds, p.f.base) = Magnitude(p) /\ (n > 1 => ds[1] # "0")
  BY <1>1 DEF IsNumeral, Letters
<1>7. /\ SignsIn(head) = (IF ~SignOf(p) THEN {} ELSE IF p.f.zero THEN {1} ELSE {Len(head)})
      /\ \A i \in (1..Len(head)) \ SignsIn(head) : head[i] = IF p.f.zero THEN "0" ELSE " "
  BY DEF HeadFits
<1>8. /\ Len(p.text) > n + (IF SignOf(p) THEN 1 ELSE 0) => Len(p.text) = p.f.before
      /\ Len(p.text) >= p.f.before
  <2>1. PICK l \in Nat, w \in Int : l = Len(p.text) /\ w = p.f.before /\ l = h + n
    BY <1>3
  <2>2. /\ h > (IF SignOf(p) THEN 1 ELSE 0) => h + n = w
        /\ h + n >= w
    BY <1>1, <1>2, <2>1 DEF HeadFits
  <2>3. /\ l > n + (IF SignOf(p) THEN 1 ELSE 0) => l = w
        /\ l >= w
    BY <2>1, <2>2
  <2> QED
    BY <2>1, <2>3
<1> QED
  <2>1. /\ \A i \in 1..n : SubSeq(p.text, Len(p.text) - n + 1, Len(p.text))[i]
             \in {(IF p.f.upper THEN Upper ELSE Lower)[d] : d \in 1..p.f.base}
        /\ Number(SubSeq(p.text, Len(p.text) - n + 1, Len(p.text)), p.f.base) = Magnitude(p)
        /\ (n > 1 => SubSeq(p.text, Len(p.text) - n + 1, Len(p.text))[1] # "0")
    BY <1>5, <1>6
  <2>2. LET head0 == SubSeq(p.text, 1, Len(p.text) - n) IN
        /\ SignsIn(head0) = (IF ~SignOf(p) THEN {} ELSE IF p.f.zero THEN {1} ELSE {Len(head0)})
        /\ \A i \in (1..Len(head0)) \ SignsIn(head0) : head0[i] = IF p.f.zero THEN "0" ELSE " "
    BY <1>5, <1>7
  <2> QED
    BY <1>4, <1>8, <2>1, <2>2, Zenon DEF IntegerRight, SignOf, Magnitude, SignsIn

Padding(k) == IF k > 0 THEN k ELSE 0

LEMMA Repeated ==
  ASSUME NEW c \in Printable, NEW k \in Int
  PROVE  /\ Rep(c, k) \in Seq(Printable) /\ Len(Rep(c, k)) = Padding(k)
         /\ \A i \in 1..Len(Rep(c, k)) : Rep(c, k)[i] = c
<1>1. PICK n \in Nat : n = IF k > 0 THEN k ELSE 0
  OBVIOUS
<1>2. PICK r : r = [i \in 1..n |-> c]
  OBVIOUS
<1>3. Rep(c, k) = r
  BY <1>1, <1>2 DEF Rep
<1>4. r \in Seq(Printable) /\ Len(r) = n /\ \A i \in 1..n : r[i] = c
  BY <1>2
<1> QED
  BY <1>1, <1>3, <1>4 DEF Padding

(* The head of a number: a sign and what fills the width, in the order     *)
(* the fill asks for.                                                      *)
HeadOf(zero, sign, k) ==
  LET s == IF sign THEN <<"-">> ELSE <<>>
  IN IF zero THEN s \o Rep("0", k) ELSE Rep(" ", k) \o s
IsHead(h, zero, sign, k) ==
  /\ h \in Seq(Printable) /\ Len(h) = Padding(k) + (IF sign THEN 1 ELSE 0)
  /\ SignsIn(h) = (IF ~sign THEN {} ELSE IF zero THEN {1} ELSE {Len(h)})
  /\ \A i \in (1..Len(h)) \ SignsIn(h) : h[i] = IF zero THEN "0" ELSE " "

LEMMA HeadIs ==
  ASSUME NEW zero \in BOOLEAN, NEW sign \in BOOLEAN, NEW k \in Int
  PROVE  IsHead(HeadOf(zero, sign, k), zero, sign, k)
<1>1. PICK c : c = IF zero THEN "0" ELSE " "
  OBVIOUS
<1>2. c \in Printable /\ c # "-" /\ "-" \in Printable
  <2>1. Letters(TRUE)[1 + 0] \in Printable /\ Letters(TRUE)[1 + 0] = "0"
    <3>1. PICK d \in 0..15 : d = 0
      OBVIOUS
    <3>2. Letters(TRUE)[1 + d] \in Printable /\ (Letters(TRUE)[1 + d] = "0" <=> d = 0)
      BY LettersAre
    <3> QED
      BY <3>1, <3>2
  <2>2. "0" \in Printable /\ " " \in Printable /\ "-" \in Printable
    BY <2>1 DEF Printable
  <2>3. "0" # "-" /\ " " # "-"
    OBVIOUS
  <2> QED
    BY <1>1, <2>2, <2>3
<1>3. PICK r : r = Rep(c, k)
  OBVIOUS
<1>4. PICK n \in Nat : n = Padding(k) /\ Len(r) = n
  <2>1. Padding(k) \in Nat
    BY DEF Padding
  <2> QED
    BY <1>2, <1>3, <2>1, Repeated
<1>5. r \in Seq(Printable) /\ \A i \in 1..n : r[i] = c
  BY <1>2, <1>3, <1>4, Repeated
<1>6. PICK h : h = HeadOf(zero, sign, k)
  OBVIOUS
<1>7. CASE ~sign
  <2>1. h = r
    <3>1. <<>> \o r = r /\ r \o <<>> = r
      BY <1>5
    <3> QED
      BY <1>1, <1>3, <1>6, <1>7, <3>1 DEF HeadOf
  <2>2. SignsIn(h) = {}
    BY <1>2, <1>4, <1>5, <2>1 DEF SignsIn
  <2>3. \A i \in (1..Len(h)) \ SignsIn(h) : h[i] = c
    BY <1>4, <1>5, <2>1
  <2>4. h \in Seq(Printable) /\ Len(h) = Padding(k) + 0
    BY <1>4, <1>5, <2>1
  <2>5. IsHead(h, zero, sign, k)
    BY <1>1, <1>7, <2>2, <2>3, <2>4 DEF IsHead
  <2> QED
    BY <1>6, <2>5
<1>8. CASE sign /\ zero
  <2>1. h = <<"-">> \o r
    BY <1>1, <1>3, <1>6, <1>8 DEF HeadOf
  <2>2. <<"-">> \in Seq(Printable) /\ Len(<<"-">>) = 1
    BY <1>2
  <2>3. h \in Seq(Printable) /\ Len(h) = n + 1
    BY <1>4, <1>5, <2>1, <2>2
  <2>4. h[1] = "-" /\ \A i \in 2..(n + 1) : h[i] = c
    <3>1. h[1] = "-"
      BY <1>4, <1>5, <2>1, <2>2
    <3>2. ASSUME NEW i \in 2..(n + 1) PROVE h[i] = c
      <4>1. h[i] = r[i - 1] /\ i - 1 \in 1..n
        BY <1>4, <1>5, <2>1, <2>2
      <4> QED
        BY <1>5, <4>1
    <3> QED
      BY <3>1, <3>2
  <2>5. SignsIn(h) = {1}
    BY <1>2, <2>3, <2>4 DEF SignsIn
  <2>6. \A i \in (1..Len(h)) \ SignsIn(h) : h[i] = c
    BY <2>3, <2>4, <2>5
  <2> QED
    BY <1>1, <1>4, <1>6, <1>8, <2>3, <2>5, <2>6 DEF IsHead
<1>9. CASE sign /\ ~zero
  <2>1. h = r \o <<"-">>
    BY <1>1, <1>3, <1>6, <1>9 DEF HeadOf
  <2>2. <<"-">> \in Seq(Printable) /\ Len(<<"-">>) = 1
    BY <1>2
  <2>3. h \in Seq(Printable) /\ Len(h) = n + 1
    BY <1>4, <1>5, <2>1, <2>2
  <2>4. h[n + 1] = "-" /\ \A i \in 1..n : h[i] = c
    <3>1. h[n + 1] = "-"
      BY <1>4, <1>5, <2>1, <2>2
    <3>2. ASSUME NEW i \in 1..n PROVE h[i] = c
      <4>1. h[i] = r[i]
        BY <1>4, <1>5, <2>1, <2>2
      <4> QED
        BY <1>5, <4>1
    <3> QED
      BY <3>1, <3>2
  <2>5. SignsIn(h) = {n + 1}
    BY <1>2, <2>3, <2>4 DEF SignsIn
  <2>6. \A i \in (1..Len(h)) \ SignsIn(h) : h[i] = c
    BY <2>3, <2>4, <2>5
  <2> QED
    BY <1>1, <1>4, <1>6, <1>9, <2>3, <2>5, <2>6 DEF IsHead
<1> QED
  BY <1>7, <1>8, <1>9

LEMMA HeadFitsWhen ==
  ASSUME NEW p, NEW n \in Nat, NEW k \in Int, NEW zero \in BOOLEAN, NEW sign \in BOOLEAN,
         p.f.zero = zero, SignOf(p) = sign, p.f.before \in Int,
         k = (p.f.before - n) - (IF sign THEN 1 ELSE 0)
  PROVE  HeadFits(p, HeadOf(zero, sign, k), n)
<1>1. PICK h : h = HeadOf(zero, sign, k)
  OBVIOUS
<1>2. PICK l \in Nat : l = Len(h) /\ l = Padding(k) + (IF sign THEN 1 ELSE 0)
  <2>1. Padding(k) \in Nat
    BY DEF Padding
  <2>2. Len(h) = Padding(k) + (IF sign THEN 1 ELSE 0)
    <3>1. IsHead(h, zero, sign, k)
      BY <1>1, HeadIs
    <3> QED
      BY <3>1 DEF IsHead
  <2>3. (IF sign THEN 1 ELSE 0) \in Nat
    OBVIOUS
  <2> QED
    BY <2>1, <2>2, <2>3
<1>3. /\ SignsIn(h) = (IF ~sign THEN {} ELSE IF zero THEN {1} ELSE {Len(h)})
      /\ \A i \in (1..Len(h)) \ SignsIn(h) : h[i] = IF zero THEN "0" ELSE " "
  <2>1. IsHead(h, zero, sign, k)
    BY <1>1, HeadIs
  <2> QED
    BY <2>1 DEF IsHead
<1>4. PICK w \in Int : w = p.f.before
  OBVIOUS
<1>5. (l > (IF sign THEN 1 ELSE 0) => l + n = w) /\ l + n >= w
  BY <1>2, <1>4 DEF Padding
<1>6. /\ SignsIn(h) = (IF ~SignOf(p) THEN {} ELSE IF p.f.zero THEN {1} ELSE {Len(h)})
      /\ \A i \in (1..Len(h)) \ SignsIn(h) : h[i] = IF p.f.zero THEN "0" ELSE " "
  BY <1>3
<1>7. /\ Len(h) > (IF SignOf(p) THEN 1 ELSE 0) => Len(h) + n = p.f.before
      /\ Len(h) + n >= p.f.before
  BY <1>2, <1>4, <1>5
<1>8. HeadFits(p, h, n)
  BY <1>6, <1>7, Zenon DEF HeadFits
<1> QED
  BY <1>1, <1>8

(* What a conversion of an integer prints can be read back.                *)
LEMMA MagnitudeIsAWord ==
  ASSUME NEW p, p.value \in Words
  PROVE  Magnitude(p) \in Words
<1>1. PICK v \in Nat, w \in Nat, x \in Nat :
        v = p.value /\ w = Power(2, Bits) /\ x = Power(2, Bits - 1) /\ x >= 1 /\ v < w
  <2>1. Bits \in Nat /\ Bits > 0 /\ p.value \in Nat /\ p.value < Power(2, Bits)
    BY WordsAre
  <2>2. PICK k \in Nat : k = Bits - 1
    BY <2>1
  <2>3. /\ Power(2, Bits) \in Nat /\ Power(2, k) \in Nat /\ Power(2, k) >= 1
    BY <2>1, PowerNat
  <2> QED
    BY <2>1, <2>2, <2>3
<1>2. Magnitude(p) = v \/ (v >= x /\ Magnitude(p) = w - v)
  BY <1>1 DEF Magnitude, SignOf
<1> QED
  BY <1>1, <1>2 DEF Words

LEMMA IntegersPrinted ==
  ASSUME NEW p, NEW f, NEW v \in Words, NEW base \in {8, 10, 16}, NEW upper \in BOOLEAN,
         NEW zero \in BOOLEAN, NEW signed \in BOOLEAN, NEW before \in Int,
         f.base = base, f.upper = upper, f.zero = zero, f.signed = signed, f.before = before,
         p.f = f, p.value = v, p.text = IntegerPrint(f, v)
  PROVE  IntegerRight(p)
<1>1. PICK sign \in BOOLEAN : sign = SignOf(p)
  <2>1. SignOf(p) \in BOOLEAN
    BY Zenon DEF SignOf
  <2> QED
    BY <2>1
<1>2. (Negative(f, v) <=> sign) /\ Stripped(f, v) = Magnitude(p)
  <2>1. Negative(f, v) <=> SignOf(p)
    BY Zenon DEF Negative, SignOf
  <2>2. Stripped(f, v) = Magnitude(p)
    BY <2>1, Zenon DEF Stripped, Magnitude
  <2> QED
    BY <1>1, <2>1, <2>2, Zenon
<1>3. PICK ds : ds = Digits(Magnitude(p), base, upper)
  OBVIOUS
<1>4. IsNumeral(ds, p.f.base, p.f.upper, Magnitude(p))
  <2>1. Magnitude(p) \in Words
    BY MagnitudeIsAWord
  <2> QED
    BY <1>3, <2>1, DigitsAre
<1>5. PICK n \in Nat : n = Len(ds) /\ ds \in Seq(Printable)
  BY <1>4 DEF IsNumeral
<1>6. PICK k \in Int : k = (before - n) - (IF sign THEN 1 ELSE 0)
  OBVIOUS
<1>7. p.text = HeadOf(zero, sign, k) \o ds
  <2>1. PICK s : s = IF sign THEN <<"-">> ELSE <<>>
    OBVIOUS
  <2>2. Len(s) = (IF sign THEN 1 ELSE 0)
    BY <2>1
  <2>3. f.before - Len(ds) - Len(s) = k
    BY <1>5, <1>6, <2>2
  <2>4. s = IF Negative(f, v) THEN <<"-">> ELSE <<>>
    BY <1>2, <2>1
  <2>5. IntegerPrint(f, v) = IF zero THEN s \o Rep("0", k) \o ds ELSE Rep(" ", k) \o s \o ds
    BY <1>2, <1>3, <2>3, <2>4, Zenon DEF IntegerPrint
  <2>6. HeadOf(zero, sign, k) = IF zero THEN s \o Rep("0", k) ELSE Rep(" ", k) \o s
    BY <2>1, Zenon DEF HeadOf
  <2> QED
    BY <2>5, <2>6, Zenon
<1>8. HeadFits(p, HeadOf(zero, sign, k), Len(ds))
  BY <1>1, <1>5, <1>6, HeadFitsWhen
<1>9. PICK h : h = HeadOf(zero, sign, k) /\ h \in Seq(Printable)
  <2>1. IsHead(HeadOf(zero, sign, k), zero, sign, k)
    BY HeadIs
  <2> QED
    BY <2>1 DEF IsHead
<1> QED
  BY <1>4, <1>7, <1>8, <1>9, RightWhenLaid

(* alt_printf prints the digits alone.                                     *)
LEMMA HexPrinted ==
  ASSUME NEW p, NEW v \in Words, p.f = [Fresh EXCEPT !.base = 16, !.signed = FALSE],
         p.value = v, p.text = HexDigits(v)
  PROVE  IntegerRight(p)
<1>1. /\ p.f.base = 16 /\ p.f.signed = FALSE /\ p.f.upper = FALSE /\ p.f.zero = FALSE
      /\ p.f.before = -1
  BY DEF Fresh
<1>2. ~SignOf(p) /\ Magnitude(p) = v
  BY <1>1, Zenon DEF SignOf, Magnitude
<1>3. PICK ds : ds = HexDigits(v)
  OBVIOUS
<1>4. IsNumeral(ds, p.f.base, p.f.upper, Magnitude(p))
  BY <1>1, <1>2, <1>3, HexDigitsAre
<1>5. PICK n \in Nat : n = Len(ds) /\ ds \in Seq(Printable)
  BY <1>4 DEF IsNumeral
<1>6. PICK h \in Seq(Printable) : h = <<>> /\ Len(h) = 0
  <2>1. <<>> \in Seq(Printable) /\ Len(<<>>) = 0
    OBVIOUS
  <2> QED
    BY <2>1
<1>7. HeadFits(p, h, Len(ds))
  <2>1. SignsIn(h) = {} /\ \A i \in 1..Len(h) : FALSE
    BY <1>6 DEF SignsIn
  <2>2. Len(h) + n >= p.f.before /\ ~(Len(h) > 0)
    BY <1>1, <1>5, <1>6
  <2> QED
    BY <1>2, <1>5, <2>1, <2>2 DEF HeadFits
<1>8. p.text = h \o ds
  BY <1>3, <1>5, <1>6
<1>9. p.f.before \in Int
  BY <1>1
<1> QED
  BY <1>4, <1>7, <1>8, <1>9, RightWhenLaid

(* A piece of text, whichever conversion it is of.                         *)
RightPiece(p) ==
  CASE p.type = "integer" -> IntegerRight(p)
    [] p.type = "string"  ->
         LET n == Len(p.text) - Len(p.value) IN
         /\ n = IF p.width > Len(p.value) THEN p.width - Len(p.value) ELSE 0
         /\ p.text = Rep(" ", n) \o p.value
    [] p.type = "plain"   -> p.text = <<p.char>>
    [] OTHER -> TRUE

Widened(text, c, s, w) ==
  /\ Len(text) - Len(s) = (IF w > Len(s) THEN w - Len(s) ELSE 0)
  /\ text = Rep(c, Len(text) - Len(s)) \o s

LEMMA BlanksBefore ==
  ASSUME NEW c, NEW s \in Strings, NEW w \in Int, NEW text, text = Rep(c, w - Len(s)) \o s
  PROVE  Widened(text, c, s, w)
<1>1. PICK T : s \in Seq(T)
  BY PrintAssumption
<1>2. PICK l \in Nat : l = Len(s)
  BY <1>1
<1>3. PICK k \in Int, n \in Nat : k = w - l /\ n = (IF k > 0 THEN k ELSE 0)
  OBVIOUS
<1>4. PICK r : r = [i \in 1..n |-> c]
  OBVIOUS
<1>5. r \in Seq({c}) /\ Len(r) = n
  BY <1>4
<1>6. Rep(c, k) = r /\ Rep(c, n) = r
  <2>1. n = IF n > 0 THEN n ELSE 0
    OBVIOUS
  <2> QED
    BY <1>3, <1>4, <2>1 DEF Rep
<1>7. text = r \o s /\ Len(text) = n + l
  <2>1. r \in Seq(T \cup {c}) /\ s \in Seq(T \cup {c})
    BY <1>1, <1>5
  <2> QED
    BY <1>2, <1>3, <1>5, <1>6, <2>1
<1>8. Len(text) - Len(s) = n /\ n = (IF w > Len(s) THEN w - Len(s) ELSE 0)
  BY <1>2, <1>3, <1>7
<1>9. text = Rep(c, Len(text) - Len(s)) \o s
  BY <1>6, <1>7, <1>8
<1> QED
  BY <1>8, <1>9 DEF Widened

LEMMA StringPadded ==
  ASSUME NEW s \in Strings, NEW w \in Int, NEW text,
         text = Rep(" ", w - Len(s)) \o s
  PROVE  RightPiece([type |-> "string", width |-> w, value |-> s, text |-> text])
<1>1. /\ Len(text) - Len(s) = (IF w > Len(s) THEN w - Len(s) ELSE 0)
      /\ text = Rep(" ", Len(text) - Len(s)) \o s
  <2>1. Widened(text, " ", s, w)
    BY BlanksBefore
  <2> QED
    BY <2>1, Zenon DEF Widened
<1>2. PICK p : p = [type |-> "string", width |-> w, value |-> s, text |-> text]
  OBVIOUS
<1>3. /\ p.type = "string" /\ p.width = w /\ p.value = s /\ p.text = text
      /\ p.type # "integer" /\ p.type # "plain"
  BY <1>2
<1>4. RightPiece(p)
  BY <1>1, <1>3, Zenon DEF RightPiece
<1> QED
  BY <1>2, <1>4

(* alt_printf puts a string as it is.                                      *)
LEMMA NothingBefore ==
  ASSUME NEW c, NEW s \in Strings
  PROVE  s = Rep(c, -1 - Len(s)) \o s
<1>1. PICK T : s \in Seq(T)
  BY PrintAssumption
<1>2. PICK k \in Int : k = -1 - Len(s) /\ ~(k > 0)
  <2>1. Len(s) \in Nat
    BY <1>1
  <2> QED
    BY <2>1
<1>3. Rep(c, k) = <<>>
  <2>1. Rep(c, k) = [i \in 1..0 |-> c]
    BY <1>2 DEF Rep
  <2> QED
    BY <2>1
<1> QED
  BY <1>1, <1>2, <1>3

LEMMA StringAlone ==
  ASSUME NEW s \in Strings
  PROVE  RightPiece([type |-> "string", width |-> -1, value |-> s, text |-> s])
<1>1. s = Rep(" ", -1 - Len(s)) \o s
  BY NothingBefore
<1>2. -1 \in Int
  OBVIOUS
<1> QED
  BY <1>1, <1>2, StringPadded

LEMMA PlainCharacter ==
  ASSUME NEW c
  PROVE  RightPiece([type |-> "plain", char |-> c, text |-> <<c>>])
<1>1. PICK p : p = [type |-> "plain", char |-> c, text |-> <<c>>]
  OBVIOUS
<1>2. p.type = "plain" /\ p.text = <<p.char>> /\ p.type # "integer" /\ p.type # "string"
  BY <1>1
<1>3. RightPiece(p)
  BY <1>2, Zenon DEF RightPiece
<1> QED
  BY <1>1, <1>3

LEMMA NothingPrinted == RightPiece(NoPiece)
<1>1. NoPiece.type # "integer" /\ NoPiece.type # "string" /\ NoPiece.type # "plain"
  BY DEF NoPiece
<1> QED
  BY <1>1, Zenon DEF RightPiece

LEMMA IntegerPiece ==
  ASSUME NEW p, p.type = "integer", IntegerRight(p)
  PROVE  RightPiece(p)
<1>1. p.type # "string" /\ p.type # "plain"
  OBVIOUS
<1> QED
  BY <1>1, Zenon DEF RightPiece

(* Between the conversions the fields have their first values; within one  *)
(* only the zero, the width and the precision have been read.              *)
Formats == [zero : BOOLEAN, before : Int, after : Int, base : {10}, signed : {TRUE}, upper : {FALSE}]
Printing == fmt \in Formats /\ RightPiece(piece)

LEMMA FirstFormat == Fresh \in Formats
  BY DEF Fresh, Formats

LEMMA PrintStarts == PrintInit => Printing
  BY FirstFormat, NothingPrinted DEF PrintInit, Printing

LEMMA WidthsAreRead ==
  ASSUME NEW c, fmt \in Formats, LogWidth(c)
  PROVE  fmt' \in Formats
<1>0. ASSUME NEW n \in Int
      PROVE  [fmt EXCEPT !.before = n] \in Formats /\ [fmt EXCEPT !.after = n] \in Formats
  BY DEF Formats
<1>1. fmt.before \in Int /\ fmt.after \in Int
  BY DEF Formats
<1>2. CASE c = "."
  <2>1. fmt' = [fmt EXCEPT !.after = 0]
    BY <1>2, Zenon DEF LogWidth
  <2>2. PICK n \in Int : n = 0
    OBVIOUS
  <2>3. [fmt EXCEPT !.after = n] \in Formats
    BY <1>0
  <2> QED
    BY <2>1, <2>2, <2>3
<1>3. CASE c = "l"
  <2>1. c # "." /\ c = "l"
    BY <1>3
  <2>2. fmt' = fmt
    BY <2>1, Zenon DEF LogWidth
  <2> QED
    BY <2>2
<1>4. CASE c \in Decimal
  <2>1. ValueOf(c) \in Int
    <3>1. \E d \in 0..15 : c \in {Lower[d + 1], Upper[d + 1]}
      <4>1. PICK i \in 1..10 : c = Lower[i]
        BY <1>4 DEF Decimal
      <4>2. PICK d \in 0..15 : d + 1 = i
        BY <4>1
      <4> QED
        BY <4>1, <4>2
    <3>2. ValueOf(c) \in 0..15
      BY <3>1 DEF ValueOf
    <3> QED
      BY <3>2
  <2>2. Tens(fmt.before, c) \in Int
    BY <1>1, <2>1 DEF Tens
  <2>3. 10 * fmt.after + ValueOf(c) \in Int
    BY <1>1, <2>1
  <2>4. c # "." /\ c # "l"
    <3>1. c = "0" \/ c = "1" \/ c = "2" \/ c = "3" \/ c = "4" \/ c = "5" \/ c = "6" \/ c = "7" \/ c = "8" \/ c = "9"
      BY <1>4 DEF Decimal, Lower
    <3> QED
      BY <3>1, Zenon
  <2>5. fmt' = [fmt EXCEPT !.before = Tens(@, c)] \/ fmt' = [fmt EXCEPT !.after = 10 * @ + ValueOf(c)]
    BY <2>4, Zenon DEF LogWidth
  <2> QED
    BY <1>0, <2>2, <2>3, <2>5
<1> QED
  BY <1>2, <1>3, <1>4, Zenon DEF LogWidth

LEMMA FieldsSet ==
  ASSUME NEW c \in {"d", "i", "u", "o", "x", "X"}, fmt \in Formats, NEW v \in Values,
         LogInteger(c, v)
  PROVE  RightPiece(piece')
<1>1. PICK base \in {8, 10, 16} : base = Base(c)
  BY Zenon DEF Base
<1>2. PICK signed \in BOOLEAN, upper \in BOOLEAN : (signed <=> c \in {"d", "i"}) /\ (upper <=> c = "X")
  BY Zenon
<1>3. PICK f : f = [fmt EXCEPT !.signed = c \in {"d", "i"}, !.base = Base(c), !.upper = c = "X"]
  OBVIOUS
<1>4. PICK p : p = [type |-> "integer", f |-> f, value |-> v, text |-> IntegerPrint(f, v)]
  OBVIOUS
<1>5. piece' = p
  BY <1>3, <1>4, Zenon DEF LogInteger
<1>6. fmt.zero \in BOOLEAN /\ fmt.before \in Int
  BY DEF Formats
<1>7. f.zero = fmt.zero /\ f.before = fmt.before /\ f.base = base
  BY <1>1, <1>3 DEF Formats
<1>8. f.signed = signed /\ f.upper = upper
  <2>1. f.signed = (c \in {"d", "i"}) /\ f.upper = (c = "X")
    BY <1>3, Zenon DEF Formats
  <2> QED
    BY <1>2, <2>1
<1>9. p.type = "integer" /\ p.f = f /\ p.value = v /\ p.text = IntegerPrint(f, v)
  BY <1>4
<1>10. v \in Words
  BY PrintAssumption
<1>11. IntegerRight(p)
  BY <1>6, <1>7, <1>8, <1>9, <1>10, IntegersPrinted
<1> QED
  BY <1>5, <1>9, <1>11, IntegerPiece

LEMMA EscapePrints ==
  ASSUME NEW c, RightPiece(piece), Escaped(c)
  PROVE  RightPiece(piece')
<1>1. CASE piece' = [type |-> "plain", char |-> c, text |-> <<c>>]
  BY <1>1, PlainCharacter
<1>2. ASSUME NEW s \in Strings, piece' = [type |-> "string", width |-> -1, value |-> s, text |-> s]
      PROVE  RightPiece(piece')
  BY <1>2, StringAlone
<1>3. ASSUME NEW v \in Values,
             piece' = [type |-> "integer", f |-> [Fresh EXCEPT !.base = 16, !.signed = FALSE],
                       value |-> v, text |-> HexDigits(v)]
      PROVE  RightPiece(piece')
  <2>1. PICK f : f = [Fresh EXCEPT !.base = 16, !.signed = FALSE]
    OBVIOUS
  <2>2. piece' = [type |-> "integer", f |-> f, value |-> v, text |-> HexDigits(v)]
    BY <1>3, <2>1
  <2>3. PICK p : p = piece'
    OBVIOUS
  <2>4. p.type = "integer" /\ p.f = f /\ p.value = v /\ p.text = HexDigits(v)
    BY <2>2, <2>3
  <2>5. v \in Words
    BY PrintAssumption
  <2>6. IntegerRight(p)
    BY <2>1, <2>4, <2>5, HexPrinted
  <2> QED
    BY <2>3, <2>4, <2>6, IntegerPiece
<1>4. CASE UNCHANGED piece
  BY <1>4
<1> QED
  BY <1>1, <1>2, <1>3, <1>4, Zenon DEF Escaped

LEMMA PrintSteps == Printing /\ [PrintNext]_printVars => Printing'
<1> SUFFICES ASSUME Printing, [PrintNext]_printVars PROVE Printing'
  OBVIOUS
<1>0. fmt \in Formats /\ RightPiece(piece)
  BY DEF Printing
<1>1. SUFFICES fmt' \in Formats /\ RightPiece(piece')
  BY DEF Printing
<1>2. CASE EndOfFormat
  BY <1>0, <1>2, FirstFormat DEF EndOfFormat
<1>3. ASSUME NEW c \in Chars, LogChars(c) PROVE fmt' \in Formats /\ RightPiece(piece')
  <2>1. CASE c = "%"
    BY <1>3, <2>1, FirstFormat, NothingPrinted DEF LogChars
  <2>2. CASE c # "%"
    <3>1. fmt' = fmt /\ piece' = [type |-> "plain", char |-> c, text |-> <<c>>]
      BY <1>3, <2>2, Zenon DEF LogChars
    <3> QED
      BY <1>0, <3>1, PlainCharacter
  <2> QED
    BY <2>1, <2>2
<1>4. ASSUME NEW c \in Chars, LogFirst(c) PROVE fmt' \in Formats /\ RightPiece(piece')
  <2>1. CASE c = "0"
    <3>1. fmt' = [fmt EXCEPT !.zero = TRUE] /\ piece' = piece
      BY <1>4, <2>1, Zenon DEF LogFirst
    <3>2. fmt' \in Formats
      BY <1>0, <3>1 DEF Formats
    <3> QED
      BY <1>0, <3>1, <3>2
  <2>2. CASE c # "0"
    <3>1. fmt' = fmt /\ piece' = [type |-> "plain", char |-> c, text |-> <<c>>]
      BY <1>4, <2>2, Zenon DEF LogFirst
    <3> QED
      BY <1>0, <3>1, PlainCharacter
  <2> QED
    BY <2>1, <2>2
<1>5. ASSUME NEW c \in Chars, LogWidth(c) PROVE fmt' \in Formats /\ RightPiece(piece')
  <2>1. fmt' \in Formats
    BY <1>0, <1>5, WidthsAreRead
  <2>2. piece' = piece
    BY <1>5, Zenon DEF LogWidth
  <2> QED
    BY <1>0, <2>1, <2>2
<1>6. ASSUME NEW c \in Chars, LogUnknown(c) PROVE fmt' \in Formats /\ RightPiece(piece')
  BY <1>0, <1>6, FirstFormat DEF LogUnknown
<1>7. ASSUME NEW c \in Chars, NEW v \in Values, LogInteger(c, v)
      PROVE  fmt' \in Formats /\ RightPiece(piece')
  <2>1. fmt' = Fresh /\ c \in {"d", "i", "u", "o", "x", "X"}
    BY <1>7, Zenon DEF LogInteger
  <2> QED
    BY <1>0, <1>7, <2>1, FirstFormat, FieldsSet
<1>8. ASSUME NEW c \in Chars, NEW s \in Strings, LogString(c, s)
      PROVE  fmt' \in Formats /\ RightPiece(piece')
  <2>1. PICK w \in Int : w = fmt.before
    BY <1>0 DEF Formats
  <2>2. PICK text : text = Rep(" ", w - Len(s)) \o s
    OBVIOUS
  <2>3. fmt' = Fresh /\ piece' = [type |-> "string", width |-> w, value |-> s, text |-> text]
    BY <1>8, <2>1, <2>2, Zenon DEF LogString
  <2> QED
    BY <2>2, <2>3, FirstFormat, StringPadded
<1>9. ASSUME NEW c \in Chars, Escape(c) PROVE fmt' \in Formats /\ RightPiece(piece')
  BY <1>9, FirstFormat, NothingPrinted DEF Escape
<1>10. ASSUME NEW c \in Chars, Escaped(c) PROVE fmt' \in Formats /\ RightPiece(piece')
  <2>1. fmt' = fmt
    BY <1>10, Zenon DEF Escaped
  <2> QED
    BY <1>0, <1>10, <2>1, EscapePrints
<1>11. CASE UNCHANGED printVars
  BY <1>0, <1>11 DEF printVars
<1> QED
  BY <1>2, <1>3, <1>4, <1>5, <1>6, <1>7, <1>8, <1>9, <1>10, <1>11, Zenon DEF PrintNext

(* alt_log_printf.c 113-341, alt_printf.c 48-127: whatever the format, the *)
(* width of a word, the arguments and the widths asked for, the last       *)
(* number printed can be read back from its text, right aligned and with   *)
(* its sign where the fill wants it, and a string is printed whole.        *)
THEOREM NumbersReadBack == PrintSpec => []ReadsBack
<1>1. Printing => ReadsBack
  BY Zenon DEF Printing, RightPiece, ReadsBack
<1> QED
  BY <1>1, PrintStarts, PrintSteps, PTL DEF PrintSpec
===============================================================================
