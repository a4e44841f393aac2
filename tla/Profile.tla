-------------------------------- MODULE Profile --------------------------------
(***************************************************************************)
(* The profiler of the HAL and the heap under it: alt_gmon.c, the search   *)
(* of mcount before it, and alt_sbrk.c.  Every instrumented function calls *)
(* mcount when it is entered, in the program and in interrupt handlers.    *)
(* A stack of contexts: the program, and above it at most one handler,     *)
(* which runs to its end.  Addresses count from __alt_heap_start.          *)
(***************************************************************************)
EXTENDS Integers, Sequences, FiniteSets

CONSTANTS Functions, Callers,
          Align,               \* what sbrk aligns to
          Record,             \* size of a function entry and of an arc
          SlabIncrement,      \* MCOUNT_SLAB_INCREMENT
          TextBytes, BucketBytes,     \* profiled text; PCSAMPLE_BYTES_PER_BUCKET
          HeapLimit, AppBytes,        \* what the program asks sbrk for
          MaxCalls                    \* bound on the calls of instrumented functions

ASSUME SizeAssumption ==
  /\ {Align, Record, SlabIncrement, BucketBytes} \subseteq Nat \ {0}
  /\ Record <= SlabIncrement /\ AppBytes \subseteq Nat /\ HeapLimit \in Nat
(* Otherwise the last bucket lies behind the histogram, see Sample.        *)
ASSUME TextAssumption == TextBytes \in Nat /\ TextBytes % BucketBytes = 0

VARIABLES heap_end, blocks,                    \* blocks: what sbrk gave, ghost
          mcount_slab_ptr, mcount_slab_size, records,     \* records: ghost
          entries,                             \* oldest first
          pcsample_need_init, s_pcsamples, sampled, clockRuns, alarmStarts,
          statusPIE, contexts, calls, lost,          \* calls, lost: ghosts
          wild                                 \* a write through -1 was made

heap    == <<heap_end, blocks>>
slab    == <<mcount_slab_ptr, mcount_slab_size, records>>
sampler == <<pcsample_need_init, s_pcsamples, clockRuns, alarmStarts>>
profileVars == <<heap, slab, entries, sampler, sampled, statusPIE, contexts, calls, lost, wild>>

Idle == [pc |-> "run", self |-> 0, from |-> 0, entry |-> 0, arc |-> 0, count |-> 0,
         data |-> 0, incr |-> 0, ret |-> "run", irq |-> <<>>]
Context == contexts[Len(contexts)]
In(pc) == ~wild /\ Context.pc = pc
Put(c) == contexts' = [contexts EXCEPT ![Len(contexts)] = c]

Arcs == Functions \X Callers

ProfileInit ==
  /\ heap_end = 0 /\ blocks = <<>>
  /\ mcount_slab_ptr = 0 /\ mcount_slab_size = 0 /\ records = <<>>
  /\ entries = <<>>
  /\ pcsample_need_init = TRUE /\ s_pcsamples = 0 /\ sampled = <<>>
  /\ clockRuns = FALSE /\ alarmStarts = 0
  /\ statusPIE = TRUE /\ contexts = <<Idle>>
  /\ calls = [a \in Arcs |-> 0] /\ lost = [a \in Arcs |-> 0]
  /\ wild = FALSE

-------------------------------------------------------------------------------
(* Sections with interrupts off nest: each keeps what it found.            *)
Off(c) == [c EXCEPT !.irq = Append(@, statusPIE)]
On(c)  == [c EXCEPT !.irq = SubSeq(@, 1, Len(@) - 1)]
Found(c) == c.irq[Len(c.irq)]

(* sbrk: with the answer, -1 or the address, on to ret.                    *)
RoundUp(n) == ((n + Align - 1) \div Align) * Align

InterruptsOn(c, incr, ret) ==                      \* mutant of sbrk
  /\ Put([Off(c) EXCEPT !.pc = "extend", !.data = RoundUp(heap_end), !.incr = incr, !.ret = ret])
  /\ UNCHANGED <<heap, statusPIE>>
sbrk(c, incr, ret) ==
  /\ statusPIE' = FALSE
  /\ Put([Off(c) EXCEPT !.pc = "extend", !.data = RoundUp(heap_end), !.incr = incr, !.ret = ret])
  /\ UNCHANGED heap

Extend ==
  /\ In("extend")
  /\ LET c == Context IN
       IF c.data + c.incr > HeapLimit
       THEN /\ heap_end' = RoundUp(heap_end) /\ UNCHANGED blocks
            /\ Put([On(c) EXCEPT !.pc = c.ret, !.data = -1])
       ELSE /\ heap_end' = c.data + c.incr
            /\ blocks' = Append(blocks, [use |-> c.ret, first |-> c.data, size |-> c.incr])
            /\ Put([On(c) EXCEPT !.pc = c.ret])
  /\ statusPIE' = Found(Context)
  /\ UNCHANGED <<slab, entries, sampler, sampled, calls, lost, wild>>

(* Only the program takes memory from the heap: alt_malloc_lock does not   *)
(* lock.                                                                   *)
Malloc ==
  /\ In("run") /\ Len(contexts) = 1
  /\ \E n \in AppBytes : sbrk(Idle, n, "app")
  /\ UNCHANGED <<slab, entries, sampler, sampled, calls, lost, wild>>
Malloced == In("app") /\ Put(Idle)
            /\ UNCHANGED <<heap, slab, entries, sampler, sampled, statusPIE, calls, lost, wild>>

-------------------------------------------------------------------------------
(* mcount looks for the function and the caller, the newest first.         *)
Newest(S) == CHOOSE i \in S : \A j \in S : i >= j
EntriesOf(f) == {i \in 1..Len(entries) : entries[i].self = f}
ArcsOf(i, from) == {j \in 1..Len(entries[i].arcs) : entries[i].arcs[j].from = from}

Sum(g) == LET total[S \in SUBSET Arcs] ==
                IF S = {} THEN 0 ELSE LET a == CHOOSE a \in S : TRUE IN g[a] + total[S \ {a}]
          IN total[Arcs]

Mcount(f, from) ==
  /\ In("run") /\ Sum(calls) < MaxCalls
  /\ calls' = [calls EXCEPT ![<<f, from>>] = @ + 1]
  /\ Put([Idle EXCEPT !.pc = "search", !.self = f, !.from = from])
  /\ UNCHANGED <<heap, slab, entries, sampler, sampled, statusPIE, lost, wild>>

Search ==
  /\ In("search")
  /\ LET c == Context
         is == EntriesOf(c.self) IN
     IF is = {} THEN Put([c EXCEPT !.pc = "record"])
     ELSE LET i == Newest(is)
              js == ArcsOf(i, c.from) IN
          Put([c EXCEPT !.pc = IF js = {} THEN "record" ELSE "count",
                        !.entry = i, !.arc = IF js = {} THEN 0 ELSE Newest(js),
                        !.count = IF js = {} THEN 0 ELSE entries[i].arcs[Newest(js)].count])
  /\ UNCHANGED <<heap, slab, entries, sampler, sampled, statusPIE, calls, lost, wild>>

(* A count goes lost when a handler counts the same arc in between.        *)
CountUp ==
  /\ In("count")
  /\ LET c == Context
         old == entries[c.entry].arcs[c.arc].count IN
     /\ entries' = [entries EXCEPT ![c.entry].arcs[c.arc].count = c.count + 1]
     /\ lost' = [lost EXCEPT ![<<c.self, c.from>>] = @ + old - c.count]
  /\ Put(Idle)
  /\ UNCHANGED <<heap, slab, sampler, sampled, statusPIE, calls, wild>>

-------------------------------------------------------------------------------
(* __mcount_record: the sampler is tried until the clock runs.             *)
NeedInit ==
  /\ In("record")
  /\ Put([Context EXCEPT !.pc = IF pcsample_need_init THEN "init" ELSE "disable"])
  /\ UNCHANGED <<heap, slab, entries, sampler, sampled, statusPIE, calls, lost, wild>>

nios2_pcsample_init ==
  /\ In("init")
  /\ IF clockRuns
     THEN /\ pcsample_need_init' = FALSE
          /\ sbrk(Context, (TextBytes \div BucketBytes) * 2, "histogram")
     ELSE /\ pcsample_need_init' = TRUE
          /\ Put([Context EXCEPT !.pc = "disable"]) /\ UNCHANGED <<heap, statusPIE>>
  /\ UNCHANGED <<slab, entries, s_pcsamples, sampled, clockRuns, alarmStarts, calls, lost, wild>>

StartSampler ==
  /\ In("histogram")
  /\ s_pcsamples' = Context.data
  /\ alarmStarts' = IF Context.data = -1 THEN alarmStarts ELSE alarmStarts + 1
  /\ wild' = (Context.data = -1)
  /\ Put([Context EXCEPT !.pc = "disable"])
  /\ UNCHANGED <<heap, slab, entries, pcsample_need_init, sampled, clockRuns, statusPIE, calls, lost>>

Disable ==
  /\ In("disable")
  /\ statusPIE' = FALSE
  /\ Put([Off(Context) EXCEPT !.pc = "allocate"])
  /\ UNCHANGED <<heap, slab, entries, sampler, sampled, calls, lost, wild>>

mcount_allocate ==
  /\ In("allocate")
  /\ IF Record > mcount_slab_size
     THEN sbrk(Context, SlabIncrement, "slab")
     ELSE Put([Context EXCEPT !.pc = "link", !.data = mcount_slab_ptr]) /\ UNCHANGED <<heap, statusPIE>>
  /\ UNCHANGED <<slab, entries, sampler, sampled, calls, lost, wild>>

NewSlab ==
  /\ In("slab")
  /\ mcount_slab_ptr' = Context.data /\ mcount_slab_size' = SlabIncrement
  /\ wild' = (Context.data = -1)
  /\ Put([Context EXCEPT !.pc = "allocate"])
  /\ UNCHANGED <<heap, records, entries, sampler, sampled, statusPIE, calls, lost>>

(* First the function if it was not found, then always an arc.             *)
ArcLost(c) == entries                              \* mutant of WithArc
WithArc(c) == [entries EXCEPT ![c.entry].arcs = Append(@, [from |-> c.from, count |-> 1])]

Link ==
  /\ In("link")
  /\ mcount_slab_ptr' = Context.data + Record
  /\ mcount_slab_size' = mcount_slab_size - Record
  /\ records' = Append(records, Context.data)
  /\ IF Context.entry = 0
     THEN /\ entries' = Append(entries, [self |-> Context.self, arcs |-> <<>>])
          /\ Put([Context EXCEPT !.pc = "allocate", !.entry = Len(entries) + 1])
          /\ UNCHANGED statusPIE
     ELSE /\ entries' = WithArc(Context)
          /\ statusPIE' = Found(Context)
          /\ Put(Idle)
  /\ UNCHANGED <<heap, sampler, sampled, calls, lost, wild>>

-------------------------------------------------------------------------------
(* Interrupts, taken between any two steps.  The timer's takes a sample of *)
(* the interrupted program; a handler may be instrumented.                 *)
TimerStarts == In("run") /\ Len(contexts) = 1 /\ ~clockRuns /\ clockRuns' = TRUE
               /\ UNCHANGED <<heap, slab, entries, pcsample_need_init, s_pcsamples, sampled,
                              alarmStarts, statusPIE, contexts, calls, lost, wild>>

Interrupt ==
  /\ ~wild /\ statusPIE /\ Len(contexts) = 1
  /\ statusPIE' = FALSE /\ contexts' = Append(contexts, Idle)
  /\ UNCHANGED <<heap, slab, entries, sampler, sampled, calls, lost, wild>>

(* nios2_pcsample: the address of the bucket that is counted.              *)
Sample ==
  /\ In("run") /\ Len(contexts) = 2 /\ alarmStarts > 0
  /\ \E pc \in 0..(TextBytes - 1) : sampled' = <<s_pcsamples + 2 * (pc \div BucketBytes)>>
  /\ UNCHANGED <<heap, slab, entries, sampler, statusPIE, contexts, calls, lost, wild>>

Return ==
  /\ In("run") /\ Len(contexts) = 2
  /\ statusPIE' = TRUE /\ contexts' = SubSeq(contexts, 1, 1)
  /\ UNCHANGED <<heap, slab, entries, sampler, sampled, calls, lost, wild>>

(* What a write through -1 destroys is not modelled.                       *)
Wild == wild /\ UNCHANGED profileVars

ProfileNext ==
  \/ Malloc \/ Malloced \/ Extend
  \/ \E f \in Functions, from \in Callers : Mcount(f, from)
  \/ Search \/ CountUp \/ NeedInit \/ nios2_pcsample_init \/ StartSampler
  \/ Disable \/ mcount_allocate \/ NewSlab \/ Link
  \/ TimerStarts \/ Interrupt \/ Sample \/ Return \/ Wild

ProfileSpec == ProfileInit /\ [][ProfileNext]_profileVars

-------------------------------------------------------------------------------
Apart(a, n, b, m) == a + n <= b \/ b + m <= a

(* alt_sbrk.c 52-54, alt_gmon.c 126-148: what the program, the histogram   *)
(* and the records were given lies in the heap and does not overlap, also  *)
(* when interrupt handlers are profiled; a sample is counted inside the    *)
(* histogram.                                                              *)
MemoryApart ==
  ~wild =>
  /\ \A i \in 1..Len(blocks) : blocks[i].first + blocks[i].size <= HeapLimit
  /\ \A i, j \in 1..Len(blocks) :
       i < j => Apart(blocks[i].first, blocks[i].size, blocks[j].first, blocks[j].size)
  /\ \A i, j \in 1..Len(records) : i < j => Apart(records[i], Record, records[j], Record)
  /\ \A i \in 1..Len(records) : \E k \in 1..Len(blocks) :
       /\ blocks[k].use = "slab" /\ blocks[k].first <= records[i]
       /\ records[i] + Record <= blocks[k].first + blocks[k].size
  /\ \A i \in 1..Len(sampled) : \E k \in 1..Len(blocks) :
       /\ blocks[k].use = "histogram" /\ blocks[k].first <= sampled[i]
       /\ sampled[i] + 2 <= blocks[k].first + blocks[k].size

(* How often an arc was counted: it may be on the lists twice, and the     *)
(* host adds them up.                                                      *)
Places(a) == {p \in (1..Len(entries)) \X (1..Len(records)) :
                /\ entries[p[1]].self = a[1] /\ p[2] \in ArcsOf(p[1], a[2])}
Counted(a) ==
  LET total[S \in SUBSET Places(a)] ==
        IF S = {} THEN 0
        ELSE LET p == CHOOSE p \in S : TRUE
             IN entries[p[1]].arcs[p[2]].count + total[S \ {p}]
  IN total[Places(a)]

(* alt_gmon.c 173-181: a handler that records while the program searches   *)
(* does no harm: every call that has returned is counted, except where a   *)
(* handler counted the same arc between the load and the store.            *)
CallsCounted ==
  (~wild /\ \A k \in 1..Len(contexts) : contexts[k].pc = "run") =>
    \A a \in Arcs : /\ Counted(a) + lost[a] = calls[a]
                    /\ calls[a] > 0 => Counted(a) > 0

(* alt_gmon.c 151-154: "this function might be called at interrupt time so *)
(* must be able to cope with reentrancy": the sampler's alarm is started   *)
(* once.                                                                   *)
SamplerStartsOnce == alarmStarts <= 1
===============================================================================
