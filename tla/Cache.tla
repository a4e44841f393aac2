--------------------------------- MODULE Cache ---------------------------------
(***************************************************************************)
(* The cache functions of the HAL and those that rely on them: alt_load,   *)
(* uncached memory, and the erase and write functions of alt_flash.h.  The *)
(* processor of this board has no caches (system.h 74, 89); the functions  *)
(* are those of every Nios II.  Both caches are direct mapped.  What is    *)
(* kept of the data is whether a copy is old: not the value written last.  *)
(***************************************************************************)
EXTENDS Integers, FiniteSets

CONSTANTS LineSize, DLines, ILines,      \* of the data and instruction cache
          Ram, Code, Flash,              \* sets of lines
          Block,                         \* size of an erase block
          MaxLen                         \* bound on the length of a region

Address == {l * LineSize + k : l \in Ram \cup Code \cup Flash, k \in 0..(LineSize - 1)}
Bytes(lines) == {a \in Address : a \div LineSize \in lines}
Region(start, len) == start..(start + len - 1)

ASSUME CacheAssumption ==
  /\ {LineSize, DLines, ILines, Block} \subseteq Nat \ {0} /\ MaxLen \in Nat
  /\ Ram \cup Code \cup Flash \subseteq Nat /\ Block % LineSize = 0
  /\ \A f \in {Ram \cap Code, Ram \cap Flash, Code \cap Flash} : f = {}

VARIABLES memOld,                        \* bytes old in memory
          cached, dirty, cacheOld,       \* lines; bytes old in the data cache
          icached, icacheOld,            \* the same of the instruction cache
          allocated,                     \* what alt_uncached_malloc gave
          discarded, failed,             \* ghosts: given up; left by a driver that failed
          loading                        \* alt_load: bytes left to copy, and its flushes

dside == <<memOld, cached, dirty, cacheOld>>
iside == <<icached, icacheOld>>
ghosts == <<discarded, failed>>
cacheVars == <<dside, iside, allocated, ghosts, loading>>

CacheInit ==
  /\ memOld = {} /\ cached = {} /\ dirty = {} /\ cacheOld = {}
  /\ icached = {} /\ icacheOld = {}
  /\ allocated = {} /\ discarded = {} /\ failed = {}
  /\ loading = [at |-> "copy", left |-> Bytes(Code)]

Running == loading.at = "run"

-------------------------------------------------------------------------------
(* The lines the loop of a flush goes through: from start, a line at a     *)
(* time, and for a start inside a line one more.                           *)
LineTurns(len) == (len + LineSize - 1) \div LineSize
AlwaysOneMore(start, len) == {(start + k * LineSize) \div LineSize : k \in 0..LineTurns(len)}  \* mutant of Walked
Walked(start, len) ==
  {(start + k * LineSize) \div LineSize :
     k \in 0..(IF start % LineSize = 0 THEN LineTurns(len) - 1 ELSE LineTurns(len))}

(* flushda writes back what is dirty, initda drops it.                     *)
WrittenBack(lines) == LET b == Bytes(lines \cap dirty) IN (memOld \ b) \cup (cacheOld \cap b)
Drop(lines) == /\ cached' = cached \ lines /\ dirty' = dirty \ lines
               /\ cacheOld' = cacheOld \ Bytes(lines)

alt_dcache_flush(start, len) ==
  LET lines == Walked(start, len) IN Drop(lines) /\ memOld' = WrittenBack(lines)

(* The region is given up: of whole lines, or its neighbours are as well.  *)
alt_dcache_flush_no_writeback(start, len) ==
  /\ Drop(Walked(start, len)) /\ UNCHANGED memOld
  /\ discarded' = discarded \cup (memOld \cap Region(start, len))

(* flushi goes by the index, whatever line is there.                       *)
IWalked(start, len) ==
  LET n == IF len > ILines * LineSize THEN ILines * LineSize ELSE len
  IN {l \in icached : \E k \in Walked(start, n) : k % ILines = l % ILines}
alt_icache_flush(start, len) ==
  /\ icached' = icached \ IWalked(start, len)
  /\ icacheOld' = icacheOld \ Bytes(IWalked(start, len))

alt_dcache_flush_all == Drop(cached) /\ memOld' = WrittenBack(cached)
alt_icache_flush_all == alt_icache_flush(0, ILines * LineSize)

-------------------------------------------------------------------------------
(* Loads and stores through the data cache: the line comes in, another one *)
(* goes.  Fetches likewise.                                                *)
Line(a) == a \div LineSize
Evicted(l) == {k \in cached \ {l} : k % DLines = l % DLines}
FillOld(l) == IF l \in cached THEN cacheOld
              ELSE (cacheOld \ Bytes(Evicted(l))) \cup (WrittenBack(Evicted(l)) \cap Bytes({l}))

Read(a) ==
  /\ memOld' = WrittenBack(Evicted(Line(a)))
  /\ cached' = (cached \ Evicted(Line(a))) \cup {Line(a)}
  /\ dirty' = dirty \ Evicted(Line(a))
  /\ cacheOld' = FillOld(Line(a))
  /\ UNCHANGED <<iside, discarded>>

Write(a) ==
  /\ memOld' = WrittenBack(Evicted(Line(a))) \cup {a}
  /\ cached' = (cached \ Evicted(Line(a))) \cup {Line(a)}
  /\ dirty' = (dirty \ Evicted(Line(a))) \cup {Line(a)}
  /\ cacheOld' = FillOld(Line(a)) \ {a}
  /\ icacheOld' = icacheOld \cup (Bytes(icached) \cap {a})
  /\ discarded' = discarded \ {a} /\ UNCHANGED icached

Fetch == \E l \in Code :
  LET gone == {k \in icached \ {l} : k % ILines = l % ILines} IN
  /\ icached' = (icached \ gone) \cup {l}
  /\ icacheOld' = IF l \in icached THEN icacheOld
                  ELSE (icacheOld \ Bytes(gone)) \cup (memOld \cap Bytes({l}))
  /\ UNCHANGED <<dside, allocated, ghosts, loading>>

(* The program keeps to its own memory, and reaches uncached blocks past   *)
(* the cache.                                                              *)
BlockBytes(b) == Region(b.first, b.size)
Uncached == UNION {BlockBytes(b) : b \in {c \in allocated : c.bypass}}

Load == Running /\ \E a \in Address \ Uncached : Read(a) /\ UNCHANGED <<allocated, failed, loading>>
Store == Running /\ \E a \in Bytes(Ram) \ Uncached : Write(a) /\ UNCHANGED <<allocated, failed, loading>>
StoreUncached ==
  /\ Running
  /\ \E a \in Uncached : /\ memOld' = memOld \ {a}
                         /\ cacheOld' = cacheOld \cup (Bytes(cached) \cap {a})
                         /\ discarded' = discarded \ {a}
  /\ UNCHANGED <<cached, dirty, iside, allocated, failed, loading>>

-------------------------------------------------------------------------------
(* alt_load copies what is not in its place, then flushes both caches.     *)
alt_load_section ==
  /\ loading.at = "copy" /\ loading.left # {}
  /\ \E a \in loading.left :
       /\ \A b \in loading.left : a <= b
       /\ Write(a)
       /\ loading' = [loading EXCEPT !.left = @ \ {a}]
  /\ UNCHANGED <<allocated, failed>>

LoadFlushesData ==
  /\ loading.at = "copy" /\ loading.left = {}
  /\ alt_dcache_flush_all
  /\ loading' = [loading EXCEPT !.at = "icache"]
  /\ UNCHANGED <<iside, allocated, ghosts>>

LoadFlushesInstructions ==
  /\ loading.at = "icache"
  /\ alt_icache_flush_all
  /\ loading' = [loading EXCEPT !.at = "run"]
  /\ UNCHANGED <<dside, allocated, ghosts>>

-------------------------------------------------------------------------------
(* memalign gives lines that nobody has; the size is made whole lines.     *)
Whole(size) == LineTurns(size) * LineSize

alt_uncached_malloc(size) ==
  \E first \in {l * LineSize : l \in Ram} :
    LET b == [first |-> first, size |-> Whole(size), bypass |-> TRUE] IN
    /\ BlockBytes(b) \subseteq Bytes(Ram)
    /\ \A c \in allocated : BlockBytes(b) \cap BlockBytes(c) = {}
    /\ allocated' = allocated \cup {b}
    /\ alt_dcache_flush(first, Whole(size))
    /\ UNCHANGED <<iside, ghosts, loading>>

alt_uncached_free(b) ==
  allocated' = allocated \ {b} /\ UNCHANGED <<dside, iside, ghosts, loading>>
alt_remap_cached(b) == /\ allocated' = (allocated \ {b}) \cup {[b EXCEPT !.bypass = FALSE]}
                       /\ UNCHANGED <<dside, iside, ghosts, loading>>

-------------------------------------------------------------------------------
(* A driver changes the flash behind the cache, and if it succeeds what it *)
(* changed is flushed.  A driver that fails may have changed some.         *)
Changed(bytes) == cacheOld \cup (bytes \cap Bytes(cached))
FlashFails(bytes) ==
  /\ \E some \in SUBSET bytes : cacheOld' = Changed(some) /\ failed' = failed \cup some
  /\ UNCHANGED <<memOld, cached, dirty, iside, allocated, discarded, loading>>

Unflushed(start, len) ==                           \* mutant of FlashSucceeds
  /\ cacheOld' = Changed(Region(start, len)) /\ failed' = failed \ Region(start, len)
  /\ UNCHANGED <<memOld, cached, dirty, iside, allocated, discarded, loading>>
FlashSucceeds(start, len) ==
  /\ alt_dcache_flush(start, len) /\ failed' = failed \ Region(start, len)
  /\ UNCHANGED <<iside, allocated, discarded, loading>>

(* The caller names the whole block, and data inside one.                  *)
alt_erase_flash_block ==
  \E a \in Bytes(Flash) : /\ a % Block = 0 /\ Region(a, Block) \subseteq Bytes(Flash)
                          /\ FlashSucceeds(a, Block) \/ FlashFails(Region(a, Block))
alt_write_flash_block ==
  \E a \in Bytes(Flash), len \in 1..Block :
     /\ (a % Block) + len <= Block /\ Region(a, len) \subseteq Bytes(Flash)
     /\ FlashSucceeds(a, len) \/ FlashFails(Region(a, len))

-------------------------------------------------------------------------------
Regions == {r \in [start : Address, len : 0..MaxLen] :
              Region(r.start, r.len) \subseteq Address}
WholeLines(r) == r.start % LineSize = 0 /\ r.len % LineSize = 0

Flush == Running /\ \E r \in Regions :
  \/ alt_dcache_flush(r.start, r.len) /\ UNCHANGED <<iside, allocated, ghosts, loading>>
  \/ alt_icache_flush(r.start, r.len) /\ UNCHANGED <<dside, allocated, ghosts, loading>>
  \/ /\ WholeLines(r)
     /\ alt_dcache_flush_no_writeback(r.start, r.len)
     /\ UNCHANGED <<iside, allocated, failed, loading>>

UncachedMemory ==
  \/ \E size \in 1..Cardinality(Bytes(Ram)) : alt_uncached_malloc(size)
  \/ \E b \in allocated : alt_uncached_free(b) \/ (b.bypass /\ alt_remap_cached(b))

CacheNext ==
  \/ Fetch \/ Load \/ Store \/ StoreUncached \/ Flush
  \/ alt_load_section \/ LoadFlushesData \/ LoadFlushesInstructions
  \/ Running /\ (UncachedMemory \/ alt_erase_flash_block \/ alt_write_flash_block)

CacheSpec == CacheInit /\ [][CacheNext]_cacheVars

-------------------------------------------------------------------------------
(* Whatever the start and the length, a flush leaves no line of the region *)
(* in the cache, also in the instruction cache, where the length is cut to *)
(* the cache's.                                                            *)
FlushReaches ==
  \A r \in Regions : LET lines == {Line(a) : a \in Region(r.start, r.len)} IN
    lines \subseteq Walked(r.start, r.len) /\ lines \cap icached \subseteq IWalked(r.start, r.len)

(* alt_dcache_flush_no_writeback.c 44-69: only what is given up is lost:   *)
(* the last value of every other byte is in memory or in the cache.        *)
NothingLost == \A a \in memOld \ discarded : Line(a) \in cached /\ a \notin cacheOld

(* alt_dcache_flush.c 46-70, alt_icache_flush.c 42-84, alt_load.c 56-88,   *)
(* alt_flash.h 134-173, alt_uncached_malloc.c 51-66: what is flushed is    *)
(* gone from the cache; what alt_load copied is what is executed; the      *)
(* flash is never read as it was before a change that succeeded; uncached  *)
(* memory is in no line of the cache, so never overwritten by a line that  *)
(* is written back.                                                        *)
NeverStale ==
  /\ FlushReaches
  /\ Running => (memOld \cup icacheOld) \cap Bytes(Code) = {}
  /\ (cacheOld \cap Bytes(Flash)) \subseteq failed
  /\ Uncached \cap Bytes(cached) = {}
===============================================================================
