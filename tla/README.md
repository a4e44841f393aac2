# A formal model of FPGA_VideoEncryption

The repository is an FPGA design (SystemVerilog, in
`src/395Project_Codes_Quartusii/`) that programs an OV7670 camera, captures its
picture into video memory, encrypts the right half of it on the way, and shows
the memory on a VGA monitor; a C program on a Nios II processor reads encryption
keys from a terminal and hands them to the hardware. The program stands on a board
support package (BSP) in C: the JTAG UART driver and the hardware abstraction layer
(HAL). This directory holds TLA+ models of those parts, configurations that check
them with TLC, and proofs checked with TLAPS. File names below are relative to
`src/395Project_Codes_Quartusii/`; `HAL/` and `drivers/` stand in
`software/IOmodule_bsp/`.

## 1. The system

### Hardware and program
| Part | State it keeps | Operations | Talks to |
|---|---|---|---|
| SCCB master, `SCCB_master.sv` | state of a machine of ten states, `SCCB_COUNTER`, bit counters, the current register and data byte, the levels it drives on `sdioc` and `sdiod` | on each `SCCB_clk`: one clock of START, of three or two bytes, of STOP, of the read that follows, of the pause; Reset, SCCB_Run | the camera, over two wires |
| Camera registers (OV7670, external) | bus phase, shift register, register file | follows START, STOP and clock edges | the master |
| Clock divider, `test2.sv` 171-190 | `freq_counter`, `SCCB_clk` | counts Clk; Reset holds it at zero | clocks the SCCB master |
| Image capture, `Image_mod.sv` 201-318 | `state`, `byte_num`, the pixel's column and line, the first byte, the write port | on each `Cam_pclk`: one byte of picture, or none | camera, encryptor, video memory |
| Encryptor, `encryptor.sv` | three xorshift words | one step when `VGA_Clk && encryption_trigger` rises | image capture |
| Video memory, `VRAM.v` | three memories of 65536 words, registered read ports | write on `Cam_pclk`, read on `VGA_Clk` | capture, display |
| Display scan-out, `Image_mod.sv` 152-186, 325-393 | `hc`, `vc`, `hs`, `vs` | on each `VGA_Clk`: the next beam position | video memory, monitor |
| Key receiver, `Key_Receiver.sv` | the keys, `counter`, `to_sw_sig`, `Command` | on each Clk: what `to_hw_sig` asks for | the processor, over four parallel ports |
| IOmodule, `software/IOmodule/main.c` | key arrays, loop variables | dialogue; one byte after the other with a numbered handshake | the key receiver |
| `subkeyGenerator.sv`, `tentMap.sv` | key, seed, `cycle`, `map_counter` | applies chaotic maps to a key | (nothing: its `Run` is undriven) |
| `diagRotation.sv` | a block of 32 by 32 pixels, the key | rotates blocks of the picture in SRAM | (not instantiated) |
| `test2.sv` | wiring only, and the divider | | all |

### Board support package

| Part | State it keeps | Operations | Talks to |
|---|---|---|---|
| JTAG UART driver, `drivers/src/altera_avalon_jtag_uart_*.c` | two circular buffers with their indices, a copy of the enables, `host_inactive`, `timeout` | read, write, close, ioctl; the interrupt routine; the watchdog alarm | the core's FIFOs, the host, the program, the alarms |
| File layer, `HAL/src/alt_open.c`, `alt_close.c`, `alt_get_fd.c`, `alt_fd_lock.c`, ... | `alt_fd_list`, `alt_max_fd`, the lists of devices and file systems | open, close, read, write, lseek, fstat, isatty, ioctl, fcntl, lock, unlock, registration of devices | drivers, the C library |
| Start and end, `HAL/src/alt_main.c`, `alt_io_redirect.c`, `alt_exit.c`, ... | the phase of the program, standard files | initialise, redirect, construct, main, exit, kill | file layer |
| Interrupts and exceptions, `HAL/src/alt_irq_handler.c`, `alt_iic*.c`, `alt_instruction_exception_*.c`, `HAL/inc/priv/alt_legacy_irq.h` | table of handlers, enables in memory and in the processor, priority mask, saved status | register, enable, disable, dispatch, nest, return; faulting instructions | every driver |
| Alarms and system clock, `HAL/src/alt_tick.c`, `alt_alarm_start.c`, `HAL/inc/priv/alt_alarm.h`, `HAL/inc/sys/alt_llist.h` | tick counter, rate, a doubly linked list of alarms | start, stop, tick with callbacks | timer driver, UART watchdog, profiler |
| Time of day and sleep, `HAL/src/alt_gettod.c`, `alt_settod.c`, `alt_times.c`, `alt_busy_sleep.c` | `alt_resettime` | set, get, times, usleep | system clock |
| Profiler and heap, `HAL/src/alt_gmon.c`, `alt_mcount.S`, `alt_sbrk.c`, `alt_malloc_lock.c` | function and arc records in slabs, histogram, `heap_end` | a call is counted, the program is sampled, memory is taken | every function, interrupts included |
| Caches and flash, `HAL/src/alt_dcache_flush*.c`, `alt_icache_flush*.c`, `alt_load.c`, `alt_uncached_*.c`, `HAL/inc/sys/alt_flash.h` | what is cached, dirty or old | flush, load, map uncached, erase and write blocks | memory, drivers |
| Printf and log, `HAL/src/alt_printf.c`, `alt_log_printf.c` | fields of a conversion, log flags, report counters | print, echo a write, report clock and UART | terminal |

The hardware interacts through wires sampled at clock edges, the software through
memory shared by the program and its interrupt routines, callbacks from lists, and
device registers. What is hard here:

- **Several clocks.** `SCCB_clk` is divided from Clk and stops under Reset, though
  the SCCB master looks at Reset on that clock only. `Cam_pclk` comes from the
  camera, `VGA_Clk` from the board; the encryptor's clock is gated by a register of
  the other domain. The processor's accesses fall anywhere between the clocks of
  the receiver.
- **Reset at any moment** is synchronous in the master, asynchronous in the image
  block (where it clears one register only), absent in the encryptor and the key
  receiver, and restarts the processor in the middle of a key.
- **Handshakes by level.** A signal of `main.c` stands for as long as the processor
  likes; every clock of it is a request.
- **Exact compares.** The machines leave their states on `== n`; one clock more or
  less and they wait for a wrap.
- **Frames cut short.** The camera starts over when it is reprogrammed.
- **Program against interrupt.** Driver, enables, profiler and heap are changed by
  the program and by routines that may come between any two of its instructions;
  some of these places turn interrupts off, some rely on the order of their stores.
- **Nested handlers.** A handler may let more urgent ones in; enables, mask and
  status must come back layer by layer.
- **Callbacks that change the list being walked.** `alt_tick` has read the next entry
  before it calls an alarm, which may start and stop alarms.
- **Counters that wrap**: ticks, ring indices, the delay loop's parts.
- **Error paths.** A driver fails after a descriptor was taken; the heap ends inside
  a profiled call.
- **Old copies.** A register's copy in memory, a word whose memory is chosen by a later
  address, an index read before the interrupt that moves it.

What makes each part correct: the camera ends with the configured registers
whatever was interrupted; keys and command arrive as typed; each memory word is
black or a whole pixel of its own place; no generator word encrypts two pixels
and none is zero; the display sends each pixel's own word; `SCCB_clk` stays
under the camera's limit; the terminal's characters arrive in order and whole,
both ways; a blocked write comes back when the host is gone; an alarm is called on
its tick; handlers get their own context and are interrupted by more urgent ones
only; no descriptor is lost and no lock passed; memory has one owner. `hazards` in
PROJECT.json lists, at its line, what can go wrong and which property would show it.

## 2. The modules

### SCCB: programming the camera

- `SCCBMaster`: `SCCB_master.sv`. One step is one `SCCB_clk`; each case of the
  clocked block is an action (`HALT`, `STOP`, `PREP`, `Phase1`..`Phase4`, `INPUT`,
  `BREAK`, `FIN`), and `Clock` adds the next-state block and Reset. The routine
  block finishes its clock even when Reset comes; so does the model.
- `SCCBTable`: the table of FIN as data; the runs use it, the proofs do not.
- `OV7670` and `CameraRegisters`: the camera's end, external. It sees levels
  before and after, tells START, STOP and clock edges apart, shifts, acknowledges,
  and writes its register file; writing bit 7 of register 12 resets the file.
- `SCCBBus`: both ends on two wires, with a pull-up, and with `Contended` for a
  line that both drive.
- `RegisterProgram`: the abstract specification. A program of (register, byte)
  pairs is written to a register file in order, each whole; a new run may begin at
  any time. `SCCBBus!ImplementsProgram` is the refinement.

### Keys

- `KeySizes`: lengths and alphabet, shared by the two ends.
- `KeySender`: `main.c`. Each store to or load from a port is an action; the
  terminal dialogue is one action that may set the arrays to any of `Typed`. The
  model is of the -O0 build of `software/IOmodule/Makefile`.
- `KeyReceiver`: `Key_Receiver.sv`, one action per branch.
- `KeyExchange`: both, with `readdata`, the input port's register, so that a load
  sees the answer one clock late, and `Gap` clocks at least between two accesses.
- `ByteTransfer`: the abstract specification of one key's transfer: bytes arrive
  one by one, in order, none twice, and an arrived byte stays until the next key.

### Picture

- `CameraVideo`: external; frames of any timing, cut at any byte. A byte is known by
  its frame, line and place.
- `ImageCapture`: `Image_mod.sv` 201-318 and the write ports of `VRAM.v`.
  `NextState` is the next-state block; `Capture` is the pixel block, one disjunct
  per branch. The three memories together are one function of the address: the
  bank is its two highest bits, and the writes of the three ports exclude each
  other.
- `ImageInput`: camera, capture and the encryptor's gated clock. Of the generator's
  word it keeps whether it is zero, new or used. `Rate` bounds the edges of
  `Cam_pclk` between two changes of `VGA_Clk`.
- `Encryptor`: the generators themselves, a 32-bit word being the set of its ones.
- `DisplayScan`: the beam and the read ports. A colour is replaced by the address it
  was read from, so that what is shown can be compared with what should be.
- `ClockDivider`: `test2.sv` 174-190. `since` and `pressed` are history variables.

### Board support package

- `JtagUart`: the interrupt-driven driver with the core and the host. A call of read,
  write or close is cut where the interrupt routine could see the difference: at
  each load and store of an index, of `irq_enable` and of the control register, and
  where interrupts go off and on. The interrupt routine is a second thread with its
  own program counter; the watchdog alarm runs where interrupts are on; the host
  puts and takes characters at any time.
- `ByteStream`: the abstract specification of a direction: a queue to which items are
  added at one end and taken at the other, one at a time or some at once.
  `JtagUart!Input` and `JtagUart!Output` are its two instances; the queue is the
  driver's ring with the core's FIFO behind or before it.
- `FileTable`: the descriptor table. The HAL runs on one thread here, so a call is one
  step; what a driver does is success or an error. `Startup` EXTENDS it with the
  phases of `alt_main`: drivers, redirection of the standard files, constructors, main, exit.
- `Interrupts`: the processor works on the top of a stack of frames. Registration is
  cut at each store, dispatch at each step of its loop; `interruptible` and
  `non_interruptible` are steps of a handler. `ChangeInIsr` says whether handlers also
  enable and disable interrupts.
- `SysClock`: the tick counter modulo `Wrap`, and its rate. `Alarms` EXTENDS it with the
  list: insertion and removal are single steps, since interrupts are off, and the walk
  of `alt_tick` stops at each entry and in each callback. `FreeSpec` adds callbacks that stop
  the entry the walk goes to next (`StopsNext`). `TimeOfDay` EXTENDS `SysClock` with the time
  that is set and the delay loop.
- `Profile`: `mcount` with an interrupt allowed between its instructions where they are on; `sbrk`;
  the sampler. `blocks`, `records`, `calls` and `lost` are history variables.
- `Cache`: direct-mapped caches over a few lines. Of the data it keeps only whether a
  copy is the value written last. The processor of this system has no caches and drives no
  flash device (the bodies of the flushes are compiled out): the module is of the HAL's
  sources as they would run on one that has.
- `Printf`: both formatters as machines that take a format character by character.
- `LogReports`: flags, echo of a write, report counters.

`MC*` modules give the constants values. `MCTransfers`, `MCBoard` and `MCHal` each
check several components that share no state (the alarms and the time of day take turns
with one clock): a variable `part`, chosen at the start and never changed, names the one
that runs. `*_proofs` hold the theorems.
Definitions marked `mutant of` are plausible mistakes, used to show that a
property can fail.

## 3. The runs

| Run | Asks | Bounds |
|---|---|---|
| `transfers` | With Reset and SCCB_Run at every clock: are camera and master at the same bit (`InStep`), does the data pin move with the clock high only for START and STOP (`DataStable`), are writes whole and in order (`ImplementsProgram`), is the hiatus reached (`ReachesHiatus`) with the camera configured (`ConfiguredAtHiatus`)? Do both keys and the command arrive as typed, whatever sessions were cut (`KeysDelivered`, `KeysTransferred`), at the position sent (`SamePosition`), and does each session end (`SessionEnds`)? | Table of four entries: two device resets, COM7, and the last entry of the source. Keys of 3, 4 and 3 characters of {0, 1, 2}; `Gap` 2. |
| `board` | With cut frames, Run and Reset anywhere: is each word black or its own pixel (`PixelsInPlace`), is a frame stored (`FrameStored`), is no word used twice (`NoWordTwice`), is the beginning of a frame found (`CaptureStarts`)? Are the sync pulses outside the picture (`SyncInBlanking`)? Is no generator word zero (`NeverZero`)? Is `SCCB_clk` never fast (`SlowEnough`), and does it stand under a Reset that is held (`ResetStopsClock`)? | 3 x 3 pixels of which 2 lines are kept, `Half` 1, frames of 2 contents, `Rate` 1; a raster of 100 x 66 with 80 x 60 visible, 30 lines held in banks of 1024; 1600 generator edges (five lines); the real divisor, 64. |
| `jtag_uart` | With program, interrupt routine, watchdog and host at every interleaving: are characters received and sent in order and whole (`ReceivedInOrder`, `SentInOrder`), are interrupts never left off while something waits (`ReceivesUnlessFull`, `SendsWhatWaits`), does a write come back (`WriteReturns`)? | Buffers of 3 slots, FIFOs of 1, calls of at most 2 bytes, `IntMax` 4, a timeout of 2 asked for or none. |
| `hal` | Interrupts at any instruction: does a handler get its own context (`EntryWhole`), is it interrupted by more urgent ones only (`MoreUrgentOnly`), does the program get enables and status back (`MaskRestored`), is the most urgent served (`UrgentServed`)? Alarms started and stopped anywhere: is the list whole (`ListWhole`), is each called on its tick (`OnTime`), does each tick end (`WalkEnds`)? Is the pool in order (`PoolInOrder`), are the standard files ready (`StandardReady`), is no lock passed (`NoOpenPastLock`)? Is the time kept until the counter wraps (`KeepsTime`), is a delay as long as asked (`SleepsAsAsked`)? Has memory one owner (`MemoryApart`), is each call counted (`CallsCounted`)? Is no byte lost in the caches (`NothingLost`) or read when old (`NeverStale`)? Can a printed number be read back (`ReadsBack`), does the echo fit (`EchoIsSafe`)? | 3 lines, one handler that may be registered on each, handlers that do not change enables; 3 alarms, intervals up to 3. Pool of 5 descriptors, three devices and one file system; a tick counter that wraps at 7, rates 2 and 4; sleeps up to 8 with parts of 2; heap of 16 with two functions and one caller; data cache of 1 line over memory of 4, lines of 2 bytes, regions up to 3; 8-bit numbers at every edge, widths up to 9; writes of 1, 3 and 5 characters echoed into 3. |

Why the bounds are enough.

- The SCCB master does the same for each entry but the first, the ones between and
  the last; the short table has each kind, a register written twice and the device reset.
- Key lengths matter only in loop bounds and in `counter`; three and four tell the
  first, a middle and the last byte apart.
- Pixels are treated alike but at the edges: first, inner and last column, kept and
  not kept lines, plain and encrypted columns all occur. The raster is smaller than
  the real one, with each region of it non-empty;
  the theorems hold at the real numbers. `Edges` bounds the generator for TLC only;
  with the words of five lines spent, its part of the run stands still (`Done`).
- `Rate` 1 says `Cam_pclk` is at most twice as fast as `VGA_Clk`. The configuration
  written by `SCCB_master.sv` multiplies the camera's clock, which is `VGA_Clk`, by
  four in register 6b and halves it for the picture in register 3e, which gives this
  ratio. With `Rate` 2 a pixel may find the generator not stepped yet and
  `PixelsInPlace` fails: the design depends on this ratio.
- A ring of three slots holds two characters: empty, partly full, full and wrapped
  occur, with both the split and the whole copy. `IntMax` 4 leaves the watchdog room below
  "never", which is its greatest value.
- Three interrupt lines are the least in which a nested handler is nested again. A
  counter that wraps at 7 lets each interval fall across the wrap, and is no multiple of
  `US`, as 2^32 is none of a million.
- A pool of five leaves two descriptors beside the standard ones: one locked and one
  that asks. The heap ends in the middle of a profiled program. With one
  line in the data cache every line evicts every other; any number of lines is in the theorems. Eight bits have the most
  negative number, nine columns more than the longest of decimal or hexadecimal.

Fairness.

- `transfers`: while the bus runs, its clock does; while the keys run, so do the clock and
  the processor, unless it waits for the user. Nobody has to press a button.
- `board`: the board's clock runs and the camera's timing goes on (strong fairness,
  since the ratio of the clocks may disable an edge of the one between two edges of
  the other).
- `jtag_uart`: the program's call goes on (weak, the processor executes); the
  interrupt routine runs (strong, since it is held off while interrupts are off).
  What the host and the timer do is not assumed but is the hypothesis of `WriteReturns`:
  either the host takes characters, or it is silent and the clock ticks on.
- `hal`: registration and enabling go on; a handler in progress and an
  interrupt that is pending again and again are served (strong); a tick goes on.

Every run checks for deadlock.

## 4. What the code does not do

Eight runs end in a violation; each checks a sentence of a comment or a prompt.

| Run | Shows |
|---|---|
| `sccb_last_entry` | The table's last entry is loaded in the hiatus and never sent. |
| `sccb_read_back` | Phase 4 does not release the pin, so `Read_data` is what the master drives wherever the two conflict. |
| `key_diagonal` | The position of the diagonal key moves by eight: one character of three arrives. |
| `image_last_pixel` | Lines from 240 on are not stored, and write black over the last pixel that was. |
| `display_right_pixel` | At the change to the second and to the third memory, two pixels show the last words of that memory, not their own. |
| `fd_exclusive` | `alt_fd_lock` does not look at the highest descriptor in use, so a lock is granted although that descriptor refers to the device. |
| `sampler_starts_once` | An interrupt between the test and the clearing of `pcsample_need_init` starts the profiler's alarm twice. |
| `alarm_stopped_next` | A callback that stops the alarm after its own sends the walk of `alt_tick` to an entry outside the list. |

More can be read off the source; where a model has to stay clear of one of these, an
assumption of the model says so.

- In the hiatus FIN drives the data pin low (`SCCB_master.sv:362`), which the comment
  at 148 has at high impedance.
- The header of `Image_mod.sv` speaks of 640 * 480 pixels; 640 * 240 are kept.
- The comment at `Image_mod.sv:335-337` says the pixel counter is used to send the data
  for the right pixel number. Nothing makes up for the two registers of the read ports:
  the whole picture stands two pixels to the right, and columns 0 and 1 of a line show
  what was addressed in the blanking before it (columns 158 and 159 of the same line, since
  a line has 160 clocks more than pixels). `RightPixel` allows for that delay and leaves those
  two columns aside; it fails even so where the memory changes. The run uses a raster
  of 12 x 8 with banks of 16; in the real one the pixels are (256, 102), (257, 102),
  (512, 204) and (513, 204). `InOrder` (section 5) says what each pixel shows.
- `settimeofday` multiplies the ticks in 32 bits (`HAL/src/alt_settod.c:83-84`): a
  time set late comes out wrong. A rate that does not divide a million makes the time
  jump back with each second (`RateAssumption`), and so does the wrap of the tick
  counter; `set` is `Never` from then on. `settimeofday` reads the time zone through a
  pointer that may be null.
- A delay that is an exact multiple of the greatest part waits a whole round of
  the loop counter more (`HAL/src/alt_busy_sleep.c:78-130`); `SleepsAsAsked` leaves
  the multiples out of its upper bound.
- An alarm with the interval 2^32 - 1 is called too early (`IntervalAssumption`). Nothing
  warns a callback not to stop the entry `alt_tick` goes to next. In `FreeSpec`, where it
  may, `WalksList` fails, and the walk then stays on that entry for ever: its `next` is
  itself. `AlarmSpec`, with which `hal` checks the ends of the walk and the times of
  the calls, has callbacks that do not; the theorems say the same (section 5). A callback must not
  start its own alarm by hand either; neither specification does.
- A handler that enables or disables interrupts may be interrupted by a less urgent
  one: with `ChangeInIsr` TRUE, `MoreUrgentOnly` fails. `alt_irq_register` compares
  `int id` with the table's size only from above.
- `alt_dcache_flush_no_writeback` with a line size of zero would not end; this
  processor has no caches, and the bodies of the other flushes are compiled out.
- `alt_sbrk.c:46` says no bounds are checked; the code at 78-92 checks them.
  `alt_gmon.c:139` and 227 do not look for the -1 that `sbrk` returns then (`wild` records
  it). The histogram's size is rounded down, so a text that ends inside a bucket counts
  its last samples one past the end (`TextAssumption`).
- The clock report comes every `INTERVAL + 1` ticks, the comment says every `INTERVAL`.
  The echo of a write puts its newline over the last character that fitted. Unknown
  conversions print nothing and take no argument. Reports from the interrupt routine
  mix with what the program prints.
- `alt_write_flash` leaves flushing to the driver.
- A short answer in `main.c` leaves the rest of a key as the session before left it.

## 5. The proofs

All theorems hold for every value of the constants that the named assumptions
allow.

- `SCCBBus_proofs` (any table of fewer than 256 entries). `IInv` joins the
  invariants the run checks with: counters inside their widths, the level of each
  pin in each state, where the master is in its byte, which bits of the byte are
  in the camera's shift register, and how many writes this run has made. The
  pins and bits are needed because a Reset may turn whatever is half sent into
  an edge that the camera sees; `WriteInv` says that an edge which then completes a
  write completes the right one. From it `TypeCorrect`, `EntriesMatch`, `Framing`,
  `DataOnlyMovesForStartStop`, and `Implementation`: the bus refines
  `RegisterProgram`. `HiatusConfigured` says with what registers the camera is left. It
  assumes of the table that its first write resets the camera, as the one of the source
  does (`SCCB_master.sv:48`, 137, 138): whatever a run that was cut left behind is gone
  with it, so what counts are the writes of this run. The register file after them is a
  recursive function of their number; that it has a value for every number is shown
  by induction (`NumberInduction`, from the well-foundedness of the order).
- `KeyExchange_proofs` (key lengths below 32, any alphabet, `Gap` at least 2). `IInv`
  says for each place in `main.c` which signal stands, which answers may still be
  on their way (`Settled`), and where the receiver's counter is. `since` carries the
  argument: two clocks after a store, the answer is visible, so the single look of
  `main.c:69` succeeds. From it `TypeCorrect`, `Positions`, `Delivered`, and the two
  refinements of `ByteTransfer`, `RowTransfer` and `ColumnTransfer`, which together
  are `BothTransfers`.
- `Board_proofs`, the capture (any picture size and number of kept lines). `Following` holds for
  every ratio of the clocks: while a byte arrives the counters are its place, or the module
  waits for the next frame (`CaptureTypes`, `PlaceKept`). `Capturing` adds three parts.
  `WordReady`: a pixel that waits for its second byte has a word that was not used, or
  gets it before the next edge of `Cam_pclk`. `Memory`: each place of the memory, and what stands at
  the write port, is black or the pixel of its place. `Progress`: while a frame is
  received, each of its pixels so far is in the memory or at the port, which is written a
  clock later; different pixels have different addresses, and from the first line that is
  not kept the port writes black over the last place and no other. From it `InPlace`,
  `WholeFrame`, `FreshWords`. These three assume `Rate = 1`, the ratio the
  registers of the camera give (section 3); with more edges a pixel finds no new word.
- `Board_proofs`, the display (any raster). The invariant adds that the two read registers
  hold the low bits of the addresses of one and two clocks ago. `InOrder` says of every pixel from
  the third of a line on which word it shows (`SentTwoLate`), and needs a little division:
  within a bank the low bits of `a - 2` are those of `a` less two, at its first two words
  those of its last two, which is where `RightPixel` fails.
  From it also `ScanTypes` and `SyncOutside`.
- `Board_proofs`, the generators (any number of edges). Each of the three stages
  `x ^ (x << 13)`, `x ^ (x >> 7)`, `x ^ (x << 5)` is injective: a bit in which two words
  differ would carry a chain of differences out of the word. So zero has no
  predecessor but itself, and different words stay different: `RunsOn`, `Different`.
- `Board_proofs`, the clock divider (any divisor). The counter is never further than `since`,
  so a change needs `Half` clocks: `NeverFast`; a Reset seen once leaves the counter at
  zero: `StoppedByReset`.
- `Alarms_proofs` (any set of alarms, any width of the counter, any interval below
  `Wrap - 1`). `AlarmListWhole`: the two links of an entry are each other's inverse;
  inserting what points to itself and removing anything keep that. `CalledOnTime` has
  to know which alarms the walk has yet to meet. Reachability along the list is not
  first-order; the invariant speaks of the sets of entries that contain the cursor and
  are closed under `next` up to the head (`Closed`); an alarm is `Ahead` of the cursor when
  it lies in every such set. The alarms that are due and not yet called (`Pending`) are
  always ahead, so none is passed over; `Timed` ties `left`, the ticks still to wait, to
  `time`, `rollover` and the counter, before and after a wrap. The same invariant keeps the
  walk on the list (`WalkOnList`). `CalledOnTime` and `WalkOnList` are of `AlarmSpec`, where no
  callback stops the entry that comes next; that the list itself is whole needs no such
  restriction (`FreeListWhole`).
- `Startup_proofs` (any pool, devices, file systems and drivers, each call failing or
  not). `Sound`: the mark `alt_max_fd` is never behind a lock or a descriptor from the
  pool, and a free one has no flags; so the search of `alt_open` for a lock sees it. `Ready`
  follows the standard files through the phases of `alt_main`. From them `TypeCorrect`,
  `PoolSound`, `LocksHold`, `StandardFiles`.
- `Interrupts_proofs` (any number of lines and handlers). The state is a stack of
  frames. `Masks`: the mask each frame saved is the one the frames below left in force, so
  unwinding the stack restores them one by one; `Enables`: with no nested handler below
  the top, the processor lets in what memory says is enabled; `Status` says where interrupts
  are on. `HandlersWhole` and `Restored` hold whatever handlers enable; `MoreUrgent`
  assumes `~ChangeInIsr`, without which it is false.

- `JtagUart_proofs` (any length of buffer and FIFO, calls of any size, any characters). First what the
  two ends of a ring do: `Put` and `Take` say, for any number of slots and around
  the wrap, how moving an index past slots that show certain values changes what the ring
  holds. The invariant joins `Types`; `Flow`, the program points at which
  interrupts are off and what call is in progress; `Copied`, that what a
  call copied is still there, in slots the other end does not touch, when it moves the
  index (this is what lets the copy be interrupted); and `Enabling`, that
  the copy of the enables is the register and that an enable that is off has a
  reason: a full ring, an empty one, or a call that has not come to its end yet. The
  space the interrupt routine read in the control register stays a lower bound, so
  no FIFO overflows (`TypeCorrect`). From it `FetchedUnlessFull`, `WaitingIsSent`, and
  the two refinements of `ByteStream`, `InputIsStream` and `OutputIsStream`.
- `Services_proofs`, time of day, sleep and log (any rate that divides a second, any
  width of the loop counter, any length of buffer). `Timing`: `alt_resettime` is the time
  that was set less the ticks of that moment, with a borrow from the seconds; each tick
  is a whole number of microseconds (`TimeIsKept`). `LongEnough` adds up the loops that
  `usleep` divides its argument into. `EchoFits` follows the copy of the echo over the
  characters it skips, up to the length of the buffer.
- `Services_proofs`, the caches (any size of memory, lines, caches and flash blocks). `DataSide`: a byte
  whose value in memory is old and was not given up is in a dirty line; one that is old in a
  line was given up, or is flash's after an erase or write that failed; lines of flash are
  never dirty, and two cached lines never share a place. `BlockSide`: uncached memory is
  whole lines, none cached. `CodeSide`: what is executed was copied, written back and
  flushed. Each flush walks a region by lines; which lines that reaches, also when the
  region begins inside a line, is a lemma (`NoValueLost`, `NothingStale`).
- `Services_proofs`, the profiler (any heap, record and slab, handlers that are profiled too). `Nested`
  says for each place of `mcount` what the context there has read and still may
  rely on: from the moment interrupts go off until the record is linked, no other
  context moves, so the slab it chose is the newest. `HeapInOrder`: the blocks `sbrk`
  gave follow one another below `heap_end`; `SlabFree`: the records lie apart in
  slabs and the rest of the newest holds none; `Sampling`: the sampler writes into
  the histogram or not at all. From it `MemoryIsApart`, wherever an interrupt comes. After `sbrk` has
  returned -1 unnoticed (`wild`) nothing is claimed. `Counting`, for the counts: the
  calls recorded for an arc and the contexts of `mcount` that still owe it one (`Dues`) are
  the calls made of it, and what a search found stays on the lists until it counts.
  It needs sums over finite sets, which the model writes as recursive functions with a
  `CHOOSE`: by induction on the size of the set the order it takes does not matter, and
  a step that moves one call from a context to a record moves it in the sum
  (`EveryCallCounted`). What the model leaves out of the balance, `lost`, are the calls a
  handler counts between the load and the store of the same count.
- `Services_proofs`, the two small printf (any width of a word that is a multiple of 4, any
  arguments, strings and widths). `Power`, the digit count and `Number` are recursive functions;
  that such functions exist and are unique is proved for each, by induction, then
  `NumberIs`: a row of as many digits as the number has reads back as the number.
  `DigitsAre` and `HexDigitsAre` show that both ways to find the first digit, dividing
  until nothing is left and looking for the first nibble that is not zero, begin such a
  row, without leading zeros. `RightWhenLaid` takes the text apart into sign, fill and
  digits. The invariant `Printing` is inductive with what the fields of a
  conversion may be while it is read (`NumbersReadBack`).

`TypeCorrect` (where there is one), `EntriesMatch`, `RowTransfer`, `ColumnTransfer`,
`CaptureTypes`, `PlaceKept`, `ScanTypes`, `InOrder`, `Different` and `FreeListWhole` are proved and
not the property of a run. `WalkOnList` proves of careful callbacks what the run
`alarm_stopped_next` refutes of others.

Model-checked only: liveness (`ReachesHiatus`, `SessionEnds`, `CaptureStarts`,
`WriteReturns`, `UrgentServed`, `WalkEnds`), which is beyond the prover.

## 6. What is left out, and why

Not modelled:

- `subkeyGenerator.sv` and `tentMap.sv`: in the design of today the generator never
  starts, its `Run` is a net nobody drives, its output is not used, and three of its four maps have
  no body. `diagRotation.sv` is not instantiated, and the assignment after its end
  condition overrides it.
- Electrical behaviour: metastability at the clock crossings, which of two pins changed at one
  edge the camera sees first (the model's camera sees the clock fall first), the mixed word that
  `R_OUT` may give when sampled while it changes, the camera's reset pin (whose
  polarity the source does not settle).
- Simulator orders of blocking assignments in clocked blocks (`freq_counter`,
  `VGA_Clk`, `hc++`): the models are of the synthesised circuit.
- An optimised build of `main.c`, where reads through its non-volatile pointers
  need not happen. The model is of the -O0 build the Makefile makes.
- Outputs for display only: LEDs, HEX digits, `counter`. Colour widening.
- `SEED`, which `main.c` asks for, does not send, and `Key_Receiver` never drives.
- Modules without a body (`logisticMap.sv`, `bernMap.sv`, `quadMap.sv`,
  `multiplier80.sv`), unused ones (`RGB_reader.sv`, `vga_controller.sv`), the testbench,
  which is commented out, and generated files (`cam_soc`, the SDRAM controller,
  Quartus databases).
- Of the BSP: start code and register saving in assembly, emulated multiplication and
  division, the environment, `alt_gmon_data`, flash devices opened by name, boot messages, DMA and PIO
  headers that nothing calls, the small UART driver and the uC/OS build, which are
  not compiled. The core's interrupt thresholds are taken as "not empty" and "not full".

## 7. What could come next

1. A composition of capture and display over the one memory: what a monitor shows
   of a frame that is being replaced.
2. A composition of `ClockDivider` with the master's Reset: what a short press does.
3. A composition of `JtagUart` with `Alarms` and `Interrupts` in place of the watchdog and
   the interrupt as they are modelled in it now.
4. `diagRotation.sv` and `subkeyGenerator.sv`, once they are part of the design.
