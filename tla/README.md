# A verification development for the IOb-SoC KNN system

The repository holds a system on chip (a RISC-V processor, its memories and
peripherals, in Verilog, with their C drivers) whose own contribution is a
k-nearest-neighbour accelerator and the classifier that uses it. This directory
holds TLA+ models of its parts, TLC configurations that check them, and TLAPS
proofs about them.

    tlc -workers 2 -config MCKnnCore.cfg MCKnnCore      # one run
    tlapm KnnProofs.tla                                 # the proofs of one module

## 1. Inventory

| Component | Source | State | Operations | Hard behaviour |
|---|---|---|---|---|
| KNN core | `src/submodules/KNN/hardware/src/knn_fsm.v`, `knn_datapath.v`, `iob_knn.v` | software registers, dataset, FSM, counters, three pipeline stages, result array | one clock edge; a register write at any edge | two counters that must agree, a pipeline that outlives a cancelled run, resets at any edge |
| KNN driver | `src/submodules/KNN/software/knn.c` | loop indices, datasets, distances read back | `knn_init`, `knn_validin_set`, the loading loop, `knn_start`, `knn_validout`, `knn_rd_data`, ... | registers polled and written while the core runs; bus timing |
| Selection and vote | `knn.c` | ordered list, votes | `insert`, scan, vote | ties, state kept from one test point to the next |
| UART and its driver | `src/submodules/UART/` | registers, transmitter and receiver programs, cts synchroniser | register write or read, clock edge, `uart_putc`, `uart_getc`, `uart_txwait` | two clocks, a one-character buffer, a receiver that joins in the middle of a character |
| Program loading | `src/software/bootloader/boot.c`, `src/software/console/` | where each side is in the exchange | connect, send file, receive file, restart | repeated ENQ, short reads, a restart the console does not notice |
| Boot controller, internal memory | `src/hardware/src/boot_ctr.v`, `int_mem.v` | boot flag, copy address, reset of the CPU | ROM to SRAM copy, restart request | two resets and a copy that end at different edges |
| Timer and its driver | `src/submodules/TIMER/` | control registers, counter, sample | one clock edge, `timer_init`, `timer_get_count` | a two-word read of a running count, a timer that the last program left running |
| Interconnect, CPU adapter | `src/submodules/CPU/hardware/src/iob_picorv32.v`, `split.v`, `merge.v` | selected slave | forward a request, return the answer | answer routed to who asked |
| Cache | `src/submodules/CACHE/hardware/` | the request's registers, valid bits, tags, words, replacement state, write-through buffer, two channels | read hit and miss, write through, invalidate | a read that overtakes buffered writes, a single-ported memory that serves two requests in one cycle, a memory of any latency |
| AXI bus functional models | `src/submodules/CACHE/submodules/AXIMEM/tb/axi.py` | command and response queues, five channels, bursts in flight, memory | `init_write`, `init_read`, the logic processes, `wait` | address and data that travel apart, beats of different bursts that overtake each other, pauses anywhere |
| CPU core | picorv32 | - | - | third party |
| Board tops, testbenches, scripts, documents | | | | no behaviour of the system |

The parts meet on a bus: the CPU makes one access at a time (valid for one edge,
answered at the next), the interconnect selects a peripheral by address, and the
peripheral's registers are all that software and hardware share. There are no
interrupts. Everything in hardware runs on one clock; the UART's other end has
its own.

What makes each correct: the core, that a run ends, with the distance of every
point, whatever was done before it; the driver, that what it reads back belongs to
the test point at hand; the selection, that the list is the sorted beginning of
what was scanned; the UART, that a character sent is the character received,
once, in order; loading, that both sides get to the end and agree on what was
sent; the boot controller, that the CPU never executes a word that is not copied
yet; the timer, that a count is of the call that asked for it; the cache, that a read
returns the last value written; the bus models, that what the test is told is done is
done, and no assertion of theirs fails on the way.

## 2. Modules

| Module | Models | State |
|---|---|---|
| `KnnArith` | the datapath's arithmetic at any even coordinate range, the driver's packing; `SqDist`, the reference of the properties | none |
| `KnnCore` | `iob_knn.v`, `knn_fsm.v`, `knn_datapath.v` | every register of the three |
| `KnnService` | the abstract promise: prepare, start, finish, stop | phase, dataset, test point, result |
| `KnnDriver` | `main()` of `knn.c`, access by access, on top of `KnnCore` | + program counter, loop indices, data, distances |
| `KnnSelect` | `insert`, the scan, the vote, over several test points | list, votes, distances |
| `UartCore` | `uart_core.v` with its registers, one edge as an operator | registers, transmitter, receiver, synchroniser |
| `UartLink` | two `UartCore`s joined by their lines, the bootloader's and the host's program | both cores, both programs, clocks |
| `SerialLine` | the abstract promise of one direction of the line | wire, held, heard |
| `Loader` | `boot.c` with the file transfers of `iob-uart.c`, against `console.c` or the testbench | both programs, characters on the way, the receiver's register |
| `IntMem` | `int_mem.v` with `boot_ctr.v`, `sram.v`, and the `merge.v` and `split.v` it instantiates, under the CPU and its two programs | every register of them, the SRAM, the CPU's request |
| `Timer` | `timer.v`, `iob_timer.v` under `iob_timer.c` | registers, the driver's access, what the calls returned |
| `Replacement` | `replacement-policy.v`: the three policies | none |
| `MemService` | the abstract promise of a memory to its one master | words, request, answer |
| `Cache` | `iob-cache.v` as the system builds it, with the modules under it, on a memory of any latency | every register, the memories, the memory behind |
| `AxiBfm` | `AXIMaster` and `AXIRam` of `axi.py` | the queues, the channels, the memory |
| `KnnProofs` | theorems about `KnnArith`, `KnnCore` and `KnnDriver` (section 4) | |
| `KnnSelectProofs`, `IntMemProofs`, `TimerProofs`, `CacheProofs`, `LoaderProofs`, `AxiBfmProofs` | theorems about the module of the name | |
| `SequenceLemmas` | what those proofs need of sequences and numbers beyond the library | |
| `MC*` | constants and bounds for TLC; `MCCache` also evaluates the policies at four ways | |

Composed of others: `KnnDriver` extends `KnnCore` (which extends `KnnArith`), `UartLink`
has two instances of `UartCore`, `Cache` extends `Replacement`. Shown to implement an
abstract module: `KnnDriver` implements `KnnService`, each direction of `UartLink`
implements `SerialLine`, `Cache` implements `MemService`.

### Hardware: one step, one edge

`KnnCore` has one operator per always block (`LoadBlock`, `FsmSeq`, `IssueBlock`,
`ValidBlock`, `ArithBlock`, `StoreBlock`, `SampleBlock`), each giving next values
from old ones as non-blocking assignments do; `CoreEdge` is their conjunction, and
an edge carries at most one register write. Reset is asynchronous, so `Resetting`
holds with the old or the new value of `KNN_RESET`: the block that is sensitive to
`posedge rst` takes its reset value at the edge of the very write. The reset loops of
the source stop short of the last entries of `data_points` and `distances`: at power-up
these hold any of a few values, and a reset leaves them what they were.
Counters keep their widths: `count` and `addr` are seven bits for `K_NUM_DATA_PTS` =
127 and so count modulo `NumPts + 1`, `addr_wr` one bit more. Nothing delays the store
address to match the pipeline, so entry n + 3 is the distance of point n (`Delay`).
`tested` is history: the test point each data point was issued with. `KNN_ADDR`
is restricted to entries that exist, which is all the driver writes.

### Driver

Every `IO_SET` and `IO_GET` is one action. Between two accesses any number of edges
passes (the CPU executes other instructions), and never fewer than `MinGap` = 2:
`iob_picorv32.v:76` drops `valid` for the edge that answers. N is the DEBUG build's,
equal to the core's size; the other build sets N to 100000 and scans `distance[i]`
far beyond its end, which has no defined behaviour to model. The 16-bit wrap
and the sign extension of `data_wrt |= x[k].y` are modelled by what they do (`Pack`).

### Selection

`distance` is read whole (reading back is `KnnDriver`'s subject), then scanned entry by
entry from the fourth on. `scanned` is history: every entry looked at since the
program began. The list is never emptied between test points, as in the source.

### UART

`UartCore` gives one operator per step of the transmitter's and the receiver's
programs (`tx_pc`, `rx_pc`). A read takes the register's value after the edge at which it
is made: the read multiplexer of `mkregs.py` is combinational and the CPU samples it
one edge later. In `UartLink` the board runs `uart_init`, the ENQ loop of `boot.c`, a
welcome, `uart_getc`, a farewell, `uart_txwait`; the host is switched on at any moment,
runs `cpu_inituart` (receiver before transmitter, unlike the board) and answers the
first ENQ. cts is either tied high, as on the boards, or the other side's rts. The two
sides run on one clock, or one of them is faster: then one edge of it alone may happen
at most once between two moments when both lines are idle, which is one edge per
character when lines are busy. `bwire`, `hwire`, `bheard` and `calm` are history: what is on
the lines, that the host has heard a character as it was sent, and how many ENQs in a row
passed it without a slip. Left out: the file transfers between the answer and the
farewell; the second edge of the testbench's two-edge read, which only repeats the
clearing of `rx_ready`.

### Loading

`Loader` takes the lines as `UartLink` shows them to be: in order, nothing lost, one
register at the board. A board that waits for a character fetches it before the next one
arrives; one that is busy printing loses the character in its register to the next
(`Arrive`). `out` is what a program has still to put before it goes on, each character of
it a step. The host is the console or the testbench: they answer alike (`Reply`, once) and
differ in integers, which the console reads with one `read` that may come short. What such a read leaves unwritten is any of `Garbage`; `short` is history. The program that is
loaded says EOT at its end (`firmware.c`) or does not (`knn.c`). Left out: the console's
failures to open and read files, on which it exits; a text is one character.

### Internal memory and boot

`IntMem` is one edge per step as well. `boot_ctr.v` has two asynchronous resets, the
system's and the restart request (`reboot_rst`), which is a register of its own: `Rst` and
`Reboot` hold with the old or the new value of each. The CPU makes one access at a time
and is either the bootloader (fetches its image, stores the firmware word by word above
it, uses its stack, restarts with boot = 0) or the firmware (fetches itself, writes
anywhere above itself, restarts with boot = 1); which one is decided by `boot` as the
reset ends. `n` and `asked` are history: how much of the firmware is loaded, and that the
program's restart has been answered. Memories hold `Unknown` at power-up; when the two ports
write one word at one edge either word may stay. Left out: loads of data, which change
nothing; boot values of a restart other than the two that `boot.c` and `firmware.S` write;
the DDR builds.

### Timer

One edge per step; an access of the driver is made at an edge, with any number of edges
between two. A restart resets the CPU and not the timer, so `Init` leaves it as a reset does
or as the same driver left it, running or being sampled. `B` is what one half of the counter
can hold. `timer_wrap` writes 0 to the upper half of the wrap value and all ones to the
lower, so the upper half of every count is 0. The count, though 64 bits wide, thus wraps
after 2^32 edges; the property counts modulo `B`. Left out: `timer_disable`, which nothing
calls, and the division by the clock frequency.

### Cache

`Cache` is `iob_cache` as `ext_mem.v` instantiates it for instructions and data:
write-through, the bit-based policy, the native back end. The wires are operators with the
names they have in the source; each always block is one operator (`ValidBlock`, `TagMemory`,
`DataMemory`, `PolicyBlock`, `RawBlock`, `Buffer`, `WriteChannel`, `ReadChannel`), and
`Clock` is their conjunction. The master keeps a request on the input until it is answered
and may put the next one there in that very cycle, as the front end allows. Invalidation
comes as a request to the cache control or from outside (`force_inv`, which the second level
has and which comes in a cycle without a request). The memory answers a request it sees at
any later edge (`answer`); it is taken to be one port with the strobes of the write channel,
as `back-end-native.v` wires it. A word is one value: strobes are all or none. `fetched` is
history. `Replacement` has all three policies; the system takes the bit-based one.

### AXI bus functional models

`AxiBfm` has each process of `axi.py` as actions: those that wait for a queue
(`write_logic`, `read_logic`, `write_resp_logic`, `read_resp_logic`, the two of the memory)
run between edges, those of a channel at an edge. The source yields to a clock, but each
side may be paused for any number of edges, so the channels take their edges one by one. A
call is cut into beats and bursts as the loops do it (`Bursts`, `WriteBeat`), with the page
of 4096 bytes and the longest burst of 256 beats as constants. The signals by which a
process wakes another are taken to work. `Overtake` stands for the device under test between
master and memory, which may reorder beats of different ids; `AXIRam` alone does not.

## 3. Runs

| Run | Question | Bounds | States |
|---|---|---|---|
| `knn_core` | does the core survive any use? | Half 4, NumPts 4, 7 register writes at any edge | 272 000 |
| `knn_driver` | does the driver read the right results, and is `KnnService` implemented? | NumPts 4, 2 test points, gap >= 2 | 111 000 |
| `knn_load` | *violation*: is the dataset in the core after the loading loop? | the same, points without a negative y | |
| `knn_select` | are the neighbours the nearest, is the vote a plurality? | N 4, K 3, 3 classes, 2 test points, distances 1..3 | 367 000 |
| `knn_idx` | *violation*: is a neighbour's idx an index of the dataset? | the same, 2 classes | |
| `uart_link` | is every character received as sent, and does the handshake end? | 8 bits, 4 edges per bit, messages of 2 characters, an access every 1 or 2 edges, Calm 3 | 256 000 |
| `int_mem` | is the CPU ever let go onto the wrong program? | ROM 4 words, SRAM 8, firmware 2, all words different, reset at any edge | 21 000 |
| `loader` | is the program loaded and echoed whole, and does the exchange end? | integers of 3 characters, file of 3 that reads as EOT, FRX, 1; 4 characters on the way | 8 400 |
| `int_mem_word0` | *violation*: is the firmware whole when it is run? | as `int_mem` | |
| `timer` | is a count of the call that returns it? | halves of 3, 2 calls, 14 edges | 31 000 |
| `cache` | is the cache a memory, whatever the latency behind it? | 2 ways, 2 indices, lines of 2 words, buffer of 1, three lines that share an index | 120 000 |
| `axi_bfm` | does every call end, with the right bytes in the right places? | words of 2 bytes, page and memory of 8, bursts of 2 beats, 2 ids, 2 calls of 3 shapes | 151 000 |

Why the bounds are enough. The core: NumPts 4 is more than the pipeline's depth (3), so
that entries of the empty pipeline and of points both occur, and the counters wrap where
the real ones do, one above the last index. Seven writes are enough for a run, a dropped
START or a reset in the middle of it, and a second run with another test point; the points
give both signs in both coordinates. The driver's second test point shows what the
first leaves behind. The selection: K smaller than the number of entries scanned, ties in
distance and in votes. The UART needs all eight bits: with four, ENQ looks like itself
shifted and a receiver that joins in the middle may never notice; an edge of
slack on each side of the sampling point needs Div = 4. The memory: a ROM longer than the
two edges between a word's address and its write, room below it for the firmware and one
word of stack, and different words everywhere, so that a word in the wrong place shows. Loading:
an integer longer than a short read, data that would be taken for commands, and room on the
way for a whole integer and the ENQs before it. The timer: several wraps of the counter
within the horizon, a first call whose sample the second must not return. The cache: more
lines at an index than ways, so that fetches evict; a second index, for a request that comes
in while a write to the first is in its cycle; a line of more than one word, so that a fetch
takes several answers; a buffer that is full after one write. One word is written, with two
values, and is in a line that is evicted and fetched back; the words that are only read are
different everywhere, so a wrong line or word shows. The bus models: calls that begin and end
inside a word, that are cut at the page and at the longest burst, that are narrower than
the bus and that overlap; ids come round within a call.

Four runs stop where the program does and say `CHECK_DEADLOCK FALSE`: `knn_select` and
`knn_idx` when `main()` returns, `timer` when the horizon is reached, `axi_bfm` when the
test has asked for all it asks.

Properties worth a remark:

- `ResultsCorrect`, `PipelineInv`, `NoOverrun`: software may write any register at any
  edge, drop START in the middle, start again, reset: no run ends with an entry of an
  earlier one. `StableWhileValid` says what a step may never do.
- `ReadsThisTestPoint`: every entry of `distance` the driver is about to classify is that of the
  dataset in the core from the test point at hand. It holds with the dataset that is in the
  core; that this one is not the program's is the subject of `knn_load`.
- `ServiceSpec`: the composed core and driver implement `KnnService`; the mapping reads
  the FSM's state as the phase.
- `NearestFirst`: the list is the stable sort of everything scanned since the program began.
  That this is more than the test point at hand is a mistake of the source (4 below).
- `ToHostSpec`, `ToBoardSpec`: each direction of the link implements `SerialLine`. Before
  the host has heard a first character it may hear garbage (it was switched on in the
  middle of one); afterwards nothing is lost, changed, invented or overtaken. On one clock
  even the first is right (`OneClockClean`).
- `Connects`: the handshake ends. Only its first half, until the host has heard an ENQ, needs
  something of the clocks (see Fairness).
- `NothingCut`: `uart_txwait` returns after the last character has arrived, so the restart
  cannot cut it.
- `ImageThere`: the copy is complete whenever the CPU starts the bootloader, whatever the
  firmware wrote over it and wherever a reset cut the copy before. `RunsItsProgram` says that
  no answer on the shared port goes to the wrong master and that no fetch is served with the
  other program's offset, `OldProgramStops` that nothing of the old program reaches the
  memory once its restart is answered.
- `FirmwareLoaded`, `EchoWhole`, `NothingOverwritten`, `Exits`: conditional on no short read
  (`~host.short`), which only the console has; the testbench never does. `Exits` also asks that
  the program says EOT: the console does not answer a board that is back in the bootloader
  (`gotENQ`, `console.c:144`), so with `knn.c`, which returns without EOT, it never exits.

- `CountOfThisCall`: a count is the edges since `timer_enable` modulo the wrap, at one edge
  between the call's first access and its return.
- `MemorySpec`: the words the master knows are the memory's under the write in flight and
  those in the buffer (`Logical`); over them the cache is `MemService`. `FetchedOnce` rules
  out what the master cannot see: a stall for a read after a write that is taken for a miss,
  a line fetched twice for one request.
- `WaitMeansDone`, `ReadsBack`: `wait()` looks at two queues and a counter while the work may
  be in seven other places; when it returns, every byte of every write is in its place. A write
  longer than the memory wraps onto itself: its last byte for a place counts (`Holds`), and a
  read meanwhile may see any of them (`MayHold`). A
  read may see a write that is under way, never one older than what was reported done
  before it was asked for.

### Fairness

`knn_core`, `int_mem` and `uart_link` assume only that clocks do not stop: `knn_core`, that
an edge without a register write comes again and again; `int_mem`, that an edge with the
reset left as it is does; `uart_link` also that the host is switched on some day.
`knn_driver` adds that the CPU gets to its next access. In `loader` the board, the line and
the host each go on. `cache` assumes that the clock runs and that the memory does not leave
a request unanswered for ever (`MemoryAnswers`), without which the cache waits with reason.
`axi_bfm` assumes that every process runs on and that neither side of a channel is
paused for ever; nothing is assumed of `Overtake` and of the test. `Released` speaks of behaviours in which the system's reset ends.
`KnnSelect` and `Timer` need none (their properties are safety).

The clocks of `uart_link` may slip for ever, a quarter of a bit once in every character.
`Connects` asks of them only that, for as long as the host has heard no ENQ, three of them in
a row (`Calm`) come without a slip again and again: with two TLC finds a behaviour in which
each slip falls just so that the host keeps framing the ENQ stream in the wrong place. Crystals
that are 100 parts in a million apart take 2500 bits to drift a quarter of one, about 250
characters. Once an ENQ is heard as it was sent nothing is asked: answer, welcome and
farewell get through whatever the clocks do.

### What the violations show

Three have a run:

1. `knn_load`. The core stores `KNN_DATA_PT` at every edge while VALID_IN is up, not once per
   write (`knn_fsm.v:45`); the driver holds VALID_IN up over the loop (`knn.c:94`). Each point
   fills several entries and the address wraps: the dataset in the core is not the
   program's.
2. `knn_idx`. A neighbour's `idx` is an entry of the distance array, three ahead of the data
   point (`knn.c:155`), so the wrong labels vote.
3. `int_mem_word0`. A restart writes the ROM's first word into word 0 of the SRAM
   (`boot_ctr.v:80`, `:81`), over the firmware's first instruction. Both are `lui sp`, with the
   SRAM's size in `boot.S:7` and the firmware's in `firmware.S:7`: equal, and the write
   harmless, as long as the two widths are (`system.mk:13`, `:16`). `RunsItsProgram` leaves
   that word to this run.

Others are in the models as the code has them, and no property hides them:

4. The list is emptied once, not per test point (`knn.c:84`): the neighbours of the second test
   point are those of both, the first one's with the distances they had to it, though
   `iob_knn.h:43` has "distance to test point". `NearestFirst` says what the list is instead.
5. `cnsl_getint` accepts a short `read` (`rs232comm.c:36`): the console takes part of the size for
   the size, makes up the rest, and the rest of the size becomes data. What is saved is then not
   the file. `ShortReadSparesProgram` and `Starts` say that no more than the copy is lost: the
   board has the file by then, and runs it. The other properties of the transfers are
   conditional on `~host.short`.
6. A negative y or-s ones over x (`knn.c:101`, `knn.c:120`): `Pack`.
7. A fresh line under the `lru` policy holds zeroes and counts as the identity, but not where
   the rank of the way that is hit is looked up: a first hit of way 2 or above leaves two ways at
   rank 0 (`FirstHitOfLru`, in `MCCache`). This is true of the operator; after a reset the first
   line to be filled is always that of way 0, so such a first hit does not come about. No cache of
   the system is built with `lru`.
8. The count of the timer wraps after 2^32 edges (`timer_wrap` writes `~0` to a register of 32
   bits and 0 to the one above, `iob_timer.c:30`, `:32`).

## 4. Proofs

Checked by TLAPS for every value of the constants under the modules' named assumptions
(`NumPts` positive, inputs of the coordinate type, `Half` even, sizes positive,
distances below `INFINITE`, a ROM and a firmware that fit the SRAM, at least two ways and two
words in a line, a file whose length fits an integer, room on the line for an integer, and a bus whose width
divides the page and the memory and is divided by the size of a beat).

- `KnnProofs`, the datapath. `DatapathIsSqDist`: the three stages compute `SqDist` for all points, which is
  the `sq_dist` of `knn.c:14`, the software the core has replaced and which is commented out there.
  `DistanceIsEuclidean`: the exact squared distance while both differences fit a short.
  `DistanceSeparates`: distance 0 only for equal points. The lemmas do the case analysis
  of the subtraction and the two's complement (`SubtractCases`, `TwoCompCases`), show the
  square is that of the signed value, and bound the sum below 2^32 (`SquareBound`,
  `SumIsExact`).
- `KnnProofs`, the core. `TypeCorrect`; then `PipelineCorrect`: `PipelineInv` is inductive with
  the type invariant. It is needed because `ResultsCorrect` speaks of the end of a run
  only: the invariant says that while the datapath runs the FSM is in COMPUTE and one
  point ahead of `addr_wr`, that each stage holds the work of the point one, two, three
  places behind, and that everything below `addr_wr` is stored. `ResultsAreCorrect`,
  `NeverOverruns` and `DistancesStable` follow. Every action is an edge (`NextIsEdge`), so the
  step is proved once, by cases on reset, running and state.
- `KnnProofs`, the driver. `DriverInv` adds to the core's two invariants what the accesses made so
  far say of it: what each register holds (`Written`), where the FSM can be (`Following`: a
  VALID_OUT found up is of this run, and the run stays at its end until START is taken down),
  with which test point the points were issued (`Fresh`), and what has been read back
  (`ReadBack`). `DriverEdge` takes every access to an edge of the core, so the core's lemmas
  serve. `ReadsRight`, `LoadsOnce` and `ImplementsService` follow; the last is the safety part
  of the refinement, `DriverSpec => Service!Init /\ [][Service!Next]`, step by step.
- `KnnSelectProofs`. `SelectTypeCorrect` (with the strengthening that a scan is only on
  while a test point is left). `ScanSorts`: the list is the first K of all that was looked at;
  a turn of the scan inserts at the first farther slot or not at all (`FirstSlot`,
  `ConsiderCases`). `NearestFirst` by itself is not enough
  for the step: it puts every entry of rank below K at its place, and `Filled` adds that each
  slot below the number of entries has an entry of that rank, so the entry
  pushed out is known. `RankStep` says how one more entry moves the ranks. `VoteIsFair`: the
  fold over the slots and the fold over the labels are taken apart into their steps; `Leads`
  is what the best label so far has over those before it.
- `IntMemProofs`. `ImageIsThere`, `FetchesItsProgram`, `OldProgramIsDone`. `ImageThere` speaks
  of the moment the CPU is let go; the invariant says how far the copy is before
  (`Copying`: every word below the one whose address is out is in place, and that one is
  on its way), that while anything is left to copy the CPU is held or a restart is under way
  and the port is locked to the copy (`Held`, `Ports`), that the bootloader stores
  above itself and in order (`LoaderRuns`), and that a firmware about to run is there, its first
  word apart (`Loaded`).
- `TimerProofs`. `CountsEdges`, from an invariant that relates the counter to the edges since
  it was enabled (`Shows`) and the sample to one edge of the call under way (`Counting`).
- `CacheProofs`. `NoSecondCopy`, `ChannelsNeverMeet`, `NoSecondFetch`, for any
  number of ways, indices and words, any buffer depth and any latency, under the assumption
  that the policy is the bit-based one: the proofs need that one way is selected, which
  `MruOneVictim` shows of that policy (and `FirstHitOfLru` refutes of `lru`). The
  invariant: the request waits while its line is fetched and nothing is being written
  (`Fetching`); a write that hit is still in the buffer in the cycle after, so a read held
  back for it cannot be taken for a miss (`HitWaits`); the outputs of the tag and valid
  memories are those of the request but for the first cycle of a fetch (`LookedUp`); a line
  that has been fetched is there until the request is answered (`IsFetched`).

  `CachedNeverStale` and `ServesAsMemory` rest on a second invariant, `DInv`, over the first:
  what is in the data memory, in the memory behind and between. `CachedIsCurrent` says
  nothing of the line that is being fetched, so `LineSoFar` says it of the words that have
  arrived, and `FetchAnswer` of the one that is arriving; `ReadOut` says what the output
  register of the data memory holds when it is looked at, which a write in the cycle before
  may have made old; `WriteMade` and `Resident` close the step. `Logical`, the words as the
  master knows them, is the memory under the write in flight under the buffer: `OverlaidAppend`
  and `OverlaidTail` say what a push and a pop do to it, `Drain` that handing a
  write to the channel changes nothing, `LogicalStep` that a cycle changes it exactly by the
  write that is accepted. `ServesAsMemory` is the refinement of `MemService`, its liveness apart:
  `Spec => Service!Init /\ [][Service!Next]`.

- `LoaderProofs`. `LoadsTheFile`, `EchoesTheFile`, `SparesTheProgram`, `NeverOverwritten`, for every file, base,
  integer width and room on the line, either host, with and without a load. The
  properties look at the two ends; the invariant says what is on the way. `FromBoard` is what
  the host has still to hear, sent or about to be, and `FromHost` the same for the board. In
  each stage (`Connecting`, `Asking`, `Receiving`, `Echoing`) the two are known to the
  character: there is one reply at most to all the ENQ, what the board has and what is
  coming to it make up the size and the file, and from its request until
  it has the file the board sends nothing more. So putting a character, its arrival and its being taken
  from the register change nothing (`UnnoticedKeeps`), and every other action is the passage
  from one stage to the same or the next. Once the board has the file only its copy is on the
  way, followed by what means nothing (`Quiet`) or ends the session (`Loud`); the
  bootloader coming round again adds ENQs to that, which a host that has replied ignores.
  A host that declines sends one ACK in the session (`Declines`). `NoneLost` reads off all this that
  a second character is on the way only to a board that is reading, so none reaches a register
  still full. `ReadsWhatWasWritten` is the lemma about
  the integers: what `IntOf` makes of `BytesOf(i)` is `i`, if `i` fits. The theorems
  speak, as the properties do, of sessions in which no read of the console came short
  (`host.short`, which stays up: `StaysShort`); `SparesTheProgram` is about the moment one does.

- `AxiBfmProofs`. `AssertionsHold` and `WaitsForAll`, for every width of the bus, page, longest
  burst, number of ids, size of memory and set of calls. The assertions look at the two ends of
  a channel; the invariant says what is between them. `Flow` is what a channel holds in order: what has
  arrived, what is on the signals, what waits. `Ends` is where the beats of a burst end,
  as a sequence of bits, one a beat; for writes (`InStep`) the `last` marks of the data flow are those
  of the address flow, short of the beats the memory has `served`, so the two agree
  however far one runs ahead of the other. For reads (`Awaited`) the same is said id by id: the
  marks of the bursts the master waits for are those of the addresses on their way to the memory behind
  those of the beats on their way back. Beats that overtake have different ids, so
  they move in no id's sequence (`FlowSwap`, `ReadSwap`), and the beat the master takes is
  the first of its id wherever it lies (`OwnId`, `OtherId`). That a burst stays in its page
  is arithmetic on `BurstLength` (`BurstLengthIs`), and that the bursts of a call adjoin and end
  with it is `BurstsAre`, shown of the recursive `from` by the last beat at which it
  would fail (`CutMore`).

  `WaitsForAll` adds two parts to that invariant (`Settled`). `Counted`: the bursts and the
  responses that are on their way are exactly those the queue of responses waits for, and
  `in_flight_operations` is the length of the two response queues, so with the master idle
  nothing is left anywhere. `Written`, which cannot speak of the memory as it is while work
  is under way, speaks of the memory as it will be: what the two write channels hold, the
  addresses on one and the bytes on the other, is a list of stores (`AreStores`), and if these
  were made now, and after them those of the writes that have not gone out (`Pending`), each
  place would hold what the last write to it puts there (`Promised`). A new call adds to the
  end of the list (`ShowsMore`), the memory takes from its front (`ShowsNext`), and every other
  action leaves it as it is. That the stores of one call put each byte at its address, and the
  later of two bytes where a call wraps onto itself, is `StoresShow`, from arithmetic on the
  beats: they follow each other (`BeatsFollow`), and a byte of the call is in one of them
  (`BeatOfByte`, `StoreOfBeat`).
- `SequenceLemmas` has no theorem of its own. `All` (sequences end to end) and `Each` (one such
  piece for every member of a sequence), with what `Append`, `Tail`, a removal and a swap do to them,
  are what the proofs on queues need; `FirstNumber` and the least and the greatest element of a finite
  set (`LeastElement`, `MaxIs`) stand in for induction.

Where an argument needs induction over the naturals (shifting an integer, every number of votes is counted, the
best label leads) it is made by the smallest counterexample: the library's induction
theorems take an operator as a parameter, which the provers here cannot instantiate.

Only model-checked: everything temporal with fairness (`Answered`, `Terminates`, `Connects`,
`ToHostArrives`, `Released`, `Served`, `Starts`, `Exits`, `Completes`, and the liveness of
`KnnService` and `MemService`), which is outside this prover's reach; `ReadsBack` of
`AxiBfm`; the cache under the two other policies; the UART (`NothingCut`, `OneClockClean`,
`ToHostSpec` and `ToBoardSpec`).

## 5. Not modelled, and what is left

- Cache: write-back with its dirty bits, a cache of one way, a line of one word, the AXI
  back end, byte strobes, the hit and miss counters, a reset in the middle of work. The
  system builds no cache of the first three kinds; the second level, with the AXI back end, is
  the same front end and memory over another pair of channels.
- UART: the second edge of the testbench's two-edge read. Interconnect: `split` between the
  CPU and the peripherals, wires but for its selection register, is in the bus timing
  of `KnnDriver`.
- AXI models: fixed and wrapping bursts, error responses (`AXIRam` gives none), `read_mem`,
  `write_mem` and the get functions, which look into the memory or a queue and are the
  test's own. `axil.py` is the same master and memory without bursts and ids; `axis_ep.py` has
  the ends of a stream, which nothing in the system uses. Most of the Python in the repository is
  five byte-identical copies of this vendored testbench kit (`axi.py`, `axil.py` and their
  tests): one copy is modelled and mapped, the other four are the same text. What the
  system does is in its Verilog and C, and the map covers that part.
- picorv32 (third party), the AXI memories in Verilog and vendor blocks (external), the number
  formatting of `printf`, build and conversion scripts, boards, testbenches of the
  submodules, documents.

Left to do, should the work go on: `ReadsBack` of `AxiBfm` as a theorem, which needs besides
`Written` what the memory holds before the stores on their way are made, and for which place each
beat read is, id by id as `Awaited` has their marks; the line of `UartCore` as an inductive
invariant (while `tx_pc` is 2 the level is the bit of the loaded character, and the
receiver's samples fall inside it), and from it `NothingCut`; and `AxiBfm` with the AXI back end of
the cache in place of the test.
