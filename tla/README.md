# Verification of mbench

mbench is a set of small, independent micro-benchmarks in C and C++: each program sets up a
structure in memory, runs threads over it, takes the time and prints a number. The number is right
only if the threads did what it is divided by. That is what these modules are about: not how long
something takes, but that *what is timed is what is claimed* - whole rings, balanced laps, counted
faults, sorted arrays - for every interleaving of threads, every sequence of random numbers and
every answer of the kernel.

All line numbers below are those of the repository's files.

## 1. Inventory

| part | state | operations | what is hard | what makes it correct |
|---|---|---|---|---|
| **core_lat token ring**: `no_lock.c`, `cas_lock.c` | one shared token, `n_threads`, per thread `next` and `i` | two OpenMP regions: count the team; pass the token `loops` times round | the team may change between the regions; the read and the store of `no_lock.c` are two steps without a lock; everybody spins | exactly `loops * n_threads` hops are timed; no thread gets a lap ahead; no store by anyone but the token's owner; equal teams finish |
| **random pointer ring** `setup_rnd()` in `mem_lat.c`, `simpleMemLatChecker.c`, `ParallelCacheMiss.c` | a buffer of segments, each with a pointer; `n_done` | link the end to a random free segment; give up early; close; chase by 1 or `PRL` cursors | any sequence of random numbers; a sentinel that is also a legal pointer (segment 0); self-links that count | one ring through the buffer's start, at every early exit; cursors that do not merge |
| **mem_lat tests** `simple_test`, `parallel_test`, `modify_read` | the buffer, one ring over all of it or one per thread | wipe, build, read chase, fill chase, in 17 parallel regions | rings of neighbours in one buffer; a fill test that writes into the ring it follows; a leftover ring makes every segment look used | cursors stay on segment heads; rings start on a clean buffer; parts stay apart; the program ends |
| **detectAlive** | epoll set, `nconn`, `nclose`, descriptors, next address | connect up to a window, wait, close, refill | late and reordered completions; connects that fail at once and leak; two address jumps | window never exceeded; counters match the descriptors; every connection closed; scan ends |
| **cycleCountingLSU** | a counter per cache line, `timeout` | create threads, sleep, set the flag, join | `main()` zeroes counters while earlier threads run; plain increments; an unchecked `pthread_create()` | the printed count is the work done; at most one increment after the flag; everybody reports |
| **tlbShootDownBench** | page table, fault counter, window start | six touching passes with `MADV_FREE`/`MADV_DONTNEED` between; then `madvise()` against writing threads, a report every 100000 calls | drops and faults interleave page by page; reports while threads go on | the passes tell what the kernel did; no fault lost or told twice between reports |
| **scalar quicksort** in `sortSpeed.cpp`, `sortSpeed_improved_v1.cpp`, `ippSortDemo.cpp` | array, two pointers, pending calls | partition without end tests, two recursive calls | unguarded pointers; inclusive bounds turned into lengths; equal elements | in range, shrinking, sorted, a permutation |
| **STREAM** `stream_dynamic.c`, `mbm_stream_dynamic.c` | three arrays, times | six `parallel for` loops, timed; a summary | each loop reads what the loop before wrote | values are those of the (commented-out) check; the summary is of the iterations its loop counts |
| **radix sort** `u32_radix_sort_*.cpp` | three counter tables, two arrays | count, sum, three stable moves | an uninitialised index (l.172); tables the caller must clear (l.374) | implements the same abstract sort |
| **AVX2 sort** in `sortSpeed.cpp`, `qsort_avx2_int32.s` | array, second array, pending parts | median, packing of whole vectors to both sides, copy back; insertion sort below 33 elements | unsigned `n - new_n - 1` (l.179); vectors stored whole over words not yet needed; a pivot chosen unsigned, words split signed | sorts in signed order |
| **freqLat** | a descending ring | build, chase | closes only if the stride divides the size (l.125) | one ring |
| **idle_switch_lat** | `tid`, last sample | thread start, sampling | `tid` is shared without synchronisation (l.32, l.63) | differences telescope |
| **memOpsLat** | three arrays, their pages, malloc's bookkeeping | allocate with fallback, fill, `MADV_FREE`, `free()` | length in an `int` (l.156); an advice old kernels refuse (l.15); results nobody looks at; a huge-page mapping that goes to `free()` (l.196) | when what is freed was given back before, and what `free()` can break off at |
| **pagefault_test** | one mapping, a run of pages per thread | create threads, bind, touch, join | threads begin after `main()` has moved on (l.45); rounding (l.39); an assertion in a thread (l.16) | each page touched once |
| **getMemoryInfo**, **getAvaiFreeMem** | scanner position, three values | nested line loops | the inner loop can run into the next node (l.46) | values printed belong to the node named |
| **result_parser**, **test_lat.sh** | matrices | read, fold | a missing file leaves the last matrix (l.93), one without rows an empty one | minimum and maximum are of the files with rows, and it is known what the average counts |
| options and allocation in all programs | sizes, flags | `getopt`, huge pages with fallback | unchecked sizes | sizes the tests can work with |
| `syscall_lat.c`, `testRndGlibc.c`, `*.txt` | - | - | - | one system call in a loop; does not compile; recorded data |

The programs do not call each other. What they share is code that was copied: `setup_rnd()` three
times, `measure()` twice, `qs_recsv()` three times, STREAM twice. One module with CONSTANTS stands
for each family, and the run or the theorem says which copy it is about. Inside a program the parts
interact through shared memory (OpenMP, pthreads), through the kernel (epoll, page faults,
`getrusage()`) or through the buffer one test leaves to the next (`mem_lat.c`). `core_lat/test_lat.sh`
runs the token ring for each pair of CPUs; `result_parser.cpp` reads the matrices it wrote.

## 2. Modules

```
HopCount  what measure() promises         Sorter   what a sort promises
   ^ refines                                 ^ refines
TokenRing <- CasLock <- CasLockProofs     Quicksort <- SortBench <- SortBenchProofs
          <- NoLock  <- NoLockProofs                      |
             (NoLock refines CasLock)                     +--> RadixSort, Avx2Sort
CoreLat: NoLock and CasLock side by side  (all three refine Sorter)

RndRing       <- RndRingProofs            Stream <- Programs <- ProgramsProofs
MemLat        <- MemLatProofs                          |
DetectAlive   <- DetectAliveProofs                     +--> FreqRing, IdleSwitch, Results,
CycleCounting <- CycleCountingProofs                        PageTouch, ZoneInfo, MemOps,
                                                            TlbShootDown
```

`A <- B` is EXTENDS, `-->` is INSTANCE. `CoreLat`, `SortBench` and `Programs` put programs that do not
interact side by side: a variable says which one runs, the variables of the others stay as they are.
They say nothing new; they let one run answer for a family, and TLC evaluate the assumptions of every
member (`Sizes` of the instanced modules).

An operator whose comment begins with "Mutant of" is not part of a specification: it is a plausible
bug of the definition after it, kept to show that a property would notice.

### TokenRing, NoLock, CasLock, HopCount

`TokenRing` has the state of `measure()` and the steps both programs share: `Count` and `Fork` (first
region and its end, with a new team if `OMP_DYNAMIC` is on), `Enter` (l.52), `Pass` (token on, `i` up)
and `Join` (implicit barrier, timer stops). `CasLock` adds `Cas`, a successful compare-and-swap; a
failing one changes nothing. `NoLock` adds `Acquire` (the loop at l.56 has read the thread's own
number) and `Store` (l.60) as two steps, between which anybody may move. `HopCount` is the promise:
a timer, a size, and hops made one at a time up to `loops * size`.

Fairness: each thread of the region gets on if it can, and the runtime ends a region all have left;
`OMP` threads are OS threads, which the scheduler runs. Spinning needs no more than weak fairness: a
thread's turn, once come, stays. `Fork` may draw a team of another size: then a ring has a hole or
leaves threads out, and the program hangs. This is a real outcome of the code under `OMP_DYNAMIC`, so
CoreLat.cfg says `CHECK_DEADLOCK FALSE`, `EqualTeamsFinish` is stated for equal teams, and
`RingIsWholeTeam` says that a hang is the worst that can happen: a wrong number is never printed.

### RndRing

A segment is its first word. `Link(s)` is one round of the loop in which the random number hits a
segment that still looks free, `GiveUp(s)` one that hits a used one and satisfies the early exit;
hits that change nothing are stutters. `Close` stores the last pointer and places the cursors, and
`Chase` moves all. The programs differ in `Empty` (NULL, or in `ParallelCacheMiss.c` the buffer's own
address), in the number of cursors and in the exit condition. Fairness: each segment is drawn again
and again; the generators have a long period and no more is needed for `SetupEnds`.

### MemLat

`main()` of `mem_lat.c` as the 17 parallel regions it runs one after the other on one buffer; a region
has a task, a team and says whether its threads have parts of their own. The buffer is an array of
8-byte words: a segment's pointer is its first word, what the fill test writes is `q[1]`, the word after it.
A part is `Part` words, of which a ring uses as many segments of `Stride` words as fit, so that the rings of
a part and of the whole buffer may use different words. With `-d 8`, which `main()` does not refuse, `q[1]` is the
pointer of the next segment: `Fill` then overwrites it, is killed at a 1 it follows, and may be killed
behind the buffer (`Survives`). Memory starts as junk. `Barrier` starts the next region when all threads of this one
are done. Two things are constants here: every thread of `parallel_test()` stores the same
`my_bytes` and `omp_num_threads` (l.262-263), a data race that can only store the value already there, and the default team
has the same size in each region.

### DetectAlive

`worker()` with both loops, `do_connect()` as one action (it contains no wait), `epoll_wait()` as any
subset of the open connections, or an interruption. Addresses are in base `Byte`; `called` is the address of the last
`connect()` itself. Failures (a connect that fails at once, l.101, and a failing `epoll_ctl()`, l.109) keep their
descriptor, as in the code, at most `MaxLeaks` of them. Fairness: `worker()` gets on, and a connection that stays open is reported
some time (strong fairness per descriptor, the TCP time-out). The run needs as many descriptors as a
window and the leaks; `FdAssumption` says so.

### CycleCounting, TlbShootDown, Stream

`CycleCounting`: `Create` zeroes the counter, then starts the thread, or fails (unchecked, l.156);
plain increments are `Load` and `Store`, atomic ones `FetchAdd`. A join on a thread never made is the
library's undefined behaviour: an error return or a crash. Fairness: `main()` and each thread get on.

`TlbShootDown`: `Script` lists the passes and madvise calls of `main()`; the kernel's part is external:
`Reclaim` of pages given up with `MADV_FREE`, `DropPage` (one page of a `MADV_DONTNEED` at a time),
`Fault` (page in place) and `Count` (fault counted) as two steps of a thread. `base` is a history
variable. The output of `get_rss()`, clocks and CPU times are left out.

`Stream`: `Fork` hands a loop to the team, `Do` does one element, in any order, `Join` is the barrier and
the clock. Which thread does an element makes no difference to the state, so threads are not named.
`first` is 0 for `stream_dynamic.c` and 1 for `mbm_stream_dynamic.c`; one run covers both. That
`stream_dynamic.c` counts its first iteration is what `BestAfterFirst` is about. Times are natural numbers, a clock
set back during a loop is excluded.

### FreqRing, IdleSwitch, Results, PageTouch, ZoneInfo, MemOps

`FreqRing` (freqLat.c): `Link` down from the last segment, `Close` onto `LastHead`, `Hop`. A load from a word
nobody wrote ends in `lost`. The stride need not divide the size; then the chase leaves the ring at
its first hop, and `RingIsWhole` says that this is when, and only when.

`IdleSwitch` (idle_switch_lat.c): `Begin` (the thread stores its id, any time after it was created), `Wake`
(l.63 reads it), `NoFile` or `Scan`, and `Tell`; `Schedule` is the kernel. Until the id is stored the path is
`/proc/0`, which is never there: nothing is printed and no sample is mixed up.

`Results` (result_parser.cpp): one cell of matrices that are all of one size, or without rows. `Read` (of a file
with or without rows) and `Missing` are the two ends of `readMatrix()`, whose result is ignored; `Overrun` is the
crash of results that took their size from an empty first matrix. `files` is a history variable.

`PageTouch` (pagefault_test.cpp): `Create` captures the start of a run, `Begin`, `Touch` and `Leave` are a
thread, which may be arbitrarily late. The assertion of `Begin` (l.16) may fail and ends the process with all its
threads. `Run` is the rounded quotient.

`ZoneInfo` (getMemoryInfo.c, getAvaiFreeMem.c): the file is a sequence of line kinds, generated for three
layouts (kernels before 4.9, later ones, and those with a "boost" line) and any set of zones that have
memory, node by node from the last (`LastNodes`); it is external. The three nested loops are the values of `at`, and each line read is an action.
A value is represented by the zone it was printed for.

`MemOps` (memOpsLat.c): `HugePage`, `NormalPage` and `NoMemory` are `alloc_memory()`, `Advise` the call with
the `int` length `len`, which the kernel refuses if it is negative, the pages are huge or it has no `MADV_FREE`
(`knows`; the program defines the value for headers that lack it), `Free` or `Crash` the `free()`. Small arrays live on the heap, whose bookkeeping of the next chunk can share the last page;
`Reclaim` may take that page with it.

### Sorter, Quicksort, RadixSort, Avx2Sort

`Sorter` is the promise: the array may be rearranged in any way while the sort is busy, and it returns
a sorted permutation of its input. `Quicksort` is `qs_recsv()` with `scalar_partition_epi32()`: `Call`,
`Up`, `Down` (the two scans, one element at a time), `Meet` (swap and the test of the outer loop) and
`Return` (both recursive calls, as a stack of ranges). `Middle` says which pivots are chosen - the
first or the middle element -, `Cut` is 0 for the lengths of `sortSpeed.cpp` and 1 for those of
`sortSpeed_improved_v1.cpp`.

`RadixSort` is `radix_sort()` (the portable and the demo program have the same) behind the `memset()` of its
caller (`Clear`). `ptrd` is one array of words, tables and elements alike, as in the code, so that a store
into one table that misses it hits another or the data. `Reset` is `seqTbl[idx] = 0` with whatever `idx` is: at
first any integer the uninitialised variable may hold (`Stray`), then the last digit of another table. Outside of
`ptrd` the store kills the program (`ResetKilled`), changes memory the sort has nothing to do with, or, with the
index that was never set, an element of the array (`ResetElsewhere`).
`Count`/`Counted`, `Sum`/`Summed`, `Move`/`Moved` are the loops, element by element, `Copy` the last line.
Digits have smaller bases than 2048, 2048 and 1024, but at least two values.

`Avx2Sort` is `my_qsort_AVX2()` and the `qsort_AVX2()` it calls. The assembly is `Median` (the three exchanges by unsigned
comparison), `Vector` (a vector loaded, compared signed, packed to the left and to the right, and stored whole at
both places: what counts of it is how far the two ends move), `Word` (the rest, one by one) and `CopyBack`. Its
loops over seven, three and one vector differ in how much they load before they store; `Vector` stores each vector
after loading it, which is the same, as no store reaches words not yet loaded. `Parts` are the two ranges the driver
makes of it, and `Remain`, `Take`, `Shift`, `Put`, `Remained` the insertion sort of small ones. `main()` hands unsigned values over as ints: the order is the signed
one (`Signed`), and the promise is stated for it.

## 3. Runs

| run | module, bounds | shows |
|---|---|---|
| `core_lat` | CoreLat, both programs, up to 5 threads, 3 laps, dynamic teams | `StoreOwnsToken`: nobody stores between a thread's read and its store; `ActsAtomically`: no_lock implements cas_lock; `LapBalance`, `RingIsWholeTeam`, `KeepsPromise` (implements HopCount), `EqualTeamsFinish` |
| `rnd_ring` | RndRing, 4 segments, address sentinel, 3 cursors, early exit | `Chain` while building, `Ring` once closed, `LoadsAreParallel`, `SetupEnds` |
| `rnd_ring_archieved` | RndRing, 5 segments, NULL sentinel | *violated*: 100% "archieved" is a whole ring |
| `rnd_ring_merge` | RndRing as `rnd_ring` | *violated*: PRL loads are always parallel |
| `mem_lat` | MemLat, 2 threads, parts of 7 words, stride 2 | `CursorsOnHeads`, `RingsStartClean`, `PartsKeepApart`, `FillKeepsRing`, `ProgramEnds` |
| `detect_alive` | DetectAlive, window 3, 17 of 18 addresses, 5 descriptors | `CountsMatch`, `WindowHeld`, `NoBroadcast`, `ScanCompletes`, `EachIsClosed` |
| `cycle_counting` | CycleCounting, 3 threads, 2 increments | `CntIsWork`, `StopsAtTimeout`, `AllReport`, `Ends` |
| `sort_bench` | SortBench: all 243 arrays of 5 elements for quicksort, any pivot; 3 elements of 4 bits for radix sort, dirty memory, stray indexes inside and outside `ptrd`; 5 elements of 2 bits and vectors of 2 words for the AVX2 sort | `ReadsInRange`, `CallsAreSmaller`, `Sorts`; `SlotsAreOwn`, `RadixSorts`; `AvxSorts` (each implements Sorter) |
| `quicksort_improved` | Quicksort, first pivot, Cut = 1 | *violated*: `Sorts` |
| `radix_small` | RadixSort, 2 elements, a middle digit of 8 values | *violated*: `ResetsInside`, the store of a reset stays inside `ptrd` |
| `stream_first` | Stream, 1 element, 2 iterations | *violated*: `BestAfterFirst`, the best time is of an iteration after the first |
| `programs` | Programs: both STREAM programs with 3 elements, 2 iterations, 2 times; freqLat with 12 words and every stride; 3 slices of each thread for idle_switch_lat; 4 files, any missing or without rows; 7 pages for 1 to 3 threads; 2 nodes with any zones on 3 kernels; 6 sizes for memOpsLat, with `MADV_FREE` and without; 2 threads, 3 pages, 2 calls per report, 2 reports for tlbShootDownBench | `StreamTells`; `RingIsWhole`; `DeltasAddUp`; `StatsAreOfFiles`; `EachPageOnce`; `NodesGetTheirOwn`; `PagesGivenBack`; `PassesTell`, `EveryFaultIsTold`, `FaultsAreCaused` |

Why the bounds are enough. *Rings of threads*: 5 threads and teams that differ give a ring of one, of
two and with a hole, and 3 laps one that is first, middle and last; the theorems remove the bound.
*Pointer rings*: with 4 segments the ring may be any from one segment to all, the sentinel is one of
them, and 3 cursors can collide in pairs; again proved for all. *mem_lat*: 2 threads have one
neighbour each, parts of 3 segments and a word allow a ring that is not all of its part and make the second part's
segments others than those of the whole buffer; every region occurs.
*detectAlive*: 18 addresses contain a broadcast address, a last network, the second jump caused by the
first, and the hole; the window is smaller than the number of calls and larger than one, so it fills,
drains in any order and refills. *cycle_counting*: two increments around the flag, three threads of
which any may be missing. *quicksort*: 5 elements with 3 values have all equal, sorted, reversed and
duplicate pivots, and parts of 1 to 4. *tlb*: a page per thread and one nobody writes to, faults that
straddle both ends of a window. *radix*: with 3 elements of digits with 2, 4 and 2 values there are equal
digits in each pass, elements whose order only an earlier pass has made, and a stray index into the
tables and into the data. *AVX2*: parts of 0 to 5 elements, on both sides of the size the
insertion sort takes; none, one or two whole vectors and a rest of none or one.
*small programs*: strides that divide and that do not, one segment and many; sizes that leave pages
over; a heap array that fills its last page and one that does not, sizes an `int` turns negative,
shorter or leaves alone; a first file that is missing. *stream*: all orders of 3 elements, a first iteration and a counted
one in both programs.

### What the code does otherwise than it says

* `mem_lat.c:351` prints "archieved 100%" for rings that lack segments: a link of the last segment to
  itself is counted in `n_done` (l.224).
* `ParallelCacheMiss.c:222` prints a cost "with parallel load PRL": cursors that start on segments off
  the ring jump to segment 0 and merge, so that fewer loads are in flight.
* `sortSpeed_improved_v1.cpp:90` passes lengths that are one short; `main()` calls it in place of the
  library sort and gets an unsorted array.
* `u32_radix_sort_portable.cpp:190` clears a word of the third table chosen by the last middle digit. With fewer
  than 1016 elements - 1000 is the default - that word can lie behind the end of `ptrd`, though the
  comment at l.162 sets no lower limit.
* `stream_dynamic.c:112` says that it "reports the *best* result for any iteration after the first"; its summary
  (l.436) counts the first. `mbm_stream_dynamic.c:400` skips it.
* `qsort_avx2_int32.s:41` says "This one sorts in descending order". Its comparison (l.124) puts the words below the pivot at
  the bottom, and `AvxSorts`, checked and proved, says that the array is returned in ascending order.

What the models make explicit where nothing is claimed: `my_qsort_AVX2()` sorts in signed order where the
other cases of `sortSpeed.cpp` sort unsigned values; a Normal zone without memory makes getMemoryInfo print the
values of the same node's Movable zone, if that has memory, as the node's (l.46); a missing file counts in
result_parser's average as the file before it, one without rows as 0, and a first one without rows can crash it (l.93);
freqLat leaves its ring if the stride does not divide the size (l.125); memOpsLat gives nothing back where the kernel has no
`MADV_FREE`, and not all if the size is no `int`, with `-l` it passes mappings to `free()`, and with small arrays it
lets the kernel drop the heap's bookkeeping; pagefault_test touches no more pages than a multiple of its threads;
mem_lat with `-d 8` writes over its pointers in the fill tests.

Not decided by a run: `ParallelCacheMiss.c:271` accepts a ratio from 0.01
and its message says "between 80 to 100"; `getMemoryInfo.c:126` accepts options its usage does not list.

## 4. Proofs

`tlapm` checks every step; nothing is assumed but the named ASSUMEs on the constants, which TLC
evaluates in each run. All theorems hold for every value of the constants those permit; those about mem_lat have the
premise that a stride is two words or more.

* **CasLockProofs**: the inductive invariant is `TypeOK /\ Phases /\ LapBalance`. `Phases` (of which
  `Counting`, `Passing`, `Parked` and `AllJoined` are the parts) ties the region to where its threads
  can be and to their `next`. `LapBalance` alone is not inductive: it needs to know
  that the token names a thread of the ring and that threads outside it have made no pass. From it follow `LapsStayBalanced`, `StopsOnlyWholeRing`
  - if all of the team have made their passes, the ring is the team, by the balance of laps - and
  `Implements`: each successful swap is one hop of HopCount, counted from the token's position.
* **NoLockProofs**: `StoreOwnsToken` (a thread between read and store is the one the token names) is
  inductive with the types. With it a `Store` is a `Cas` and an `Acquire` a stutter, so no_lock.c
  implements cas_lock.c, and the theorems about cas_lock.c carry over by INSTANCE.
* **RndRingProofs**: the invariant says that there is a path of different segments from segment 0 to
  the end of the chain that holds all linked segments. The step proof extends the path by one segment;
  the self-link and the sentinel that is segment 0 are cases of their own. `EndsAsRing` closes the path;
  `StaysParallel` shows that a ring of all segments is a permutation, so different cursors stay so.
* **MemLatProofs**: between two clearings the buffer holds one ring, or one in each part. The invariant:
  `Ringed` (used segments of a ring lead to used segments of it, but for the end of a chain not yet
  closed), `Chains` (whose ends are those of the threads that build), `BesideHeads` (words that are no
  head hold NULL or what the fill test stored), `Wiped` and `Cursors`. `CursorsOnHeads` alone is not
  inductive: a cursor stays on heads because the heads it can reach lead to each other, and a ring
  stays closed because the fill test writes beside the heads only (`AllHeadsAre`, `PartHeadsAre`) and the neighbours
  link within their parts (`PartIs`). That takes a stride of two words: `Wide` is a premise of each theorem, which are
  false for `-d 8`. Heads of the whole buffer and heads of a part can be different words, so the invariant speaks of the
  ring that the last `setup_rnd()` made (`RingsAre`). A barrier hands the rings on; that a wiped buffer is wiped as a whole is `PartsCover`.
* **DetectAliveProofs**: `CountsMatch` (`nconn` and `nclose` count the descriptors in each state) with
  `FirstWindow`, which says why the first loop keeps to the window though it does not look at `nconn`.
  `NoBroadcast` is arithmetic on digits in base `Byte`: the second jump cannot undo the first, and the hole is tested
  on the address that is called.
* **CycleCountingProofs**: `LineIsWork` and `LoadIsCurrent` (a counter is the work of its thread, and what a plain
  increment has loaded is still the counter) hold only because `CreatedInOrder` keeps `main()` from zeroing a counter whose thread has
  begun; `OneLate` counts what is done after the flag; `JoinedInOrder` is what the last join needs.
* **SortBenchProofs**, quicksort: the invariant has `Apart` (pending calls do not overlap), `Parted` (left
  of `l` at most the pivot, right of `r` at least) and `Guarded` (a scan always has an element to stop
  it: the pivot in the first round, the last swap after it). From it: types, `NoOverrun`, `CallsShrink`.
  `KeepsValues` is invariant by composing permutations, `RestIsSorted` (elements out of order share one open
  call) for `Cut = 0`; together they make `Implements`, that the code refines Sorter.
  AVX2: while the assembly runs the array is no permutation of its input, as vectors are stored whole and the right
  words are in the second array. `Kept` is the array with the words of the second array behind those at the bottom, where the words already
  read were; those not read yet follow, the pivot last: that is a permutation, and `Parting` says that what it has at the bottom is at
  most the pivot and what comes from the second array at least.
  From `CopyBack` on it is a partition, and `new_n` is less than the length because the pivot is in neither half. Then
  `PartsAreRest` (elements out of order lie in one pending part) and `Aligned` (the parts do not overlap). While the insertion sort shifts, the array is no
  permutation of its input: one value is in a variable and one slot holds a copy. `Inserting`
  states everything for the array with that hole filled.
  Radix sort: `Counting`, `Summing` and `Moving` say what the tables hold after so many elements of a pass
  - how many elements have a digit, how many a smaller one, where the next of a digit goes. The place
  of an element is its rank; ranks keep the order of equal digits (`RanksKeepOrder`) and fill the
  array (`RanksFill`). So a pass leaves a permutation sorted by the digits so far, and three
  digits order the keys (`OrderedKeys`). `Resetting` says that the tables not yet counted
  are all 0, so that a reset inside `ptrd` changes a 0 to 0, or data that is written before it is read. A reset outside of it
  ends the program, changes nothing the sort reads, or puts a zero into the array before the first count: `taken` is the array
  as it is counted, and `RadixImplements` promises nothing if it differs from the one given. `SlotsStayOwn` holds for that
  array all the same.
* **ProgramsProofs**: `Frame` lets each program be treated as if alone. *STREAM*: `Validates` is inductive with
  `Filled` (which elements of a loop are done) and `Summed` (what the summary has seen). *freqLat*: the links made so far and
  where the chain stands; a walk of fewer hops than segments visits no segment twice.
  *idle_switch_lat*: the three counters in order. *result_parser*: each matrix of `mats` is that of the last file there was.
  *pagefault_test*: the runs as products, with Euclid's division for the remainder; nothing is claimed of pages once a thread
  has aborted but that none is touched twice. *memOpsLat*: which arrays have been advised, when that gives all of their
  pages back, what lies on the heap and why a crash is one.
  *getMemoryInfo*: `HasNodes(q, c)` says of the lines not read yet that each head of a Normal zone begins a whole
  block, in the order of the nodes after `c`; the three loops are positions in such a block, and that
  the file has this form on every kernel is shown node by node. A zone without memory lets the inner loop run on;
  what it can meet there is bounded by the node's next zones. *tlbShootDownBench*: `EveryFaultIsTold` is a sum; `FaultsAreCaused`
  is not inductive. Its proof counts the threads on their way to a fault (`Coming`), those that
  will fault once more because their page went between fault and count (`Again`) and the pages the call in progress
  has dropped (`Hit`): the faults of a window, plus those on their way, never exceed a budget that each
  call raises by the number of threads.

The library states that recursive functions exist, and induction, for operators; the provers cannot use
them so. `RecursionDefines` states the first for functions, and induction is made by taking the
least number for which a claim fails (`LeastNumber`). The theorems named `TypeCorrect` are not the subject of a
run: the runs spend their properties on what types do not say.

Every safety and action property and every refinement that a passing run checks is a theorem; the
inductive invariants were checked by TLC on the same instances. Model-checked only: all
liveness (`EqualTeamsFinish`, `SetupEnds`, `ProgramEnds`, `ScanCompletes`, `EachIsClosed`, `Ends`), which the
prover does not do under fairness. That quicksort ends follows from `CallsShrink` by an induction on
lengths that is not formalised. The quicksort of `sortSpeed_improved_v1.cpp` (`Cut = 1`), the 100% ring and the
merging cursors have counterexamples, not theorems.

## 5. Plan

In this order; what matters most is done first.

1. *Done*: token ring, pointer ring, mem_lat's tests, detectAlive, cycleCountingLSU, scalar quicksort,
   tlbShootDownBench, STREAM; proofs about the first two and quicksort.
2. *Done*: radix sort, the AVX2 driver, freqLat, idle_switch_lat, result_parser, pagefault_test,
   getMemoryInfo and memOpsLat; the side-by-side modules.
3. *Done*: proofs of all safety properties: mem_lat's tests, detectAlive, cycleCountingLSU, radix sort and the
   AVX2 driver, STREAM, tlbShootDownBench and the small programs.
4. Options and sizes: which `-s`, `-d`, `-n`, `-r` reach the tests, so that the assumptions `Stride`,
   `NSegs` and `NTimes` are what `main()` guarantees - or does not.

Runs for new modules take the place of narrower ones where one run answers both questions.

## 6. Not modelled

Time, floating point and printing; what a value costs is not a state. CPU binding. Memory order: each
access is one atomic step, as the programs' shared words are aligned and volatile or accessed with
atomic built-ins; the x86 and Arm reordering of independent words plays no part, as threads share
one word at a time or meet at barriers. Library sorts. Integer widths where the
models' bounds are far from them (the `int` of memOpsLat.c and the signed order of the AVX2 sort are modelled). Known limits that
the assumptions exclude: a stride larger than a part, which leaves no segment to divide by, or one that is no multiple of
8 bytes (`mem_lat.c:206`), fewer segments than cursors (`ParallelCacheMiss.c:143`), no iteration at all (`stream_dynamic.c:277`),
descriptors that run out below a window, and more failing connects than `MaxLeaks` (`detectAlive.c:101`, l.169;
`FdAssumption` - the code leaks one for each, so a long scan of refusing hosts can stop for want of descriptors), more than 32768 threads or pages shared by
threads (`tlbShootDownBench.c:156`), a stride larger than the buffer in freqLat, no threads in pagefault_test (a
division by zero, l.38). `measurePovit1()` and `measurePovit2()` of `sortSpeed.cpp` scan without a test for the end,
but no program calls them. `test_lat.sh` has no state of its own.

Programs that are only options, a `getopt` loop and printing around a modelled test, are modelled from the
test on; the memory of `alloc_memory()` is modelled in `MemOps` only, where `free()` depends on it.
