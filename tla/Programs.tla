------------------------------ MODULE Programs ------------------------------
(***************************************************************************)
(* The two STREAM programs and the small programs of this repository, each *)
(* a specification of its own.  `program` is the one that runs; the others *)
(* have not been started.                                                  *)
(***************************************************************************)
EXTENDS Stream

CONSTANTS NBytes, Strides, Hops,      \* FreqRing
          MaxSlices,                  \* IdleSwitch
          NFiles, Latency, Empty, Absent,  \* Results
          Size, Threads,              \* PageTouch
          Nodes,                      \* ZoneInfo
          IntMax, TypeSize, ArraySizes, MapThreshold,  \* MemOps
          PageSize,                   \* PageTouch and MemOps
          NumThreads, NumPages, PerPage, Cnt, MaxReports  \* TlbShootDown

VARIABLES program,
          stride, mem, pos, links, hops, stage,
          tid, begun, phase, path, slices, c1, c2, c3, told,
          mat, mats, files, lowest, highest, total, next, step,
          nproc, cptr, created, joined, state, capture, ptr, off, touches,
          populated, rest, reading, zoneid, free, low, inactive, cnt_got, sub,
          printed,
          elements, forced, knows, origin, pages, doing, which,
          script, turn, present, lazy, flt, u1, u2, passes, main, dropped, tpc,
          reports, base

freqVars == <<stride, mem, pos, links, hops, stage>>
idleVars == <<tid, begun, phase, path, slices, c1, c2, c3, told>>
resultVars == <<mat, mats, files, lowest, highest, total, next, step>>
touchVars == <<nproc, cptr, created, joined, state, capture, ptr, off, touches>>
zoneVars == <<populated, rest, reading, zoneid, free, low, inactive, cnt_got,
              sub, printed>>
memVars == <<elements, forced, knows, origin, pages, doing, which>>
tlbVars == <<script, turn, present, lazy, flt, u1, u2, passes, main, dropped, tpc,
             reports, base>>

Freq == INSTANCE FreqRing
Idle == INSTANCE IdleSwitch WITH at <- phase
Parser == INSTANCE Results WITH at <- step
Touch == INSTANCE PageTouch
Zones == INSTANCE ZoneInfo WITH at <- reading
Mem == INSTANCE MemOps WITH n <- elements, at <- doing
Tlb == INSTANCE TlbShootDown WITH step <- script, i <- turn, at <- dropped

ASSUME SizesAssumption ==
  /\ Freq!Sizes /\ Idle!Sizes /\ Parser!Sizes /\ Touch!Sizes /\ Zones!Sizes
  /\ Mem!Sizes /\ Tlb!Sizes

ProgramsInit ==
  /\ program \in {"stream", "freqLat", "idle_switch_lat", "result_parser",
                  "pagefault_test", "getMemoryInfo", "memOpsLat",
                  "tlbShootDownBench"}
  /\ IF program = "stream" THEN TRUE
     ELSE first = 0 /\ abc = [j \in Index |-> <<0, 0, 0>>]
  /\ Init
  /\ IF program = "freqLat" THEN Freq!Init ELSE Freq!Start(1)
  /\ Idle!Init
  /\ Parser!Init
  /\ IF program = "pagefault_test" THEN Touch!Init ELSE Touch!Start(1)
  /\ IF program = "getMemoryInfo" THEN Zones!Init ELSE Zones!Start("old", {})
  /\ IF program = "memOpsLat" THEN Mem!Init ELSE Mem!Start(1, FALSE, TRUE)
  /\ Tlb!Init

ProgramsNext ==
  /\ \/ /\ program = "stream" /\ Next
        /\ UNCHANGED <<freqVars, idleVars, resultVars, touchVars, zoneVars, memVars, tlbVars>>
     \/ /\ program = "freqLat" /\ Freq!Next
        /\ UNCHANGED <<vars, idleVars, resultVars, touchVars, zoneVars, memVars, tlbVars>>
     \/ /\ program = "idle_switch_lat" /\ Idle!Next
        /\ UNCHANGED <<vars, freqVars, resultVars, touchVars, zoneVars, memVars, tlbVars>>
     \/ /\ program = "result_parser" /\ Parser!Next
        /\ UNCHANGED <<vars, freqVars, idleVars, touchVars, zoneVars, memVars, tlbVars>>
     \/ /\ program = "pagefault_test" /\ Touch!Next
        /\ UNCHANGED <<vars, freqVars, idleVars, resultVars, zoneVars, memVars, tlbVars>>
     \/ /\ program = "getMemoryInfo" /\ Zones!Next
        /\ UNCHANGED <<vars, freqVars, idleVars, resultVars, touchVars, memVars, tlbVars>>
     \/ /\ program = "memOpsLat" /\ Mem!Next
        /\ UNCHANGED <<vars, freqVars, idleVars, resultVars, touchVars, zoneVars, tlbVars>>
     \/ /\ program = "tlbShootDownBench" /\ Tlb!Next
        /\ UNCHANGED <<vars, freqVars, idleVars, resultVars, touchVars, zoneVars, memVars>>
  /\ UNCHANGED program

programsVars == <<program, vars, freqVars, idleVars, resultVars, touchVars,
                  zoneVars, memVars, tlbVars>>

ProgramsSpec == ProgramsInit /\ [][ProgramsNext]_programsVars

-----------------------------------------------------------------------------

(* Each kernel of the STREAM programs finds what the one before wrote, and *)
(* the summary is of the iterations its loop counts                        *)
(* (stream_dynamic.c:380-455); which these are is another question, see    *)
(* BestAfterFirst.                                                         *)
StreamTells == Validates /\ SummaryTells

(* freqLat.c chases all segments exactly if the stride divides the size    *)
(* (freqLat.c:116-125).                                                    *)
RingIsWhole == Freq!RingIsWhole

(* What idle_switch_lat.c prints adds up to what the thread was scheduled  *)
(* (idle_switch_lat.c:32, 63-84).                                          *)
DeltasAddUp == Idle!DeltasAddUp

(* The minimum and maximum are of the files with rows, the average counts  *)
(* a missing file as the one before it; no result or none at all if the    *)
(* first has no rows (result_parser.cpp:93-124).                           *)
StatsAreOfFiles == Parser!StatsAreOfFiles

(* The threads of pagefault_test.cpp touch no page twice and leave out     *)
(* fewer than there are threads (pagefault_test.cpp:38-50).                *)
EachPageOnce == Touch!EachPageOnce

(* No line printed mixes two nodes or comes twice, and every node whose    *)
(* Normal zone has memory gets values of its own (getMemoryInfo.c:29).     *)
NodesGetTheirOwn == Zones!NodesGetTheirOwn

(* memOpsLat.c frees pages it has given back exactly where the kernel has  *)
(* MADV_FREE, for arrays on normal pages whose size is an int; its free()  *)
(* breaks off only for two causes (memOpsLat.c:156-209).                   *)
PagesGivenBack == Mem!PagesGivenBack

(* The passes of tlbShootDownBench.c fault on every page that is not there *)
(* and on no other (tlbShootDownBench.c:206-321).                          *)
PassesTell == Tlb!PassesTell

(* No fault of its loop is lost or told twice (tlbShootDownBench.c:352-367)*)
EveryFaultIsTold == Tlb!EveryFaultIsTold

(* No report has more faults than its madvise() calls can have caused      *)
(* (tlbShootDownBench.c:349-355).                                          *)
FaultsAreCaused == Tlb!FaultsAreCaused
=============================================================================
