---------------------------- MODULE TlbShootDown ----------------------------
(***************************************************************************)
(* tlbShootDownBench.c.  main() first touches, re-touches and gives back   *)
(* the whole mapping and reports the minor faults of each pass.  Then      *)
(* threads write to one page each while main() gives the mapping back      *)
(* again and again, and reports the faults of every Cnt calls.             *)
(*                                                                         *)
(* The kernel is external: madvise() drops page after page, while threads  *)
(* run; a write to a page that is not there faults, and the fault puts the *)
(* page in place before it is counted.  A write through a translation that *)
(* is not flushed yet is a write that has not come to the page table.      *)
(***************************************************************************)
EXTENDS Integers, Sequences

CONSTANTS NumThreads, \* nthread
          NumPages,   \* pages of the mapping
          PerPage,    \* pgsize / 4096: threads whose byte is on one page
          Cnt,        \* cnt, madvise calls per report: 100000
          MaxReports  \* bound on the reports of the endless loop

Sizes ==
  /\ NumThreads \in Nat \ {0} /\ PerPage \in Nat \ {0}
  /\ NumPages \in Nat /\ NumThreads <= NumPages * PerPage
  /\ Cnt \in Nat \ {0} /\ MaxReports \in Nat

Page == 0 .. NumPages - 1
Thread == 0 .. NumThreads - 1

(* main() up to the threads, from the page it touches first.               *)
Script == <<"touch", "touch", "free", "touch", "touch",
            "free", "drop", "touch", "touch", "drop">>

VARIABLES step,     \* the step of Script main() is at; then the loop
          i,        \* the page of a pass; the calls of a report
          present,  \* pages in the page table
          lazy,     \* pages the kernel may take back (MADV_FREE)
          flt,      \* ru_minflt of the process
          u1, u2,   \* what getrusage() said
          passes,   \* the faults reported for each touching pass
          main,     \* "script", "start", "create", "call", "drop", "report", "reset"
          at,       \* the page madvise() drops next
          tpc,      \* per thread: "off", "write", "fault" or "count"
          reports,  \* the faults reported by the loop
          base      \* history: flt when the loop's first u1 was read

mem == <<present, lazy, flt>>
loop == <<at, tpc, reports, base>>
vars == <<step, i, mem, u1, u2, passes, main, loop>>

Init ==
  /\ step = 1 /\ main = "start" /\ i = 0
  /\ present = {0} /\ lazy = {} /\ flt = 1   \* line 196
  /\ u1 = 0 /\ u2 = 0
  /\ passes = <<>>
  /\ at = 0
  /\ tpc = [t \in Thread |-> "off"]
  /\ reports = <<>>
  /\ base = 0

Start ==
  /\ main = "start" /\ step <= Len(Script) /\ Script[step] = "touch"
  /\ u1' = flt
  /\ i' = 0
  /\ main' = "script"
  /\ UNCHANGED <<step, mem, u2, passes, loop>>

Touch ==
  /\ main = "script" /\ i < NumPages
  /\ present' = present \cup {i}
  /\ lazy' = lazy \ {i}
  /\ flt' = IF i \in present THEN flt ELSE flt + 1
  /\ i' = i + 1
  /\ UNCHANGED <<step, u1, u2, passes, main, loop>>

Touched ==
  /\ main = "script" /\ i = NumPages
  /\ u2' = flt
  /\ passes' = Append(passes, flt - u1)
  /\ step' = step + 1
  /\ main' = "start"
  /\ UNCHANGED <<i, mem, u1, loop>>

(* MADV_FREE, which an older kernel refuses.                               *)
Free ==
  /\ main = "start" /\ step <= Len(Script) /\ Script[step] = "free"
  /\ lazy' = present \/ UNCHANGED lazy
  /\ step' = step + 1
  /\ UNCHANGED <<i, present, flt, u1, u2, passes, main, loop>>

(* Mutant of Drop: the length is one page short.                           *)
DropShort ==
  /\ main = "start" /\ step <= Len(Script) /\ Script[step] = "drop"
  /\ present' = present \cap {NumPages - 1} /\ lazy' = {}
  /\ step' = step + 1
  /\ UNCHANGED <<i, flt, u1, u2, passes, main, loop>>

(* MADV_DONTNEED, with no other thread about.                              *)
Drop ==
  /\ main = "start" /\ step <= Len(Script) /\ Script[step] = "drop"
  /\ present' = {} /\ lazy' = {}
  /\ step' = step + 1
  /\ UNCHANGED <<i, flt, u1, u2, passes, main, loop>>

(* The kernel is short of memory.                                          *)
Reclaim(p) ==
  /\ p \in lazy
  /\ present' = present \ {p} /\ lazy' = lazy \ {p}
  /\ UNCHANGED <<step, i, flt, u1, u2, passes, main, loop>>

Scripted ==
  /\ main = "start" /\ step > Len(Script)
  /\ main' = "create"
  /\ i' = 0
  /\ UNCHANGED <<step, mem, u1, u2, passes, loop>>

(* The threads already made run while the next is made.                    *)
Create ==
  /\ main = "create" /\ i < NumThreads
  /\ tpc' = [tpc EXCEPT ![i] = "write"]
  /\ i' = i + 1
  /\ UNCHANGED <<step, mem, u1, u2, passes, main, at, reports, base>>

Created ==
  /\ main = "create" /\ i = NumThreads
  /\ u1' = flt /\ base' = flt
  /\ i' = 0
  /\ main' = "call"
  /\ UNCHANGED <<step, mem, u2, passes, at, tpc, reports>>

Call ==
  /\ main = "call" /\ Len(reports) < MaxReports
  /\ main' = "drop"
  /\ at' = 0
  /\ UNCHANGED <<step, i, mem, u1, u2, passes, tpc, reports, base>>

(* madvise() in the loop: the threads fault pages in behind it.            *)
DropPage ==
  /\ main = "drop" /\ at < NumPages
  /\ present' = present \ {at}
  /\ at' = at + 1
  /\ UNCHANGED <<step, i, lazy, flt, u1, u2, passes, main, tpc, reports, base>>

(* Mutant of Called: one call too many per report.                         *)
CalledOneMore ==
  /\ main = "drop" /\ at = NumPages
  /\ i' = i + 1
  /\ main' = IF i >= Cnt THEN "report" ELSE "call"
  /\ UNCHANGED <<step, mem, u1, u2, passes, loop>>

Called ==
  /\ main = "drop" /\ at = NumPages
  /\ i' = i + 1
  /\ main' = IF i + 1 >= Cnt THEN "report" ELSE "call"
  /\ UNCHANGED <<step, mem, u1, u2, passes, loop>>

Report ==
  /\ main = "report"
  /\ u2' = flt
  /\ reports' = Append(reports, flt - u1)
  /\ i' = 0
  /\ main' = "reset"
  /\ UNCHANGED <<step, mem, u1, passes, at, tpc, base>>

(* Mutant of Reset: u1 is read anew, the line that is commented out.       *)
ResetAnew ==
  /\ main = "reset"
  /\ u1' = flt
  /\ main' = "call"
  /\ UNCHANGED <<step, i, mem, u2, passes, loop>>

(* After the printing.                                                     *)
Reset ==
  /\ main = "reset"
  /\ u1' = u2
  /\ main' = "call"
  /\ UNCHANGED <<step, i, mem, u2, passes, loop>>

(* `i * 4096` in the thread, in pages.                                     *)
PageOf(t) == t \div PerPage

(* A write to a page in place changes nothing.                             *)
Write(t) ==
  /\ tpc[t] = "write" /\ PageOf(t) \notin present
  /\ tpc' = [tpc EXCEPT ![t] = "fault"]
  /\ UNCHANGED <<step, i, mem, u1, u2, passes, main, at, reports, base>>

Fault(t) ==
  /\ tpc[t] = "fault"
  /\ present' = present \cup {PageOf(t)}
  /\ tpc' = [tpc EXCEPT ![t] = "count"]
  /\ UNCHANGED <<step, i, lazy, flt, u1, u2, passes, main, at, reports, base>>

Count(t) ==
  /\ tpc[t] = "count"
  /\ flt' = flt + 1
  /\ tpc' = [tpc EXCEPT ![t] = "write"]
  /\ UNCHANGED <<step, i, present, lazy, u1, u2, passes, main, at, reports, base>>

(* The bound is reached: main() would go on.                               *)
Bounded == main = "call" /\ Len(reports) = MaxReports /\ UNCHANGED vars

Next ==
  \/ Start \/ Touch \/ Touched \/ Free \/ Drop \/ Scripted
  \/ Create \/ Created \/ Call \/ DropPage \/ Called \/ Report \/ Reset \/ Bounded
  \/ \E p \in Page : Reclaim(p)
  \/ \E t \in Thread : Write(t) \/ Fault(t) \/ Count(t)

Spec == Init /\ [][Next]_vars

-----------------------------------------------------------------------------
TypeOK ==
  /\ step \in 1 .. Len(Script) + 1
  /\ main \in {"start", "script", "create", "call", "drop", "report", "reset"}
  /\ i \in 0 .. NumPages \cup 0 .. NumThreads \cup 0 .. Cnt
  /\ present \subseteq Page /\ lazy \subseteq present
  /\ flt \in Nat /\ u1 \in 0 .. flt /\ u2 \in 0 .. flt /\ base \in 0 .. flt
  /\ passes \in Seq(0 .. NumPages)
  /\ at \in 0 .. NumPages
  /\ tpc \in [Thread -> {"off", "write", "fault", "count"}]
  /\ reports \in Seq(Nat) /\ Len(reports) <= MaxReports

(* The pass after MADV_DONTNEED faults on every page, the first one on all *)
(* but the page touched already, a re-touching on none, whatever the       *)
(* kernel has taken back before (l.206-321).                               *)
PassesTell ==
  /\ Len(passes) >= 1 => passes[1] = NumPages - 1
  /\ \A k \in {2, 4, 6} : Len(passes) >= k => passes[k] = 0
  /\ Len(passes) >= 5 => passes[5] = NumPages

(* Every fault since the loop began is in one report or in the window that *)
(* is open: none is lost, none told twice, while the threads go on         *)
(* faulting during the report itself (l.352-367).                          *)
Sums(s) ==
  LET sum[n \in 0 .. Len(s)] == IF n = 0 THEN 0 ELSE sum[n - 1] + s[n]
  IN  sum
Reported == Sums(reports)[Len(reports)]

EveryFaultIsTold ==
  main \in {"call", "drop", "report"} => base + Reported + (flt - u1) = flt

(* A report has no more faults than its Cnt calls can have caused: a       *)
(* thread faults again only if its page was dropped, but for two faults    *)
(* each from before the window: one not counted yet, and one on the page   *)
(* dropped since (l.349-355).                                              *)
FaultsAreCaused == \A k \in 1 .. Len(reports) : reports[k] <= NumThreads * (Cnt + 2)
=============================================================================
