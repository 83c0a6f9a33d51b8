------------------------------- MODULE Stream -------------------------------
(***************************************************************************)
(* stream_dynamic.c and mbm_stream_dynamic.c: four timed kernels over      *)
(* three arrays, NTIMES times, then a summary of the times.                *)
(*                                                                         *)
(* Every kernel is a `parallel for`.  Which thread of which team does an   *)
(* element, and when, is the runtime's choice; main() goes on when all are *)
(* done.  Numbers are integers (the doubles are exact up to 2^53).  A time *)
(* is any that is not negative: the clock is not set back meanwhile.       *)
(***************************************************************************)
EXTENDS Integers, FiniteSetsExt

CONSTANTS N,        \* STREAM_ARRAY_SIZE
          NTimes,   \* NTIMES
          Elapsed,  \* times a kernel may be measured to take
          Junk,     \* what fresh memory may hold
          FltMax    \* FLT_MAX

ASSUME SizeAssumption == N \in Nat
ASSUME NTimesAssumption == NTimes \in Nat /\ NTimes >= 2  \* as the comment says
ASSUME ElapsedAssumption ==
  FltMax \in Nat /\ Elapsed \subseteq 0 .. FltMax - 1 /\ Junk \subseteq Nat

Index == 0 .. N - 1
Kernel == {"copy", "scale", "add", "triad"}
Iteration == 0 .. NTimes - 1

VARIABLES first,   \* the first iteration in the summary: 0, in mbm 1
          k,       \* iteration
          loop,    \* the loop main() is in: of "fill", "double" and Kernel;
                   \* "summary" and "done"
          open,    \* the loop has been handed to the team
          left,    \* pairs of a loop and an element not done yet
          abc,     \* <<a[j], b[j], c[j]>>
          times, sumtime, mintime, maxtime,
          avgtime  \* a sum and its divisor

arrays == <<left, abc>>
summary == <<sumtime, mintime, maxtime, avgtime>>
vars == <<first, k, loop, open, arrays, times, summary>>

Init ==
  /\ first \in {0, 1}
  /\ k = 0
  /\ loop = "fill" /\ open = FALSE
  /\ left = {}
  /\ abc \in [Index -> {<<g, g, g>> : g \in Junk}]
  /\ times = [m \in Kernel |-> [n \in Iteration |-> 0]]
  /\ sumtime = [m \in Kernel |-> 0]
  /\ mintime = [m \in Kernel |-> FltMax]
  /\ maxtime = [m \in Kernel |-> 0]
  /\ avgtime = [m \in Kernel |-> <<0, 1>>]

(* One element of each loop, from the a, b and c it has.                   *)
Body(m, x, y, z) ==
  [fill   |-> <<1, 2, 0>>,
   double |-> <<2 * x, y, z>>,
   copy   |-> <<x, y, x>>,
   scale  |-> <<x, 3 * z, z>>,
   add    |-> <<x, y, x + y>>,
   triad  |-> <<y + 3 * z, y, z>>][m]

After(m) ==
  [fill |-> "double", double |-> "copy", copy |-> "scale", scale |-> "add",
   add |-> "triad", triad |-> IF k + 1 < NTimes THEN "copy" ELSE "summary"][m]

Fork ==
  /\ ~open /\ loop \notin {"summary", "done"}
  /\ open' = TRUE
  /\ left' = left \cup {loop} \X Index
  /\ UNCHANGED <<first, k, loop, abc, times, summary>>

Do(m, j) ==
  /\ <<m, j>> \in left
  /\ abc' = [abc EXCEPT ![j] = Body(m, @[1], @[2], @[3])]
  /\ left' = left \ {<<m, j>>}
  /\ UNCHANGED <<first, k, loop, open, times, summary>>

(* Mutant of Join: no barrier ends the loop.                               *)
JoinNowait ==
  /\ open
  /\ open' = FALSE
  /\ loop' = After(loop)
  /\ IF loop \in Kernel THEN \E t \in Elapsed : times' = [times EXCEPT ![loop][k] = t]
                        ELSE UNCHANGED times
  /\ k' = IF loop # "triad" THEN k ELSE IF loop' = "summary" THEN first ELSE k + 1
  /\ UNCHANGED <<first, arrays, summary>>

(* The barrier at the end of a loop; the time is taken behind it.          *)
Join ==
  /\ open /\ left = {}
  /\ open' = FALSE
  /\ loop' = After(loop)
  /\ IF loop \in Kernel THEN \E t \in Elapsed : times' = [times EXCEPT ![loop][k] = t]
                        ELSE UNCHANGED times
  /\ k' = IF loop # "triad" THEN k ELSE IF loop' = "summary" THEN first ELSE k + 1
  /\ UNCHANGED <<first, arrays, summary>>

Lesser(x, y) == IF x < y THEN x ELSE y
Greater(x, y) == IF x > y THEN x ELSE y

Summarise ==
  /\ loop = "summary" /\ k < NTimes
  /\ sumtime' = [m \in Kernel |-> sumtime[m] + times[m][k]]
  /\ mintime' = [m \in Kernel |-> Lesser(mintime[m], times[m][k])]
  /\ maxtime' = [m \in Kernel |-> Greater(maxtime[m], times[m][k])]
  /\ k' = k + 1
  /\ UNCHANGED <<first, loop, open, arrays, times, avgtime>>

(* Mutant of Report: mbm divides by NTIMES too.                            *)
ReportAll ==
  /\ loop = "summary" /\ k = NTimes
  /\ avgtime' = [m \in Kernel |-> <<sumtime[m], NTimes>>]
  /\ loop' = "done"
  /\ UNCHANGED <<first, k, open, arrays, times, sumtime, mintime, maxtime>>

Report ==
  /\ loop = "summary" /\ k = NTimes
  /\ avgtime' = [m \in Kernel |-> <<sumtime[m], NTimes - first>>]
  /\ loop' = "done"
  /\ UNCHANGED <<first, k, open, arrays, times, sumtime, mintime, maxtime>>

Finished == loop = "done" /\ UNCHANGED vars

Next ==
  \/ Fork \/ Join \/ Summarise \/ Report \/ Finished
  \/ \E m \in Kernel \cup {"fill", "double"}, j \in Index : Do(m, j)

Spec == Init /\ [][Next]_vars

-----------------------------------------------------------------------------
TypeOK ==
  /\ first \in {0, 1} /\ k \in 0 .. NTimes
  /\ loop \in Kernel \cup {"fill", "double", "summary", "done"}
  /\ open \in BOOLEAN
  /\ left \subseteq {loop} \X Index
  /\ abc \in [Index -> Nat \X Nat \X Nat]
  /\ times \in [Kernel -> [Iteration -> Elapsed \cup {0}]]
  /\ {sumtime, maxtime} \subseteq [Kernel -> Nat]
  /\ mintime \in [Kernel -> 0 .. FltMax]
  /\ avgtime \in [Kernel -> Nat \X (Nat \ {0})]

(* What checkSTREAMresults() expects of every element, after n iterations. *)
Expected[n \in Nat] ==
  IF n = 0 THEN <<2 * 1, 2, 0>>
  ELSE LET aj == Expected[n - 1][1]
           bj == 3 * aj
           cj == aj + bj
       IN  <<bj + 3 * cj, bj, cj>>

(* The values in the check before each of its statements and behind them.  *)
Statement == [copy |-> 1, scale |-> 2, add |-> 3, triad |-> 4]
Check ==
  LET aj == Expected[k][1]
  IN  << Expected[k], <<aj, Expected[k][2], aj>>, <<aj, 3 * aj, aj>>,
         <<aj, 3 * aj, aj + 3 * aj>>, Expected[k + 1] >>

(* Whatever the teams and the order in which they do the elements, every   *)
(* kernel finds what the one before has written: an element is where the   *)
(* check main() has commented out is, statement by statement, and in the   *)
(* end has its result (l.380-424, 460).                                    *)
Validates ==
  \A j \in Index :
    /\ loop \in Kernel =>
         abc[j] = Check[IF open /\ <<loop, j>> \notin left THEN Statement[loop] + 1
                                                         ELSE Statement[loop]]
    /\ loop \in {"summary", "done"} => abc[j] = Expected[NTimes]

(* The summary is of the iterations its loop counts - "use all the         *)
(* iteration" in stream_dynamic.c:436, "skip first iteration" in mbm:400 - *)
(* and of all of them: none is better than the best or worse than the      *)
(* worst, and the average, of as many as were summed, is between the two.  *)
SummaryTells ==
  loop = "done" => \A m \in Kernel :
    LET counted == {times[m][n] : n \in first .. NTimes - 1}
        count == avgtime[m][2]
    IN  /\ mintime[m] = Min(counted) /\ maxtime[m] = Max(counted)
        /\ mintime[m] * count <= avgtime[m][1]
        /\ avgtime[m][1] <= maxtime[m] * count

(* stream_dynamic.c:112: "reports the *best* result for any iteration after *)
(* the first".  Its loop at l.436 counts the first as well.                *)
BestAfterFirst ==
  loop = "done" => \A m \in Kernel :
    mintime[m] = Min({times[m][n] : n \in 1 .. NTimes - 1})
=============================================================================
