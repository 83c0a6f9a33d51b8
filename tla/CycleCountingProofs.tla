------------------------ MODULE CycleCountingProofs ------------------------
(***************************************************************************)
(* Proofs about cycleCountingLSU.c: the cnt a thread prints, for any       *)
(* number of threads and any number of increments.                         *)
(***************************************************************************)
EXTENDS CycleCounting, TLAPS

TypeInv ==
  /\ main \in {"create", "sleep", "join", "end", "crash"}
  /\ k \in 0 .. NumThreads
  /\ timeout \in BOOLEAN
  /\ pc \in [Thread -> {"none", "failed", "test", "store", "exit"}]
  /\ data \in [Thread -> Nat]
  /\ reg \in [Thread -> Nat]
  /\ work \in [Thread -> Nat]
  /\ late \in [Thread -> Nat]
  /\ printed \in [Thread -> Nat \cup {-1}]

(* main() creates in order, so a line it still has to zero is nobody's.    *)
CreatedInOrder ==
  \A t \in Thread : pc[t] = "none" <=> main = "create" /\ t >= k

(* From its zeroing on, a line holds the increments of its thread.         *)
LineIsWork ==
  \A t \in Thread : IF pc[t] = "none" THEN work[t] = 0 ELSE data[t] = work[t]

(* Between a plain load and its store nobody else writes the line.         *)
LoadIsCurrent ==
  \A t \in Thread : ~atomic /\ pc[t] = "store" => reg[t] = data[t]

PrintsOnce ==
  \A t \in Thread : printed[t] = IF pc[t] = "exit" THEN data[t] ELSE -1

TimedOut == timeout <=> main \in {"join", "end", "crash"}

(* The one increment that may still be on its way is counted in advance.   *)
OneLate ==
  \A t \in Thread :
    IF timeout THEN late[t] + (IF pc[t] = "store" THEN 1 ELSE 0) <= 1
               ELSE late[t] = 0

(* What main() has joined is over.                                         *)
JoinedInOrder ==
  \A t \in Thread : main = "end" \/ (main = "join" /\ t < k) =>
    pc[t] \in {"exit", "failed"}

IInv ==
  /\ TypeInv
  /\ CreatedInOrder
  /\ LineIsWork
  /\ LoadIsCurrent
  /\ PrintsOnce
  /\ TimedOut
  /\ OneLate
  /\ JoinedInOrder

-----------------------------------------------------------------------------

LEMMA InitInv == Init => IInv
<1> SUFFICES ASSUME Init PROVE IInv
  OBVIOUS
<1>1. /\ \A t \in Thread : t \in Int /\ t >= 0
      /\ 0 \in 0 .. NumThreads
  BY ThreadsAssumption DEF Thread
<1> QED  BY <1>1
   DEF Init, Thread, IInv, TypeInv, CreatedInOrder, LineIsWork, LoadIsCurrent,
       PrintsOnce, TimedOut, OneLate, JoinedInOrder

(* A step of one thread changes the line, the counters and the output of   *)
(* that thread alone.                                                      *)
LEMMA ThreadInv ==
  ASSUME IInv, NEW t \in Thread, ThreadStep(t)
  PROVE  IInv'
<1> USE DEF IInv, TypeInv, CreatedInOrder, LineIsWork, LoadIsCurrent,
            PrintsOnce, TimedOut, OneLate, JoinedInOrder, Line
<1>1. CASE Load(t)
  BY <1>1 DEF Load
<1>2. CASE Store(t)
  BY <1>2 DEF Store, Counted
<1>3. CASE Decide(t)
  BY <1>3 DEF Decide
<1>4. CASE FetchAdd(t)
  BY <1>4 DEF FetchAdd, Counted
<1>5. CASE Report(t)
  BY <1>5 DEF Report
<1> QED
  BY <1>1, <1>2, <1>3, <1>4, <1>5 DEF ThreadStep

LEMMA MainInv == IInv /\ MainStep => IInv'
<1> SUFFICES ASSUME IInv, MainStep PROVE IInv'
  OBVIOUS
<1> USE ThreadsAssumption
    DEF IInv, TypeInv, CreatedInOrder, LineIsWork, LoadIsCurrent,
        PrintsOnce, TimedOut, OneLate, JoinedInOrder, Line, Thread
<1>1. CASE Create
  BY <1>1 DEF Create
<1>2. CASE Created
  BY <1>2 DEF Created
<1>3. CASE Wake
  BY <1>3 DEF Wake
<1>4. CASE Join
  <2>1. TypeInv'
    BY <1>4 DEF Join
  <2>2. JoinedInOrder'
    <3> SUFFICES ASSUME NEW t \in Thread, main' = "join", t < k'
                 PROVE  pc'[t] \in {"exit", "failed"}
      BY <1>4 DEF Join
    <3>1. CASE t < k
      BY <1>4, <3>1 DEF Join
    <3>2. CASE t = k
      BY <1>4, <3>2 DEF Join
    <3> QED  BY <1>4, <3>1, <3>2 DEF Join
  <2>3. (CreatedInOrder /\ LineIsWork /\ LoadIsCurrent /\ PrintsOnce)'
    BY <1>4 DEF Join
  <2>4. (TimedOut /\ OneLate)'
    BY <1>4 DEF Join
  <2> QED  BY <2>1, <2>2, <2>3, <2>4
<1>5. CASE Joined
  BY <1>5 DEF Joined
<1> QED
  BY <1>1, <1>2, <1>3, <1>4, <1>5 DEF MainStep

LEMMA NextInv == IInv /\ [Next]_vars => IInv'
<1> SUFFICES ASSUME IInv, [Next]_vars PROVE IInv'
  OBVIOUS
<1>1. CASE UNCHANGED vars
  BY <1>1 DEF vars, IInv, TypeInv, CreatedInOrder, LineIsWork, LoadIsCurrent,
              PrintsOnce, TimedOut, OneLate, JoinedInOrder
<1> QED
  BY <1>1, ThreadInv, MainInv DEF Next, Spin, Finished

(* Behind every number cycleCountingLSU.c prints: each line counts its own *)
(* thread's increments, and main() touches it only before there is one.    *)
THEOREM Invariance == Spec => []IInv
BY InitInv, NextInv, PTL DEF Spec

(* The cnt a thread prints is the number of increments it made.            *)
THEOREM PrintsItsWork == Spec => []CntIsWork
<1>1. IInv => CntIsWork
  BY DEF IInv, TypeInv, LineIsWork, CreatedInOrder, PrintsOnce, CntIsWork
<1> QED  BY <1>1, Invariance, PTL

(* After the timeout a thread counts at most the increment it had begun.   *)
THEOREM OneIncrementLate == Spec => []StopsAtTimeout
<1>1. IInv => StopsAtTimeout
  BY DEF IInv, OneLate, StopsAtTimeout
<1> QED  BY <1>1, Invariance, PTL

(* When main() returns, every thread that was created has printed.         *)
THEOREM NoLineIsMissing == Spec => []AllReport
<1>1. IInv => AllReport
  BY DEF IInv, TypeInv, JoinedInOrder, PrintsOnce, AllReport
<1> QED  BY <1>1, Invariance, PTL
=============================================================================
