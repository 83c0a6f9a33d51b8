--------------------------- MODULE CycleCounting ---------------------------
(***************************************************************************)
(* cycleCountingLSU.c: every thread increments a counter in a cache line   *)
(* of its own until main() sets timeout.  The default test case increments *)
(* with a plain load and store, the others atomically.                     *)
(***************************************************************************)
EXTENDS Integers

CONSTANTS NumThreads, \* option -n
          MaxWork     \* bound on the increments of one thread

ASSUME ThreadsAssumption == NumThreads \in Nat \ {0}
ASSUME WorkAssumption == MaxWork \in Nat

Thread == 0 .. NumThreads - 1

VARIABLES atomic,   \* test_case 1 .. 3, or the default
          main,     \* where main() is: "create", "sleep", "join", "end", "crash"
          k,        \* i, main()'s loop counter
          timeout,  \* the flag all threads read
          data,     \* the counters, one per cache line
          pc,       \* per thread: "none", "failed", "test", "store" or "exit"
          reg,      \* per thread: the value its plain increment loaded
          work,     \* per thread: increments it has made
          late,     \* per thread: increments begun after the timeout
          printed   \* per thread: the cnt it printed, -1 before

vars == <<atomic, main, k, timeout, data, pc, reg, work, late, printed>>

Init ==
  /\ atomic \in BOOLEAN
  /\ main = "create"
  /\ k = 0
  /\ timeout = FALSE
  /\ data = [t \in Thread |-> 0]
  /\ pc = [t \in Thread |-> "none"]
  /\ reg = [t \in Thread |-> 0]
  /\ work = [t \in Thread |-> 0]
  /\ late = [t \in Thread |-> 0]
  /\ printed = [t \in Thread |-> -1]

(* The line of the t-th thread: p starts at data and advances by one line. *)
Line(t) == t

(* Mutant of Create: the counter is zeroed after the call.                 *)
CreateFirst ==
  \/ /\ main = "create" /\ k < NumThreads /\ pc[k] = "none"
     /\ pc' = [pc EXCEPT ![k] = "test"]
     /\ UNCHANGED <<atomic, main, k, timeout, data, reg, work, late, printed>>
  \/ /\ main = "create" /\ k < NumThreads /\ pc[k] # "none"
     /\ data' = [data EXCEPT ![Line(k)] = 0]
     /\ k' = k + 1
     /\ UNCHANGED <<atomic, main, timeout, pc, reg, work, late, printed>>

(* Zero the line, then pthread_create(), whose result is not looked at.    *)
Create ==
  /\ main = "create" /\ k < NumThreads
  /\ data' = [data EXCEPT ![Line(k)] = 0]
  /\ \E made \in {"test", "failed"} : pc' = [pc EXCEPT ![k] = made]
  /\ k' = k + 1
  /\ UNCHANGED <<atomic, main, timeout, reg, work, late, printed>>

Created ==
  /\ main = "create" /\ k = NumThreads
  /\ main' = "sleep"
  /\ UNCHANGED <<atomic, k, timeout, data, pc, reg, work, late, printed>>

(* Mutant of Wake: the flag is set after the joins.                        *)
WakeLate ==
  /\ main = "sleep"
  /\ main' = "join"
  /\ k' = 0
  /\ UNCHANGED <<atomic, timeout, data, pc, reg, work, late, printed>>

(* The sleep ends, before or after the threads have made any progress.     *)
Wake ==
  /\ main = "sleep"
  /\ timeout' = TRUE
  /\ main' = "join"
  /\ k' = 0
  /\ UNCHANGED <<atomic, data, pc, reg, work, late, printed>>

(* Mutant of Join: main() does not wait.                                   *)
JoinAll ==
  /\ main = "join" /\ k < NumThreads
  /\ k' = k + 1
  /\ UNCHANGED <<atomic, main, timeout, data, pc, reg, work, late, printed>>

(* tid[k] was never written if pthread_create() failed: the join of it may *)
(* return or crash.                                                        *)
Join ==
  /\ main = "join" /\ k < NumThreads
  /\ pc[k] \in {"exit", "failed"}
  /\ \/ k' = k + 1 /\ UNCHANGED main
     \/ pc[k] = "failed" /\ main' = "crash" /\ UNCHANGED k
  /\ UNCHANGED <<atomic, timeout, data, pc, reg, work, late, printed>>

Joined ==
  /\ main = "join" /\ k = NumThreads
  /\ main' = "end"
  /\ UNCHANGED <<atomic, k, timeout, data, pc, reg, work, late, printed>>

(* The process lives until main() returns.                                 *)
Alive == main \notin {"end", "crash"}

Counted(t) ==
  /\ work' = [work EXCEPT ![t] = @ + 1]
  /\ late' = [late EXCEPT ![t] = @ + IF timeout THEN 1 ELSE 0]

(* Mutant of Load: timeout is not volatile.                                *)
LoadCached(t) ==
  /\ Alive /\ ~atomic /\ pc[t] = "test"
  /\ work[t] < MaxWork
  /\ reg' = [reg EXCEPT ![t] = data[Line(t)]]
  /\ pc' = [pc EXCEPT ![t] = "store"]
  /\ UNCHANGED <<atomic, main, k, timeout, data, work, late, printed>>

(* while (!timeout): the test and then the load of the increment ...       *)
Load(t) ==
  /\ Alive /\ ~atomic /\ pc[t] = "test" /\ ~timeout
  /\ work[t] < MaxWork
  /\ reg' = [reg EXCEPT ![t] = data[Line(t)]]
  /\ pc' = [pc EXCEPT ![t] = "store"]
  /\ UNCHANGED <<atomic, main, k, timeout, data, work, late, printed>>

(* ... and its store.                                                      *)
Store(t) ==
  /\ Alive /\ ~atomic /\ pc[t] = "store"
  /\ data' = [data EXCEPT ![Line(t)] = reg[t] + 1]
  /\ pc' = [pc EXCEPT ![t] = "test"]
  /\ Counted(t)
  /\ UNCHANGED <<atomic, main, k, timeout, reg, printed>>

(* The test of the atomic cases.                                           *)
Decide(t) ==
  /\ Alive /\ atomic /\ pc[t] = "test" /\ ~timeout
  /\ work[t] < MaxWork
  /\ pc' = [pc EXCEPT ![t] = "store"]
  /\ UNCHANGED <<atomic, main, k, timeout, data, reg, work, late, printed>>

FetchAdd(t) ==
  /\ Alive /\ atomic /\ pc[t] = "store"
  /\ data' = [data EXCEPT ![Line(t)] = @ + 1]
  /\ pc' = [pc EXCEPT ![t] = "test"]
  /\ Counted(t)
  /\ UNCHANGED <<atomic, main, k, timeout, reg, printed>>

(* At the bound the loop goes round uncounted.                             *)
Spin(t) ==
  /\ Alive /\ pc[t] = "test" /\ ~timeout /\ work[t] = MaxWork
  /\ UNCHANGED vars

Report(t) ==
  /\ Alive /\ pc[t] = "test" /\ timeout
  /\ printed' = [printed EXCEPT ![t] = data[Line(t)]]
  /\ pc' = [pc EXCEPT ![t] = "exit"]
  /\ UNCHANGED <<atomic, main, k, timeout, data, reg, work, late>>

Finished == ~Alive /\ UNCHANGED vars

MainStep == Create \/ Created \/ Wake \/ Join \/ Joined

ThreadStep(t) == Load(t) \/ Store(t) \/ Decide(t) \/ FetchAdd(t) \/ Report(t)

Next == MainStep \/ (\E t \in Thread : ThreadStep(t) \/ Spin(t)) \/ Finished

(* Every thread is scheduled, main()'s sleep ends.                         *)
Fairness == WF_vars(MainStep) /\ \A t \in Thread : WF_vars(ThreadStep(t))

Spec == Init /\ [][Next]_vars /\ Fairness

-----------------------------------------------------------------------------
(* The cnt a thread prints is the number of increments it has made: none   *)
(* is lost to another thread or to main() zeroing the counter while the    *)
(* thread is already at work (l.155, l.91, l.98).                          *)
CntIsWork == \A t \in Thread : printed[t] # -1 => printed[t] = work[t]

(* No thread counts more than the one increment it had begun when the      *)
(* timeout was set, so cnt belongs to delay_sec seconds (l.73, l.164).     *)
StopsAtTimeout ==
  \A t \in Thread : pc[t] \in {"test", "store"} /\ timeout =>
    late[t] + (IF pc[t] = "store" THEN 1 ELSE 0) <= 1

(* main() does not return, which would end the process, before every       *)
(* thread it could create has printed its line (l.167-169).                *)
AllReport == main = "end" => \A t \in Thread : pc[t] # "failed" => printed[t] # -1

(* The program ends: no thread misses the flag for ever.                   *)
Ends == <>~Alive
=============================================================================
