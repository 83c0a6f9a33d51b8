----------------------------- MODULE IdleSwitch -----------------------------
(***************************************************************************)
(* idle_switch_lat.c: a thread stores its id and sleeps again and again;   *)
(* main() reads the kernel's scheduling statistics of that id every second *)
(* and prints them with what they grew by.  The id is shared without any   *)
(* synchronisation.  One of the three counters of a line stands for all.   *)
(***************************************************************************)
EXTENDS Integers

CONSTANT MaxSlices  \* a bound on how often a thread is scheduled

Sizes == MaxSlices \in Nat

(* The ids of main() and of the sleeping thread; no thread has id 0.       *)
Main == 1
Sleeper == 2

VARIABLES tid,     \* 0 until the thread has stored it
          begun,   \* the thread has stored its id
          at,      \* main(): "sleep", "open", "print"
          path,    \* the id in proc_path
          slices,  \* kernel: how often each thread has been scheduled
          c1, c2, c3,
          told     \* the sum of all printed c3, a history variable

vars == <<tid, begun, at, path, slices, c1, c2, c3, told>>

Init ==
  /\ tid = 0 /\ begun = FALSE
  /\ at = "sleep" /\ path = 0
  /\ slices = [t \in {Main, Sleeper} |-> 0]
  /\ c1 = 0 /\ c2 = 0 /\ c3 = 0
  /\ told = 0

(* do_sleep() stores its id before it sleeps for the first time.           *)
Begin ==
  /\ ~ begun
  /\ tid' = Sleeper
  /\ begun' = TRUE
  /\ UNCHANGED <<at, path, slices, c1, c2, c3, told>>

(* External: the kernel schedules a thread.                                *)
Schedule(t) ==
  /\ slices[t] < MaxSlices
  /\ slices' = [slices EXCEPT ![t] = @ + 1]
  /\ UNCHANGED <<tid, begun, at, path, c1, c2, c3, told>>

(* Mutant of Wake: main()'s own id until the thread has stored one.        *)
WakeOwn ==
  /\ at = "sleep"
  /\ path' = IF begun THEN tid ELSE Main
  /\ at' = "open"
  /\ UNCHANGED <<tid, begun, slices, c1, c2, c3, told>>

(* usleep() is over; the path is made of the id as it is now.              *)
Wake ==
  /\ at = "sleep"
  /\ path' = tid
  /\ at' = "open"
  /\ UNCHANGED <<tid, begun, slices, c1, c2, c3, told>>

(* fopen() fails: there is no such thread, or the kernel keeps no          *)
(* statistics.  Nothing is printed.                                        *)
NoFile ==
  /\ at = "open"
  /\ at' = "sleep"
  /\ UNCHANGED <<tid, begun, path, slices, c1, c2, c3, told>>

Scan ==
  /\ at = "open" /\ path \in {Main, Sleeper}
  /\ c1' = slices[path]
  /\ at' = "print"
  /\ UNCHANGED <<tid, begun, path, slices, c2, c3, told>>

Tell ==
  /\ at = "print"
  /\ c3' = c1 - c2
  /\ c2' = c1
  /\ told' = told + c3'
  /\ at' = "sleep"
  /\ UNCHANGED <<tid, begun, path, slices, c1>>

Next ==
  \/ Begin \/ Wake \/ NoFile \/ Scan \/ Tell
  \/ \E t \in {Main, Sleeper} : Schedule(t)

SafeSpec == Init /\ [][Next]_vars

-----------------------------------------------------------------------------

(* The printed differences are of the sleeping thread and add up to what   *)
(* it has been scheduled, none counted twice or lost, whenever the thread  *)
(* stores its id and whichever samples fail (l.32, l.63-84).               *)
DeltasAddUp ==
  /\ told <= slices[Sleeper] /\ c3 >= 0
  /\ IF at = "print" THEN path = Sleeper /\ told <= c1 ELSE told = c1
=============================================================================
